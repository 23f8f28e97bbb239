--------------------------- MODULE CatalogsProofs ---------------------------
(***************************************************************************)
(* The safety properties of Catalogs, for any processes, roles, TTL and    *)
(* qualities of a download: what the two files of a cache may hold while   *)
(* callers are anywhere between them.                                      *)
(***************************************************************************)
EXTENDS Catalogs, Integers, TLAPS

Pcs == {"idle", "boot", "resolve", "begin", "lock", "give", "index", "reset", "latch", "fetch"}
         \cup Quick

(* Inside Get: between taking the lock and giving it back.                 *)
Locked == Quick \cup {"fetch", "give"}

(* A caller holds what it downloaded, and what it downloaded was admitted. *)
Downloaded == {"parse", "write", "writing", "date", "keep"}
Accepted == Downloaded \ {"parse"}

TypeOK ==
  /\ connector \in {"github", "gcp", "aws"}
  /\ now \in 0..MaxTime
  /\ data \in [Caches -> Contents]
  /\ meta \in [Caches -> 0..MaxTime \cup {None, Torn}]
  /\ indexFile \in Contents
  /\ mem \in [Procs -> [Caches -> Contents]]
  /\ index \in [Procs -> [built : Contents, archive : Contents] \cup {None}]
  /\ lock \in [Procs -> [Caches -> Callers \cup {None}]]
  /\ handoff \in [Procs -> Payloads \cup {None}]
  /\ latch \in [Procs -> [epoch : Nat, failed : BOOLEAN]]
  /\ boot \in [Procs -> {"new", "running", "ready", "notReady"}]
  /\ pc \in [Callers -> Pcs]
  /\ epoch \in [Callers -> Nat]
  /\ raw \in [Callers -> Contents]
  /\ served \in [Callers -> Int \cup {None}]

(* TTLCache.mu: one caller of a process is inside a cache at a time.       *)
LockOK ==
  \A c \in Callers : pc[c] \in Locked => lock[Proc(c)][cacheOf(c)] = c

(* A download is a payload from the moment it is there, an admitted one    *)
(* once it has been parsed; memory holds nothing else, unless the cache    *)
(* keeps the bytes as they came.                                           *)
Admitted(k, p) == p \in Payloads /\ k \in p.for

AdmittedOK ==
  /\ \A c \in Callers : pc[c] \in Downloaded => raw[c] \in Payloads
  /\ connector # "aws" =>
       /\ \A p \in Procs, k \in Caches : mem[p][k] # None => Admitted(k, mem[p][k])
       /\ \A c \in Callers : pc[c] \in Accepted => Admitted(cacheOf(c), raw[c])

(* An index file that is whole is of an archive that could be indexed, and *)
(* only an archive that is there is indexed.                               *)
IndexOK ==
  /\ indexFile \notin {None, Torn} => buildIndex(indexFile)
  /\ \A c \in Callers : pc[c] = "index" => raw[c] # None
  /\ \A p \in Procs : index[p] # None =>
       index[p].built = index[p].archive /\ buildIndex(index[p].archive)

IInv == TypeOK /\ LockOK /\ AdmittedOK /\ IndexOK

(* How much older than its age file says a payload may be: what was handed *)
(* over was up to a TTL old when it was stored.                            *)
slack(k) == IF k = "table" THEN 0 ELSE TTL

(* The age file never makes a payload younger than that, also while the    *)
(* payload has been replaced and its age has not; and what a caller is     *)
(* about to store, or is reading, is what the files say it is.             *)
AgesOK ==
  /\ \A k \in Caches : meta[k] \in 0..MaxTime => meta[k] <= now
  /\ \A k \in Caches : data[k] \in Payloads /\ meta[k] \in 0..MaxTime => meta[k] <= data[k].at + slack(k)
  /\ \A c \in Callers :
       /\ pc[c] = "age" => raw[c] = data[cacheOf(c)]
       /\ pc[c] = "date" => raw[c] = data[cacheOf(c)]
       /\ pc[c] \in Downloaded => now <= raw[c].at + slack(cacheOf(c))

FInv == AgesOK /\ FreshIsFresh
-----------------------------------------------------------------------------
(* A caller is of a process and has a cache.                               *)
LEMMA CallerParts ==
  ASSUME NEW c \in Callers
  PROVE  Proc(c) \in Procs /\ Role(c) \in Roles /\ cacheOf(c) \in Caches
BY DEF Callers, Proc, Role, cacheOf, Caches

(* Two callers of one process that use one cache are not both inside it.   *)
LEMMA OneInside ==
  ASSUME LockOK, NEW c \in Callers, NEW d \in Callers, pc[c] \in Locked, pc[d] \in Locked,
         Proc(c) = Proc(d), cacheOf(c) = cacheOf(d)
  PROVE  c = d
BY DEF LockOK

(* A download of now is a payload.                                         *)
LEMMA DownloadIsPayload ==
  ASSUME TypeOK, NEW good \in Qualities
  PROVE  [at |-> now, for |-> good] \in Payloads
BY DEF TypeOK, Payloads

(* What is neither a step of a caller nor a crash nor a tick stutters.     *)
Coming(c) == Start(c) \/ ensureReady(c) \/ LazyResolve(c) \/ HintBegins(c)
Reading(c) == Get(c) \/ TryDisk(c) \/ TryStale(c) \/ ReadAge(c) \/ ReadStaleAge(c)
Fetching(c) == Take(c) \/ Fetch(c) \/ ParseFetched(c)
Storing(c) == WriteData(c) \/ WroteData(c) \/ WriteMeta(c) \/ Keep(c)
Leaving(c) == Give(c) \/ useArchive(c) \/ ResetLatch(c) \/ SetLatch(c)
-----------------------------------------------------------------------------
LEMMA ComingTyped == ASSUME TypeOK, NEW c \in Callers, Coming(c) PROVE TypeOK'
<1> USE CallerParts
<1>1. CASE Start(c)
  <2>1. pc' \in [Callers -> Pcs]
    BY <1>1 DEF Start, Goto, TypeOK, Pcs
  <2> QED BY <1>1, <2>1 DEF Start, TypeOK, files, memory
<1>2. CASE ensureReady(c)
  BY <1>2 DEF ensureReady, Goto, TypeOK, Pcs, files
<1>3. CASE LazyResolve(c)
  BY <1>3 DEF LazyResolve, Goto, TypeOK, Pcs, files
<1>4. CASE HintBegins(c)
  BY <1>4, ZenonT(60) DEF HintBegins, Goto, TypeOK, Pcs, files, memory
<1> QED BY <1>1, <1>2, <1>3, <1>4 DEF Coming

LEMMA MemoryTyped ==
  ASSUME TypeOK, NEW c \in Callers,
         mem' = [mem EXCEPT ![Proc(c)][cacheOf(c)] = raw[c]] \/ mem' = mem
  PROVE  mem' \in [Procs -> [Caches -> Contents]]
<1>1. /\ Proc(c) \in Procs /\ cacheOf(c) \in Caches /\ raw[c] \in Contents
      /\ mem \in [Procs -> [Caches -> Contents]]
  BY CallerParts DEF TypeOK
<1>2. [mem[Proc(c)] EXCEPT ![cacheOf(c)] = raw[c]] \in [Caches -> Contents]
  BY <1>1
<1> QED BY <1>1, <1>2

LEMMA ReadingTyped == ASSUME TypeOK, NEW c \in Callers, Reading(c) PROVE TypeOK'
<1> USE CallerParts
<1>1. CASE Get(c)
  <2>1. raw' \in [Callers -> Contents] /\ pc' \in [Callers -> Pcs]
    BY <1>1 DEF Get, Hold, Goto, TypeOK, Pcs, Quick
  <2>2. lock' \in [Procs -> [Caches -> Callers \cup {None}]]
    BY <1>1 DEF Get, TypeOK
  <2> QED BY <1>1, <2>1, <2>2 DEF Get, TypeOK, files, memory
<1>2. CASE TryDisk(c) \/ TryStale(c)
  <2>1. raw' \in [Callers -> Contents] /\ pc' \in [Callers -> Pcs]
    BY <1>2, ZenonT(60) DEF TryDisk, TryStale, readData, Hold, Goto, TypeOK, Pcs, Quick
  <2> QED BY <1>2, <2>1 DEF TryDisk, TryStale, readData, TypeOK, files, memory
<1>3. CASE ReadAge(c)
  <2>1. raw' \in [Callers -> Contents] /\ pc' \in [Callers -> Pcs]
    BY <1>3 DEF ReadAge, Hold, Goto, TypeOK, Pcs, Quick, Contents
  <2>2. mem' \in [Procs -> [Caches -> Contents]]
    BY <1>3, MemoryTyped DEF ReadAge
  <2>3. served' \in [Callers -> Int \cup {None}]
    <3>1. CASE onDisk(c) /\ fresh(c)
      <4>1. raw[c] # Torn => now - raw[c].at \in Int
        BY <3>1, MarkersAssumption, TTLAssumption DEF onDisk, Parse, Payloads, TypeOK
      <4> QED BY <1>3, <3>1, <4>1 DEF ReadAge, TypeOK
    <3> QED BY <1>3, <3>1 DEF ReadAge, TypeOK
  <2> QED BY <1>3, <2>1, <2>2, <2>3 DEF ReadAge, TypeOK, files
<1>4. CASE ReadStaleAge(c)
  <2>1. raw' \in [Callers -> Contents] /\ pc' \in [Callers -> Pcs]
    BY <1>4 DEF ReadStaleAge, Hold, Goto, TypeOK, Pcs, Quick, Contents
  <2>2. mem' \in [Procs -> [Caches -> Contents]]
    BY <1>4, MemoryTyped DEF ReadStaleAge
  <2> QED BY <1>4, <2>1, <2>2 DEF ReadStaleAge, TypeOK, files
<1> QED BY <1>1, <1>2, <1>3, <1>4 DEF Reading

LEMMA FetchingTyped == ASSUME TypeOK, NEW c \in Callers, Fetching(c) PROVE TypeOK'
<1> USE CallerParts
<1>1. CASE Take(c)
  <2>1. raw' \in [Callers -> Contents] /\ pc' \in [Callers -> Pcs]
    BY <1>1 DEF Take, Hold, Goto, TypeOK, Pcs, Quick, Contents
  <2> QED BY <1>1, <2>1 DEF Take, TypeOK, files
<1>2. CASE Fetch(c)
  <2>1. raw' \in [Callers -> Contents] /\ pc' \in [Callers -> Pcs]
    BY <1>2, DownloadIsPayload, ZenonT(60) DEF Fetch, Hold, Goto, TypeOK, Pcs, Quick, Contents
  <2>2. handoff' \in [Procs -> Payloads \cup {None}]
    BY <1>2, DownloadIsPayload, ZenonT(60) DEF Fetch, TypeOK
  <2> QED BY <1>2, <2>1, <2>2 DEF Fetch, TypeOK, files
<1>3. CASE ParseFetched(c)
  <2>1. raw' \in [Callers -> Contents] /\ pc' \in [Callers -> Pcs]
    BY <1>3 DEF ParseFetched, Hold, Goto, TypeOK, Pcs, Quick, Contents
  <2> QED BY <1>3, <2>1 DEF ParseFetched, TypeOK, files, memory
<1> QED BY <1>1, <1>2, <1>3 DEF Fetching

LEMMA StoringTyped == ASSUME TypeOK, NEW c \in Callers, Storing(c) PROVE TypeOK'
<1> USE CallerParts
<1>1. pc' \in [Callers -> Pcs]
  BY ZenonT(60) DEF Storing, WriteData, WroteData, WriteMeta, Keep, Goto, TypeOK, Pcs, Quick
<1>2. CASE WriteData(c) \/ WroteData(c)
  <2>1. data' \in [Caches -> Contents]
    BY <1>2 DEF WriteData, WroteData, TypeOK, Contents
  <2> QED BY <1>1, <1>2, <2>1 DEF WriteData, WroteData, TypeOK, memory
<1>3. CASE WriteMeta(c)
  BY <1>1, <1>3 DEF WriteMeta, TypeOK, memory
<1>4. CASE Keep(c)
  <2>1. mem' \in [Procs -> [Caches -> Contents]]
    BY <1>4 DEF Keep, TypeOK
  <2> QED BY <1>1, <1>4, <2>1 DEF Keep, TypeOK, files
<1> QED BY <1>2, <1>3, <1>4 DEF Storing

LEMMA ReturnTyped ==
  ASSUME TypeOK, NEW c \in Callers, Return(c)
  PROVE  /\ pc' \in [Callers -> Pcs] /\ raw' \in [Callers -> Contents]
         /\ epoch' \in [Callers -> Nat] /\ served' \in [Callers -> Int \cup {None}]
BY DEF TypeOK, Return, Goto, Hold, Pcs, Contents

LEMMA LeavingTyped == ASSUME TypeOK, NEW c \in Callers, Leaving(c) PROVE TypeOK'
<1> USE CallerParts
<1>1. CASE Give(c)
  <2>1. /\ pc' \in [Callers -> Pcs] /\ raw' \in [Callers -> Contents]
        /\ epoch' \in [Callers -> Nat] /\ served' \in [Callers -> Int \cup {None}]
    <3>1. CASE Return(c) BY <3>1, ReturnTyped
    <3>2. CASE ~Return(c)
      BY <1>1, <3>2 DEF Give, Goto, TypeOK, Pcs
    <3> QED BY <3>1, <3>2
  <2>2. lock' \in [Procs -> [Caches -> Callers \cup {None}]]
    BY <1>1 DEF Give, TypeOK
  <2> QED BY <1>1, <2>1, <2>2 DEF Give, TypeOK, files, memory
<1>2. CASE useArchive(c)
  <2>1. indexFile' \in Contents
    BY <1>2 DEF useArchive, TypeOK, Contents
  <2>2. index' \in [Procs -> [built : Contents, archive : Contents] \cup {None}]
    <3>1. PICK i \in [built : Contents, archive : Contents] :
            index' = [index EXCEPT ![Proc(c)] = i] \/ index' = index
      <4>1. raw[c] \in Contents /\ indexFile \in Contents BY DEF TypeOK
      <4>2. [built |-> indexFile, archive |-> raw[c]] \in [built : Contents, archive : Contents]
        BY <4>1
      <4>3. [built |-> raw[c], archive |-> raw[c]] \in [built : Contents, archive : Contents]
        BY <4>1
      <4> QED BY <1>2, <4>2, <4>3 DEF useArchive
    <3> QED BY <3>1 DEF TypeOK
  <2> QED BY <1>2, <2>1, <2>2, ReturnTyped DEF useArchive, TypeOK
<1>3. CASE ResetLatch(c) \/ SetLatch(c)
  <2>1. latch' \in [Procs -> [epoch : Nat, failed : BOOLEAN]]
    <3>1. PICK l \in [epoch : Nat, failed : BOOLEAN] :
            latch' = [latch EXCEPT ![Proc(c)] = l] \/ latch' = latch
      <4>1. latch[Proc(c)] \in [epoch : Nat, failed : BOOLEAN] BY DEF TypeOK
      <4>2. [epoch |-> latch[Proc(c)].epoch + 1, failed |-> FALSE] \in [epoch : Nat, failed : BOOLEAN]
        BY <4>1
      <4>3. [latch[Proc(c)] EXCEPT !.failed = TRUE] \in [epoch : Nat, failed : BOOLEAN]
        BY <4>1
      <4>4. CASE ResetLatch(c) BY <4>2, <4>4 DEF ResetLatch, TypeOK
      <4>5. CASE SetLatch(c) BY <4>3, <4>5 DEF SetLatch, TypeOK
      <4> QED BY <1>3, <4>4, <4>5
    <3> QED BY <3>1 DEF TypeOK
  <2>2. Return(c) BY <1>3 DEF ResetLatch, SetLatch
  <2> QED BY <1>3, <2>1, <2>2, ReturnTyped DEF ResetLatch, SetLatch, TypeOK, files
<1> QED BY <1>1, <1>2, <1>3 DEF Leaving
-----------------------------------------------------------------------------
(* The lock stays with the caller inside as long as nobody else gets in.   *)
LEMMA LockKeeps ==
  ASSUME TypeOK, LockOK, NEW c \in Callers, lock' = lock,
         NEW to, pc' = [pc EXCEPT ![c] = to], pc[c] \in Locked \/ to \notin Locked
  PROVE  LockOK'
BY DEF TypeOK, LockOK

LEMMA ComingLocks == ASSUME TypeOK, LockOK, NEW c \in Callers, Coming(c) PROVE LockOK'
<1>1. PICK to \in Pcs \ Locked : pc' = [pc EXCEPT ![c] = to]
  BY DEF Coming, Start, ensureReady, LazyResolve, HintBegins, Goto, Pcs, Locked, Quick
<1>2. lock' = lock
  BY DEF Coming, Start, ensureReady, LazyResolve, HintBegins
<1> QED BY <1>1, <1>2, LockKeeps

LEMMA ReadingLocks == ASSUME TypeOK, LockOK, NEW c \in Callers, Reading(c) PROVE LockOK'
<1>1. CASE Get(c)
  <2>1. \A d \in Callers : d # c => pc'[d] = pc[d]
    BY <1>1 DEF Get, Goto, TypeOK
  <2>2. lock[Proc(c)][cacheOf(c)] = None /\ lock'[Proc(c)][cacheOf(c)] = c
    BY <1>1, CallerParts DEF Get, TypeOK
  <2>3. \A d \in Callers : pc[d] \in Locked => ~(Proc(d) = Proc(c) /\ cacheOf(d) = cacheOf(c))
    BY <2>2, MarkersAssumption DEF LockOK
  <2>4. \A d \in Callers : ~(Proc(d) = Proc(c) /\ cacheOf(d) = cacheOf(c)) =>
          lock'[Proc(d)][cacheOf(d)] = lock[Proc(d)][cacheOf(d)]
    BY <1>1, CallerParts DEF Get, TypeOK
  <2> QED BY <2>1, <2>2, <2>3, <2>4 DEF LockOK, Proc, cacheOf, Role
<1>2. CASE ~Get(c)
  <2>1. pc[c] \in Locked /\ lock' = lock
    BY <1>2 DEF Reading, TryDisk, TryStale, readData, ReadAge, ReadStaleAge, Locked, Quick
  <2>2. \E to : pc' = [pc EXCEPT ![c] = to]
    BY <1>2 DEF Reading, TryDisk, TryStale, readData, ReadAge, ReadStaleAge, Goto
  <2> QED BY <2>1, <2>2, LockKeeps
<1> QED BY <1>1, <1>2

LEMMA FetchingLocks == ASSUME TypeOK, LockOK, NEW c \in Callers, Fetching(c) PROVE LockOK'
<1>1. pc[c] \in Locked /\ lock' = lock
  BY DEF Fetching, Take, Fetch, ParseFetched, Locked, Quick
<1>2. CASE pc' = pc BY <1>1, <1>2 DEF LockOK
<1>3. CASE pc' # pc
  <2>1. \E to : pc' = [pc EXCEPT ![c] = to]
    BY <1>3 DEF Fetching, Take, Fetch, ParseFetched, Goto
  <2> QED BY <1>1, <2>1, LockKeeps
<1> QED BY <1>2, <1>3

LEMMA StoringLocks == ASSUME TypeOK, LockOK, NEW c \in Callers, Storing(c) PROVE LockOK'
<1>1. pc[c] \in Locked /\ lock' = lock
  BY DEF Storing, WriteData, WroteData, WriteMeta, Keep, Locked, Quick
<1>2. \E to : pc' = [pc EXCEPT ![c] = to]
  BY DEF Storing, WriteData, WroteData, WriteMeta, Keep, Goto
<1> QED BY <1>1, <1>2, LockKeeps

LEMMA LeavingLocks == ASSUME TypeOK, LockOK, NEW c \in Callers, Leaving(c) PROVE LockOK'
<1>1. PICK to \in Pcs \ Locked : pc' = [pc EXCEPT ![c] = to]
  BY DEF Leaving, Give, useArchive, ResetLatch, SetLatch, Return, Goto, Pcs, Locked, Quick
<1>2. CASE Give(c)
  <2>1. \A d \in Callers : d # c /\ pc[d] \in Locked => ~(Proc(d) = Proc(c) /\ cacheOf(d) = cacheOf(c))
    BY <1>2, OneInside DEF Give, Locked
  <2>2. \A d \in Callers : ~(Proc(d) = Proc(c) /\ cacheOf(d) = cacheOf(c)) =>
          lock'[Proc(d)][cacheOf(d)] = lock[Proc(d)][cacheOf(d)]
    BY <1>2, CallerParts DEF Give, TypeOK
  <2>3. \A d \in Callers : pc'[d] = IF d = c THEN to ELSE pc[d]
    BY <1>1 DEF TypeOK
  <2> QED BY <2>1, <2>2, <2>3 DEF LockOK
<1>3. CASE ~Give(c)
  <2>1. lock' = lock BY <1>3 DEF Leaving, useArchive, ResetLatch, SetLatch
  <2> QED BY <1>1, <2>1, LockKeeps
<1> QED BY <1>2, <1>3
-----------------------------------------------------------------------------
(* What a caller holds does not change what the others hold.               *)
LEMMA ComingAdmits == ASSUME TypeOK, AdmittedOK, NEW c \in Callers, Coming(c) PROVE AdmittedOK'
<1>1. PICK to \in Pcs \ Locked : pc' = [pc EXCEPT ![c] = to]
  BY DEF Coming, Start, ensureReady, LazyResolve, HintBegins, Goto, Pcs, Locked, Quick
<1>2. UNCHANGED <<connector, mem, raw>>
  BY DEF Coming, Start, ensureReady, LazyResolve, HintBegins, memory
<1> QED BY <1>1, <1>2 DEF AdmittedOK, TypeOK, Downloaded, Accepted, Locked, Quick

LEMMA ReadingAdmits == ASSUME TypeOK, AdmittedOK, NEW c \in Callers, Reading(c) PROVE AdmittedOK'
<1>1. pc'[c] \notin Downloaded
  BY DEF Reading, Get, TryDisk, TryStale, readData, ReadAge, ReadStaleAge, Goto, Downloaded, TypeOK
<1>2. \A d \in Callers : d # c => pc'[d] = pc[d] /\ raw'[d] = raw[d]
  BY DEF Reading, Get, TryDisk, TryStale, readData, ReadAge, ReadStaleAge, Goto, Hold, TypeOK
<1>3. connector' = connector
  BY DEF Reading, Get, TryDisk, TryStale, readData, ReadAge, ReadStaleAge
<1>4. ASSUME connector # "aws", NEW p \in Procs, NEW k \in Caches, mem'[p][k] # None
      PROVE  Admitted(k, mem'[p][k])
  <2>1. CASE mem'[p][k] = mem[p][k]
    BY <1>4, <2>1 DEF AdmittedOK
  <2>2. CASE mem'[p][k] # mem[p][k]
    <3>1. onDisk(c) /\ mem' = [mem EXCEPT ![Proc(c)][cacheOf(c)] = raw[c]]
      BY <2>2 DEF Reading, Get, TryDisk, TryStale, readData, ReadAge, ReadStaleAge, memory
    <3>2. k = cacheOf(c) /\ mem'[p][k] = raw[c]
      BY <2>2, <3>1, CallerParts DEF TypeOK
    <3> QED BY <1>4, <3>1, <3>2 DEF onDisk, Parse, Admitted
  <2> QED BY <2>1, <2>2
<1> QED BY <1>1, <1>2, <1>3, <1>4 DEF AdmittedOK, Accepted

LEMMA FetchingAdmits == ASSUME TypeOK, AdmittedOK, NEW c \in Callers, Fetching(c) PROVE AdmittedOK'
<1>1. UNCHANGED <<connector, mem>>
  BY DEF Fetching, Take, Fetch, ParseFetched, memory
<1>2. \A d \in Callers : d # c => pc'[d] = pc[d] /\ raw'[d] = raw[d]
  BY DEF Fetching, Take, Fetch, ParseFetched, Goto, Hold, TypeOK
<1>3. pc'[c] \in Downloaded => raw'[c] \in Payloads
  <2>1. CASE Take(c)
    BY <2>1, CallerParts DEF Take, Goto, Hold, TypeOK, Downloaded
  <2>2. CASE Fetch(c)
    BY <2>2, DownloadIsPayload DEF Fetch, Goto, Hold, TypeOK, Downloaded
  <2>3. CASE ParseFetched(c)
    BY <2>3 DEF ParseFetched, Goto, Hold, TypeOK, Downloaded, AdmittedOK
  <2> QED BY <2>1, <2>2, <2>3 DEF Fetching
<1>4. connector # "aws" /\ pc'[c] \in Accepted => Admitted(cacheOf(c), raw'[c])
  <2>1. CASE Take(c) \/ Fetch(c)
    BY <2>1 DEF Take, Fetch, Goto, TypeOK, Accepted, Downloaded
  <2>2. CASE ParseFetched(c)
    BY <2>2, MarkersAssumption
    DEF ParseFetched, admitted, Parse, Admitted, Goto, Hold, TypeOK, Accepted, Downloaded
  <2> QED BY <2>1, <2>2 DEF Fetching
<1> QED BY <1>1, <1>2, <1>3, <1>4 DEF AdmittedOK

LEMMA StoringAdmits == ASSUME TypeOK, AdmittedOK, NEW c \in Callers, Storing(c) PROVE AdmittedOK'
<1>1. UNCHANGED <<connector, raw>> /\ pc[c] \in Accepted
  BY DEF Storing, WriteData, WroteData, WriteMeta, Keep, Accepted, Downloaded
<1>2. \A d \in Callers : d # c => pc'[d] = pc[d]
  BY DEF Storing, WriteData, WroteData, WriteMeta, Keep, Goto, TypeOK
<1>3. ASSUME connector # "aws", NEW p \in Procs, NEW k \in Caches, mem'[p][k] # None
      PROVE  Admitted(k, mem'[p][k])
  <2>1. CASE mem'[p][k] = mem[p][k]
    BY <1>3, <2>1 DEF AdmittedOK
  <2>2. CASE mem'[p][k] # mem[p][k]
    <3>1. mem' = [mem EXCEPT ![Proc(c)][cacheOf(c)] = raw[c]]
      BY <2>2 DEF Storing, WriteData, WroteData, WriteMeta, Keep, memory
    <3>2. k = cacheOf(c) /\ mem'[p][k] = raw[c]
      BY <2>2, <3>1, CallerParts DEF TypeOK
    <3> QED BY <1>1, <1>3, <3>2 DEF AdmittedOK
  <2> QED BY <2>1, <2>2
<1> QED BY <1>1, <1>2, <1>3 DEF AdmittedOK, Accepted

LEMMA LeavingAdmits == ASSUME TypeOK, AdmittedOK, NEW c \in Callers, Leaving(c) PROVE AdmittedOK'
<1>1. UNCHANGED <<connector, mem>>
  BY DEF Leaving, Give, useArchive, ResetLatch, SetLatch, memory
<1>2. pc'[c] \notin Downloaded
  BY DEF Leaving, Give, useArchive, ResetLatch, SetLatch, Return, Goto, Downloaded, TypeOK
<1>3. \A d \in Callers : d # c => pc'[d] = pc[d] /\ raw'[d] = raw[d]
  BY DEF Leaving, Give, useArchive, ResetLatch, SetLatch, Return, Goto, Hold, TypeOK
<1> QED BY <1>1, <1>2, <1>3 DEF AdmittedOK, Accepted
-----------------------------------------------------------------------------
(* Only useArchive touches an index or its file, and only Give sends a     *)
(* caller there.                                                           *)
LEMMA OthersIndex ==
  ASSUME TypeOK, IndexOK, NEW c \in Callers, Coming(c) \/ Reading(c) \/ Fetching(c) \/ Storing(c)
  PROVE  IndexOK'
<1>1. UNCHANGED <<indexFile, index>>
  BY DEF Coming, Start, ensureReady, LazyResolve, HintBegins, Reading, Get, TryDisk, TryStale,
         readData, ReadAge, ReadStaleAge, Fetching, Take, Fetch, ParseFetched, Storing, WriteData,
         WroteData, WriteMeta, Keep, files, memory
<1>2. pc'[c] # "index"
  <2>1. CASE Coming(c)
    BY <2>1 DEF Coming, Start, ensureReady, LazyResolve, HintBegins, Goto, TypeOK
  <2>2. CASE Reading(c)
    BY <2>2 DEF Reading, Get, TryDisk, TryStale, readData, ReadAge, ReadStaleAge, Goto, TypeOK
  <2>3. CASE Fetching(c)
    BY <2>3 DEF Fetching, Take, Fetch, ParseFetched, Goto, TypeOK
  <2>4. CASE Storing(c)
    BY <2>4 DEF Storing, WriteData, WroteData, WriteMeta, Keep, Goto, TypeOK
  <2> QED BY <2>1, <2>2, <2>3, <2>4
<1>3. \A d \in Callers : d # c => pc'[d] = pc[d] /\ raw'[d] = raw[d]
  <2>1. CASE Coming(c)
    BY <2>1 DEF Coming, Start, ensureReady, LazyResolve, HintBegins, Goto, TypeOK
  <2>2. CASE Reading(c)
    BY <2>2 DEF Reading, Get, TryDisk, TryStale, readData, ReadAge, ReadStaleAge, Goto, Hold, TypeOK
  <2>3. CASE Fetching(c)
    BY <2>3 DEF Fetching, Take, Fetch, ParseFetched, Goto, Hold, TypeOK
  <2>4. CASE Storing(c)
    BY <2>4 DEF Storing, WriteData, WroteData, WriteMeta, Keep, Goto, TypeOK
  <2> QED BY <2>1, <2>2, <2>3, <2>4
<1> QED BY <1>1, <1>2, <1>3 DEF IndexOK, buildIndex

LEMMA LeavingIndexes == ASSUME TypeOK, IndexOK, NEW c \in Callers, Leaving(c) PROVE IndexOK'
<1>1. \A d \in Callers : d # c => pc'[d] = pc[d] /\ raw'[d] = raw[d]
  BY DEF Leaving, Give, useArchive, ResetLatch, SetLatch, Return, Goto, Hold, TypeOK
<1>2. pc'[c] = "index" => raw'[c] # None
  <2>1. CASE Give(c)
    BY <2>1, CallerParts, RolesAssumption DEF Give, Return, Goto, Hold, TypeOK
  <2>2. CASE ~Give(c)
    BY <2>2 DEF Leaving, useArchive, ResetLatch, SetLatch, Return, Goto, TypeOK
  <2> QED BY <2>1, <2>2
<1>3. CASE useArchive(c)
  <2>1. tryLoadIndex(raw[c]) => buildIndex(indexFile) /\ indexFile = raw[c]
    BY <1>3 DEF useArchive, tryLoadIndex, IndexOK
  <2>2. indexFile' \notin {None, Torn} => buildIndex(indexFile')
    BY <1>3 DEF useArchive, IndexOK
  <2>3. ASSUME NEW p \in Procs, index'[p] # None
        PROVE  index'[p].built = index'[p].archive /\ buildIndex(index'[p].archive)
    <3>1. CASE index'[p] = index[p] BY <2>3, <3>1 DEF IndexOK
    <3>2. CASE index'[p] # index[p]
      <4>1. index'[p] = [built |-> raw[c], archive |-> raw[c]] /\ buildIndex(raw[c])
        BY <1>3, <2>1, <3>2 DEF useArchive, TypeOK
      <4> QED BY <4>1
    <3> QED BY <3>1, <3>2
  <2> QED BY <1>1, <1>2, <2>2, <2>3 DEF IndexOK, buildIndex
<1>4. CASE ~useArchive(c)
  <2>1. UNCHANGED <<indexFile, index>>
    BY <1>4 DEF Leaving, Give, ResetLatch, SetLatch, files, memory
  <2> QED BY <1>1, <1>2, <2>1 DEF IndexOK, buildIndex
<1> QED BY <1>3, <1>4
-----------------------------------------------------------------------------
LEMMA InitEstablishes == Init => IInv
<1> SUFFICES ASSUME Init PROVE IInv
  OBVIOUS
<1>1. TypeOK
  <2>1. /\ now \in 0..MaxTime /\ pc \in [Callers -> Pcs] /\ epoch \in [Callers -> Nat]
        /\ raw \in [Callers -> Contents] /\ served \in [Callers -> Int \cup {None}]
    BY TTLAssumption DEF Init, Pcs, Contents
  <2>2. data \in [Caches -> Contents] /\ meta \in [Caches -> 0..MaxTime \cup {None, Torn}]
    <3>1. 0 \in 0..MaxTime BY TTLAssumption
    <3>2. CASE data = [k \in Caches |-> None] /\ meta = data
      BY <3>2 DEF Contents
    <3>3. CASE \E good \in Qualities :
                 /\ data = [k \in Caches |-> [at |-> 0, for |-> good]]
                 /\ meta = [k \in Caches |-> 0]
      BY <3>1, <3>3 DEF Contents, Payloads
    <3> QED BY <3>2, <3>3 DEF Init
  <2>3. /\ mem \in [Procs -> [Caches -> Contents]] /\ indexFile \in Contents
        /\ lock \in [Procs -> [Caches -> Callers \cup {None}]]
    BY DEF Init, Contents
  <2>4. /\ index \in [Procs -> [built : Contents, archive : Contents] \cup {None}]
        /\ handoff \in [Procs -> Payloads \cup {None}]
        /\ boot \in [Procs -> {"new", "running", "ready", "notReady"}]
        /\ latch \in [Procs -> [epoch : Nat, failed : BOOLEAN]]
    BY DEF Init
  <2> QED BY <2>1, <2>2, <2>3, <2>4 DEF Init, TypeOK
<1>2. LockOK /\ AdmittedOK /\ IndexOK
  BY DEF Init, LockOK, AdmittedOK, IndexOK, Locked, Quick, Downloaded, Accepted
<1> QED BY <1>1, <1>2 DEF IInv

LEMMA TickKeeps == ASSUME IInv, Tick PROVE IInv'
<1>1. TypeOK'
  BY TTLAssumption DEF IInv, Tick, TypeOK, files, memory
<1>2. LockOK' /\ AdmittedOK' /\ IndexOK'
  BY DEF IInv, Tick, LockOK, AdmittedOK, IndexOK, files, memory, buildIndex
<1> QED BY <1>1, <1>2 DEF IInv

(* A crash leaves the files and what other processes have.                 *)
LEMMA CrashKeeps == ASSUME IInv, NEW p \in Procs, Crash(p) PROVE IInv'
<1>1. TypeOK'
  <2>1. /\ mem' \in [Procs -> [Caches -> Contents]]
        /\ lock' \in [Procs -> [Caches -> Callers \cup {None}]]
    BY DEF IInv, Crash, TypeOK, Contents
  <2>2. /\ index' \in [Procs -> [built : Contents, archive : Contents] \cup {None}]
        /\ handoff' \in [Procs -> Payloads \cup {None}]
        /\ boot' \in [Procs -> {"new", "running", "ready", "notReady"}]
    BY DEF IInv, Crash, TypeOK
  <2>3. latch' \in [Procs -> [epoch : Nat, failed : BOOLEAN]]
    <3>1. [epoch |-> 0, failed |-> FALSE] \in [epoch : Nat, failed : BOOLEAN] OBVIOUS
    <3> QED BY <3>1 DEF IInv, Crash, TypeOK
  <2>4. pc' \in [Callers -> Pcs] /\ raw' \in [Callers -> Contents]
    BY DEF IInv, Crash, TypeOK, Pcs, Contents
  <2>5. epoch' \in [Callers -> Nat] /\ served' \in [Callers -> Int \cup {None}]
    BY DEF IInv, Crash, TypeOK
  <2> QED BY <2>1, <2>2, <2>3, <2>4, <2>5 DEF IInv, Crash, TypeOK, files
<1>2. \A c \in Callers : IF Proc(c) = p THEN pc'[c] = "idle"
                         ELSE pc'[c] = pc[c] /\ raw'[c] = raw[c] /\ lock'[Proc(c)] = lock[Proc(c)]
  BY CallerParts DEF IInv, Crash, TypeOK
<1>3. LockOK'
  BY <1>2 DEF IInv, LockOK, Locked, Quick
<1>4. \A q \in Procs : IF q = p THEN index'[q] = None /\ \A k \in Caches : mem'[q][k] = None
                       ELSE index'[q] = index[q] /\ mem'[q] = mem[q]
  BY DEF IInv, Crash, TypeOK
<1>5. UNCHANGED <<connector, indexFile>>
  BY DEF Crash, files
<1>6. AdmittedOK' /\ IndexOK'
  BY <1>2, <1>4, <1>5 DEF IInv, AdmittedOK, IndexOK, Downloaded, Accepted, buildIndex
<1> QED BY <1>1, <1>3, <1>6 DEF IInv

LEMMA StutterKeeps == ASSUME IInv, UNCHANGED vars PROVE IInv'
BY DEF IInv, vars, TypeOK, LockOK, AdmittedOK, IndexOK, buildIndex

(* IInv is inductive.                                                      *)
LEMMA NextKeeps == IInv /\ [Next]_vars => IInv'
<1> SUFFICES ASSUME IInv, [Next]_vars PROVE IInv'
  OBVIOUS
<1> USE DEF IInv
<1>1. ASSUME NEW c \in Callers, Coming(c) PROVE IInv'
  BY <1>1, ComingTyped, ComingLocks, ComingAdmits, OthersIndex
<1>2. ASSUME NEW c \in Callers, Reading(c) PROVE IInv'
  BY <1>2, ReadingTyped, ReadingLocks, ReadingAdmits, OthersIndex
<1>3. ASSUME NEW c \in Callers, Fetching(c) PROVE IInv'
  BY <1>3, FetchingTyped, FetchingLocks, FetchingAdmits, OthersIndex
<1>4. ASSUME NEW c \in Callers, Storing(c) PROVE IInv'
  BY <1>4, StoringTyped, StoringLocks, StoringAdmits, OthersIndex
<1>5. ASSUME NEW c \in Callers, Leaving(c) PROVE IInv'
  BY <1>5, LeavingTyped, LeavingLocks, LeavingAdmits, LeavingIndexes
<1>6. CASE UNCHANGED vars BY <1>6, StutterKeeps
<1>7. CASE Tick \/ \E p \in Procs : Crash(p) BY <1>7, TickKeeps, CrashKeeps
<1> HIDE DEF IInv
<1> QED
  BY <1>1, <1>2, <1>3, <1>4, <1>5, <1>6, <1>7 DEF Next, Coming, Reading, Fetching, Storing, Leaving

LEMMA Inductive == Spec => []IInv
BY InitEstablishes, NextKeeps, PTL DEF Spec

(* What judges or documents a request was admitted in full, whatever       *)
(* crashes, refused downloads and other processes leave in the files.      *)
THEOREM ServesAdmitted == Spec => []UsesAdmitted
<1>1. IInv => UsesAdmitted
  BY DEF IInv, AdmittedOK, IndexOK, UsesAdmitted, Admitted
<1> QED BY <1>1, Inductive, PTL

(* The index of ModelArchive is the one of the archive it came with, also  *)
(* when the file beside the archive is of another one.                     *)
THEOREM IndexMatches == Spec => []IndexOfItsArchive
<1>1. IInv => IndexOfItsArchive
  BY DEF IInv, IndexOK, IndexOfItsArchive
<1> QED BY <1>1, Inductive, PTL
-----------------------------------------------------------------------------
(* With one process at a time on the directory, a cache has one caller     *)
(* between its files.  CatalogsShared shows what two at once do.           *)
OneProcess == \A p, q \in Procs : p = q

LEMMA OneBetweenFiles ==
  ASSUME OneProcess, LockOK, NEW c \in Callers, NEW d \in Callers, pc[c] \in Locked, pc[d] \in Locked,
         cacheOf(c) = cacheOf(d)
  PROVE  c = d
BY OneInside, CallerParts DEF OneProcess

LEMMA SlackTyped == \A k : slack(k) \in Nat
BY TTLAssumption DEF slack

(* A step that leaves the files and the clock alone, and what the others   *)
(* do, keeps the ages if it keeps those of its caller.                     *)
LEMMA AgesKeep ==
  ASSUME TypeOK, AgesOK, NEW c \in Callers, UNCHANGED <<data, meta, now>>,
         \A d \in Callers : d # c => pc'[d] = pc[d] /\ raw'[d] = raw[d],
         pc'[c] \in {"age", "date"} => raw'[c] = data[cacheOf(c)],
         pc'[c] \in Downloaded => now <= raw'[c].at + slack(cacheOf(c))
  PROVE  AgesOK'
BY DEF AgesOK, slack, cacheOf, Role

LEMMA ComingAges == ASSUME TypeOK, FInv, NEW c \in Callers, Coming(c) PROVE FInv'
<1>1. PICK to \in Pcs \ Locked : pc' = [pc EXCEPT ![c] = to]
  BY DEF Coming, Start, ensureReady, LazyResolve, HintBegins, Goto, Pcs, Locked, Quick
<1>2. UNCHANGED <<data, meta, now, raw, served>>
  BY DEF Coming, Start, ensureReady, LazyResolve, HintBegins, files
<1>3. pc'[c] = to /\ \A d \in Callers : d # c => pc'[d] = pc[d]
  BY <1>1 DEF TypeOK
<1>4. AgesOK'
  BY <1>2, <1>3, AgesKeep DEF FInv, Downloaded, Locked, Quick
<1> QED BY <1>2, <1>4 DEF FInv, FreshIsFresh

(* What a fresh age says of a payload on disk.                             *)
LEMMA FreshOnDisk ==
  ASSUME TypeOK, AgesOK, NEW c \in Callers, pc[c] = "age", onDisk(c), fresh(c), raw[c] # Torn
  PROVE  now - raw[c].at <= (IF Role(c) = "gate" THEN TTL ELSE 2 * TTL)
<1> DEFINE k == cacheOf(c)
<1>1. k \in Caches /\ raw[c] \in Payloads /\ meta[k] \in 0..MaxTime
  BY CallerParts DEF onDisk, Parse
<1>2. raw[c] = data[k]
  BY DEF AgesOK
<1>3. meta[k] <= raw[c].at + slack(k)
  BY <1>1, <1>2 DEF AgesOK
<1>4. now - meta[k] <= TTL
  BY DEF fresh
<1>5. slack(k) = IF Role(c) = "gate" THEN 0 ELSE TTL
  BY DEF slack, cacheOf
<1>6. raw[c].at \in Nat /\ meta[k] \in Nat /\ now \in Nat
  BY <1>1, TTLAssumption DEF Payloads, TypeOK
<1> HIDE DEF k
<1> QED BY <1>3, <1>4, <1>5, <1>6, TTLAssumption

LEMMA ReadingAges == ASSUME TypeOK, FInv, NEW c \in Callers, Reading(c) PROVE FInv'
<1>1. UNCHANGED <<data, meta, now>>
  BY DEF Reading, Get, TryDisk, TryStale, readData, ReadAge, ReadStaleAge, files
<1>2. \A d \in Callers : d # c => pc'[d] = pc[d] /\ raw'[d] = raw[d]
  BY DEF Reading, Get, TryDisk, TryStale, readData, ReadAge, ReadStaleAge, Goto, Hold, TypeOK
<1>3. pc'[c] \notin Downloaded \cup {"date"}
  BY DEF Reading, Get, TryDisk, TryStale, readData, ReadAge, ReadStaleAge, Goto, Downloaded, TypeOK
<1>4. pc'[c] = "age" => raw'[c] = data[cacheOf(c)]
  BY DEF Reading, Get, TryDisk, TryStale, readData, ReadAge, ReadStaleAge, Goto, Hold, TypeOK
<1>5. AgesOK'
  BY <1>1, <1>2, <1>3, <1>4, AgesKeep DEF FInv
<1>6. FreshIsFresh'
  <2>1. CASE served' = served BY <2>1 DEF FInv, FreshIsFresh
  <2>2. CASE served' # served
    <3>1. /\ pc[c] = "age" /\ onDisk(c) /\ fresh(c)
          /\ served' = [served EXCEPT ![c] = IF raw[c] = Torn THEN None ELSE now - raw[c].at]
      BY <2>2 DEF Reading, Get, TryDisk, TryStale, readData, ReadAge, ReadStaleAge
    <3>2. served'[c] # None => served'[c] <= (IF Role(c) = "gate" THEN TTL ELSE 2 * TTL)
      BY <3>1, FreshOnDisk DEF FInv, TypeOK
    <3>3. \A d \in Callers : d # c => served'[d] = served[d]
      BY <3>1 DEF TypeOK
    <3> QED BY <3>2, <3>3 DEF FInv, FreshIsFresh, Role
  <2> QED BY <2>1, <2>2
<1> QED BY <1>5, <1>6 DEF FInv

LEMMA FetchingAges == ASSUME TypeOK, FInv, NEW c \in Callers, Fetching(c) PROVE FInv'
<1>1. UNCHANGED <<data, meta, now, served>>
  BY DEF Fetching, Take, Fetch, ParseFetched, files
<1>2. \A d \in Callers : d # c => pc'[d] = pc[d] /\ raw'[d] = raw[d]
  BY DEF Fetching, Take, Fetch, ParseFetched, Goto, Hold, TypeOK
<1>3. pc'[c] \notin {"age", "date"}
  BY DEF Fetching, Take, Fetch, ParseFetched, Goto, TypeOK
<1>4. pc'[c] \in Downloaded => now <= raw'[c].at + slack(cacheOf(c))
  <2>1. CASE Take(c)
    <3>1. cacheOf(c) = "docs" BY <2>1 DEF Take, cacheOf
    <3>2. slack(cacheOf(c)) = TTL BY <3>1 DEF slack
    <3>3. handoff[Proc(c)] \in Payloads BY <2>1, CallerParts DEF Take, TypeOK
    <3>4. handoff[Proc(c)].at \in Nat /\ now \in Nat BY <3>3, TTLAssumption DEF Payloads, TypeOK
    <3>5. pc'[c] \in Downloaded => handedOver(Proc(c)) /\ raw'[c] = handoff[Proc(c)]
      BY <2>1 DEF Take, Goto, Hold, TypeOK, Downloaded
    <3> QED BY <3>2, <3>4, <3>5, TTLAssumption DEF handedOver
  <2>2. CASE Fetch(c)
    <3>1. pc'[c] \in Downloaded => raw'[c].at = now
      BY <2>2 DEF Fetch, Goto, Hold, TypeOK, Downloaded
    <3> QED BY <3>1, SlackTyped, TTLAssumption DEF TypeOK
  <2>3. CASE ParseFetched(c)
    <3>1. pc'[c] \in Downloaded => raw'[c] = raw[c] /\ pc[c] \in Downloaded
      BY <2>3 DEF ParseFetched, Goto, Hold, TypeOK, Downloaded
    <3> QED BY <3>1 DEF FInv, AgesOK
  <2> QED BY <2>1, <2>2, <2>3 DEF Fetching
<1>5. AgesOK'
  BY <1>1, <1>2, <1>3, <1>4, AgesKeep DEF FInv
<1> QED BY <1>1, <1>5 DEF FInv, FreshIsFresh

LEMMA LeavingAges == ASSUME TypeOK, FInv, NEW c \in Callers, Leaving(c) PROVE FInv'
<1>1. UNCHANGED <<data, meta, now>>
  BY DEF Leaving, Give, useArchive, ResetLatch, SetLatch, files
<1>2. \A d \in Callers : d # c => pc'[d] = pc[d] /\ raw'[d] = raw[d] /\ served'[d] = served[d]
  BY DEF Leaving, Give, useArchive, ResetLatch, SetLatch, Return, Goto, Hold, TypeOK
<1>3. pc'[c] \notin Downloaded \cup {"age", "date"}
  BY DEF Leaving, Give, useArchive, ResetLatch, SetLatch, Return, Goto, Downloaded, TypeOK
<1>4. served'[c] \in {served[c], None}
  BY DEF Leaving, Give, useArchive, ResetLatch, SetLatch, Return, TypeOK
<1>5. AgesOK'
  BY <1>1, <1>2, <1>3, AgesKeep DEF FInv
<1> QED BY <1>2, <1>4, <1>5 DEF FInv, FreshIsFresh, Role

(* Between the two files of a cache: a payload replaced before its age is  *)
(* no older than the age it still has, because the clock stood still since *)
(* it was downloaded.                                                      *)
LEMMA StoringAges ==
  ASSUME OneProcess, TypeOK, LockOK, AdmittedOK, FInv, NEW c \in Callers, Storing(c)
  PROVE  FInv'
<1> DEFINE k == cacheOf(c)
<1>1. UNCHANGED <<now, raw, served>> /\ pc[c] \in Downloaded /\ k \in Caches
  BY CallerParts DEF Storing, WriteData, WroteData, WriteMeta, Keep, Downloaded
<1>2. \A d \in Callers : d # c => pc'[d] = pc[d]
  BY DEF Storing, WriteData, WroteData, WriteMeta, Keep, Goto, TypeOK
<1>3. now <= raw[c].at + slack(k) /\ raw[c] \in Payloads
  BY <1>1 DEF FInv, AgesOK, AdmittedOK
<1>4. raw[c].at \in Nat /\ now \in Nat /\ slack(k) \in Nat
  BY <1>3, TTLAssumption, SlackTyped DEF Payloads, TypeOK
<1>5. \A j \in Caches : j # k => data'[j] = data[j] /\ meta'[j] = meta[j]
  BY DEF Storing, WriteData, WroteData, WriteMeta, Keep, files, TypeOK
<1>6. meta'[k] \in {meta[k], Torn, now}
  BY <1>1 DEF Storing, WriteData, WroteData, WriteMeta, Keep, files, TypeOK
<1>7. meta'[k] \in 0..MaxTime => meta'[k] <= now
  BY <1>1, <1>4, <1>6, MarkersAssumption DEF FInv, AgesOK
<1>8. data'[k] \in Payloads /\ meta'[k] \in 0..MaxTime => meta'[k] <= data'[k].at + slack(k)
  <2>1. CASE data'[k] = raw[c]
    <3>1. meta'[k] \in 0..MaxTime => meta'[k] <= now /\ meta'[k] \in Nat BY <1>7, TTLAssumption
    <3> HIDE DEF k
    <3> QED BY <1>3, <1>4, <2>1, <3>1
  <2>2. CASE data'[k] = data[k] /\ meta'[k] = meta[k]
    BY <1>1, <2>2 DEF FInv, AgesOK
  <2>3. CASE data'[k] = Torn
    BY <2>3, MarkersAssumption
  <2> QED
    BY <1>1, <2>1, <2>2, <2>3
    DEF Storing, WriteData, WroteData, WriteMeta, Keep, files, TypeOK, FInv, AgesOK
<1>9. pc'[c] # "age" /\ (pc'[c] = "date" => raw[c] = data'[k])
  BY <1>1 DEF Storing, WriteData, WroteData, WriteMeta, Keep, Goto, TypeOK
<1>10. ASSUME NEW d \in Callers, d # c, pc[d] \in {"age", "date"}
       PROVE  raw[d] = data'[cacheOf(d)]
  <2>1. cacheOf(d) # k
    BY <1>1, <1>10, OneBetweenFiles DEF Locked, Quick, Downloaded
  <2>2. data'[cacheOf(d)] = data[cacheOf(d)]
    BY <1>5, <2>1, CallerParts
  <2> QED BY <1>10, <2>2 DEF FInv, AgesOK
<1>11. \A j \in Caches : meta'[j] \in 0..MaxTime => meta'[j] <= now'
  BY <1>1, <1>5, <1>7 DEF FInv, AgesOK
<1>12. \A j \in Caches : data'[j] \in Payloads /\ meta'[j] \in 0..MaxTime => meta'[j] <= data'[j].at + slack(j)
  BY <1>5, <1>8 DEF FInv, AgesOK
<1>13. AgesOK'
  <2>1. \A d \in Callers : pc'[d] \in {"age", "date"} => raw'[d] = data'[cacheOf(d)]
    BY <1>1, <1>2, <1>9, <1>10
  <2>2. \A d \in Callers : pc'[d] \in Downloaded => now' <= raw'[d].at + slack(cacheOf(d))
    BY <1>1, <1>2, <1>3 DEF FInv, AgesOK
  <2> QED BY <1>11, <1>12, <2>1, <2>2 DEF AgesOK, slack, cacheOf, Role
<1> QED BY <1>1, <1>13 DEF FInv, FreshIsFresh

LEMMA InitAges == Init => FInv
<1> SUFFICES ASSUME Init PROVE FInv
  OBVIOUS
<1>1. \A k \in Caches : /\ meta[k] \in 0..MaxTime => meta[k] = 0
                        /\ data[k] \in Payloads => data[k].at = 0
  <2>1. CASE data = [k \in Caches |-> None] /\ meta = data
    BY <2>1, MarkersAssumption
  <2>2. CASE \E good \in Qualities :
               /\ data = [k \in Caches |-> [at |-> 0, for |-> good]]
               /\ meta = [k \in Caches |-> 0]
    BY <2>2
  <2> QED BY <2>1, <2>2 DEF Init
<1>2. \A k \in Caches : /\ meta[k] \in 0..MaxTime => meta[k] <= now
                        /\ data[k] \in Payloads /\ meta[k] \in 0..MaxTime => meta[k] <= data[k].at + slack(k)
  BY <1>1, SlackTyped DEF Init
<1> QED BY <1>2 DEF Init, FInv, AgesOK, FreshIsFresh, Downloaded

(* The clock does not move while a caller is between two files.            *)
LEMMA TickAges == ASSUME TypeOK, FInv, Tick PROVE FInv'
<1>1. \A c \in Callers : pc'[c] \notin Downloaded \cup {"age", "date"}
  BY DEF Tick, Downloaded, Quick
<1>2. \A k \in Caches : meta[k] \in 0..MaxTime => meta[k] <= now + 1
  BY TTLAssumption DEF FInv, AgesOK, TypeOK
<1>3. UNCHANGED <<data, meta, served>> /\ now' = now + 1
  BY DEF Tick, files
<1> QED BY <1>1, <1>2, <1>3 DEF FInv, AgesOK, FreshIsFresh, slack

LEMMA CrashAges == ASSUME TypeOK, FInv, NEW p \in Procs, Crash(p) PROVE FInv'
<1>1. \A c \in Callers : IF Proc(c) = p THEN pc'[c] = "idle" /\ served'[c] = None
                         ELSE pc'[c] = pc[c] /\ raw'[c] = raw[c] /\ served'[c] = served[c]
  BY DEF Crash
<1>2. UNCHANGED <<data, meta, now>>
  BY DEF Crash, files
<1>3. AgesOK'
  BY <1>1, <1>2 DEF FInv, AgesOK, Downloaded, slack, cacheOf, Role
<1> QED BY <1>1, <1>3 DEF FInv, FreshIsFresh, Role

LEMMA NextAges == ASSUME OneProcess PROVE IInv /\ FInv /\ [Next]_vars => FInv'
<1> SUFFICES ASSUME IInv, FInv, [Next]_vars PROVE FInv'
  OBVIOUS
<1>1. TypeOK /\ LockOK /\ AdmittedOK BY DEF IInv
<1>2. ASSUME NEW c \in Callers, Coming(c) \/ Reading(c) \/ Fetching(c) \/ Storing(c) \/ Leaving(c)
      PROVE  FInv'
  BY <1>1, <1>2, ComingAges, ReadingAges, FetchingAges, StoringAges, LeavingAges
<1>3. CASE Tick \/ \E p \in Procs : Crash(p) BY <1>1, <1>3, TickAges, CrashAges
<1>4. CASE UNCHANGED vars
  BY <1>4 DEF vars, FInv, AgesOK, FreshIsFresh, slack
<1> QED BY <1>2, <1>3, <1>4 DEF Next, Coming, Reading, Fetching, Storing, Leaving

(* Where one process at a time uses a directory, a payload taken from disk *)
(* as fresh was downloaded within the TTL (twice the TTL behind a handoff),*)
(* wherever earlier processes crashed between the payload and its age.     *)
THEOREM FreshWithinTTL == ASSUME OneProcess PROVE Spec => []FreshIsFresh
<1>1. Spec => [](IInv /\ FInv)
  <2>1. Init => IInv /\ FInv BY InitEstablishes, InitAges
  <2>2. (IInv /\ FInv) /\ [Next]_vars => (IInv /\ FInv)' BY NextKeeps, NextAges
  <2> QED BY <2>1, <2>2, PTL DEF Spec
<1>2. FInv => FreshIsFresh BY DEF FInv
<1> QED BY <1>1, <1>2, PTL
=============================================================================
