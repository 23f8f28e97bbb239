------------------------------ MODULE Catalogs ------------------------------
(***************************************************************************)
(* The catalogs a connector judges and documents requests with, as they    *)
(* are kept on disk: cache.TTLCache and what is built on it.  A process    *)
(* may crash at any point, between two files or in the middle of one, and  *)
(* the next one starts on what is left.                                    *)
(*                                                                         *)
(* Three connectors stand for the ways the cache is used.  "github" (and   *)
(* gitlab) has the gate's table and the documentation, two caches over one *)
(* download that the first hands to the second.  "gcp" (and azure, and the *)
(* IAM data sets) has one cache behind a hardening bootstrap that runs     *)
(* once.  "aws" has the same bootstrap, and an archive whose cache keeps   *)
(* the bytes as they came, with an index of them in a file of its own.     *)
(*                                                                         *)
(* A payload is when it was downloaded and which caches admit it; a file   *)
(* half written is Torn.  A tick of the clock is long beside a write.      *)
(***************************************************************************)
EXTENDS Naturals, FiniteSets

CONSTANTS
  Procs,      \* processes that share the cache directory
  Roles,      \* what calls a cache inside a process: "gate", "reference", "hint"
  TTL,        \* how long a payload is fresh, in ticks
  MaxTime,    \* bound: ticks
  MaxCrashes, \* bound: crashes
  MaxLookups, \* bound: documentation lookups of a process that succeed
  Qualities,  \* which caches admit a download: the sets that occur
  None, Torn

ASSUME RolesAssumption == Roles \subseteq {"gate", "reference", "hint"}
ASSUME QualitiesAssumption == Qualities \subseteq SUBSET {"table", "docs"}
ASSUME TTLAssumption == TTL \in Nat /\ MaxTime \in Nat

Callers == Procs \X Roles
Proc(c) == c[1]
Role(c) == c[2]

Caches == {"table", "docs"}
Payloads == [at : 0..MaxTime, for : Qualities]
Contents == Payloads \cup {None, Torn}

ASSUME MarkersAssumption ==
  /\ None # Torn /\ None \notin Callers
  /\ \A m \in {None, Torn} : m \notin Payloads /\ m \notin 0..MaxTime

VARIABLES
  connector,  \* which connector this directory belongs to
  now,        \* the clock
  data, meta, \* the two files of each cache: a payload, and when it was fetched
  indexFile,  \* the archive's index: the payload it was built from
  mem,        \* TTLCache.data of each process and cache
  index,      \* ModelArchive.index of each process, with the archive it came with
  lock,       \* TTLCache.mu: the caller inside, or None
  handoff,    \* openAPIHandoff of each process
  latch,      \* hintLatch of each process
  boot,       \* lazyInit.once of each process
  pc, epoch, raw,  \* where each caller is, the epoch its hint began in, what it holds
  served,     \* history variable: the age of what a caller just took from disk as fresh
  crashes

vars == <<connector, now, data, meta, indexFile, mem, index, lock, handoff, latch, boot, pc,
          epoch, raw, served, crashes>>
files == <<data, meta, indexFile>>
memory == <<mem, index, handoff, latch, boot>>

Goto(c, to) == pc' = [pc EXCEPT ![c] = to]
Hold(c, p) == raw' = [raw EXCEPT ![c] = p]

(* The call returns; nothing of it is left. *)
Return(c) ==
  /\ Goto(c, "idle") /\ Hold(c, None)
  /\ epoch' = [epoch EXCEPT ![c] = 0] /\ served' = [served EXCEPT ![c] = None]

(* The cache a caller uses. *)
cacheOf(c) == IF Role(c) = "gate" THEN "table" ELSE "docs"

(* Parse: unmarshal, then admit.  The archive's is the identity. *)
Parse(k, p) ==
  \/ p \in Payloads /\ (k \in p.for \/ connector = "aws")
  \/ p = Torn /\ connector = "aws"

(* What only looks at the bytes finds out: they are a gzipped tar with models in it. *)
buildIndex(p) == p \in Payloads /\ p.for # {}
-----------------------------------------------------------------------------
(* A call comes in: the gate judges a request, a lookup or a denial's hint *)
(* wants documentation.  Its context may end at any time, which is chosen  *)
(* where it is looked at.                                                  *)
Start(c) ==
  /\ pc[c] = "idle"
  /\ Role(c) # "gate" => connector = "github" /\ latch[Proc(c)].epoch < MaxLookups
  /\ Goto(c, IF Role(c) = "gate" /\ connector # "github" THEN "boot"
             ELSE IF Role(c) = "hint" THEN "begin" ELSE "lock")
  /\ UNCHANGED <<connector, now, files, memory, lock, epoch, raw, served, crashes>>

(* ensureReady: the first caller resolves the connector, the others wait   *)
(* for it; either outcome is kept.                                         *)
ensureReady(c) ==
  /\ pc[c] = "boot"
  /\ \/ boot[Proc(c)] = "new" /\ boot' = [boot EXCEPT ![Proc(c)] = "running"] /\ Goto(c, "resolve")
     \/ boot[Proc(c)] = "ready" /\ Goto(c, "lock") /\ UNCHANGED boot
     \/ boot[Proc(c)] = "notReady" /\ Goto(c, "idle") /\ UNCHANGED boot
  /\ UNCHANGED <<connector, now, files, mem, index, lock, handoff, latch, epoch, raw, served, crashes>>

(* LazyResolve: identity, then the role or policy, then the permissions it *)
(* grants; a step may fail.  Its context is its own: that the request's    *)
(* ends makes no difference.                                               *)
LazyResolve(c) ==
  /\ pc[c] = "resolve"
  /\ \E outcome \in {"ready", "notReady"} :
       /\ boot' = [boot EXCEPT ![Proc(c)] = outcome]
       /\ Goto(c, IF outcome = "ready" THEN "lock" ELSE "idle")
  /\ UNCHANGED <<connector, now, files, mem, index, lock, handoff, latch, epoch, raw, served, crashes>>

(* forHint: nothing is loaded once the latch is set. *)
HintBegins(c) ==
  /\ pc[c] = "begin"
  /\ IF latch[Proc(c)].failed
       THEN Goto(c, "idle") /\ UNCHANGED epoch
       ELSE Goto(c, "lock") /\ epoch' = [epoch EXCEPT ![c] = latch[Proc(c)].epoch]
  /\ UNCHANGED <<connector, now, files, memory, lock, raw, served, crashes>>
-----------------------------------------------------------------------------
(* Get takes the lock of the cache; what is in memory is the answer.       *)
Get(c) ==
  /\ pc[c] = "lock" /\ lock[Proc(c)][cacheOf(c)] = None
  /\ lock' = [lock EXCEPT ![Proc(c)][cacheOf(c)] = c]
  /\ Hold(c, mem[Proc(c)][cacheOf(c)])
  /\ Goto(c, IF mem[Proc(c)][cacheOf(c)] # None THEN "give" ELSE "disk")
  /\ UNCHANGED <<connector, now, files, memory, epoch, served, crashes>>

(* tryLoadDisk reads the payload first ... *)
readData(c, next) ==
  /\ Hold(c, data[cacheOf(c)])
  /\ Goto(c, next)
  /\ UNCHANGED <<connector, now, files, memory, lock, epoch, served, crashes>>

TryDisk(c) == pc[c] = "disk" /\ readData(c, "age")
TryStale(c) == pc[c] = "stale" /\ readData(c, "ageless")

(* ... then its age.  A payload that does not parse, or has no age, is not *)
(* there.                                                                  *)
onDisk(c) == Parse(cacheOf(c), raw[c]) /\ meta[cacheOf(c)] \in 0..MaxTime

fresh(c) == now - meta[cacheOf(c)] <= TTL

(* Fresh on disk, it is kept in memory; stale it serves only once the      *)
(* download has failed.                                                    *)
ReadAge(c) ==
  /\ pc[c] = "age"
  /\ IF onDisk(c) /\ fresh(c)
       THEN /\ mem' = [mem EXCEPT ![Proc(c)][cacheOf(c)] = raw[c]]
            /\ served' = [served EXCEPT ![c] = IF raw[c] = Torn THEN None ELSE now - raw[c].at]
            /\ Goto(c, "give") /\ UNCHANGED raw
       ELSE Goto(c, "fetch") /\ Hold(c, None) /\ UNCHANGED <<mem, served>>
  /\ UNCHANGED <<connector, now, files, index, handoff, latch, boot, lock, epoch, crashes>>

ReadStaleAge(c) ==
  /\ pc[c] = "ageless"
  /\ IF onDisk(c)
       THEN mem' = [mem EXCEPT ![Proc(c)][cacheOf(c)] = raw[c]] /\ UNCHANGED raw
       ELSE Hold(c, None) /\ UNCHANGED mem
  /\ Goto(c, "give")
  /\ UNCHANGED <<connector, now, files, index, handoff, latch, boot, lock, epoch, served, crashes>>

(* What the table's download left for the documentation, unless too old. *)
handedOver(p) == now - handoff[p].at <= TTL

(* The documentation's fetch takes what was handed over, once.             *)
Take(c) ==
  /\ pc[c] = "fetch" /\ Role(c) # "gate" /\ handoff[Proc(c)] # None
  /\ handoff' = [handoff EXCEPT ![Proc(c)] = None]
  /\ IF handedOver(Proc(c)) THEN Hold(c, handoff[Proc(c)]) /\ Goto(c, "parse")
     ELSE UNCHANGED <<raw, pc>>
  /\ UNCHANGED <<connector, now, files, mem, index, latch, boot, lock, epoch, served, crashes>>

(* A download: it fails, with the context or otherwise, or brings what the *)
(* server has.  The table's is recorded for the documentation.             *)
Fetch(c) ==
  /\ pc[c] = "fetch" /\ (Role(c) = "gate" \/ handoff[Proc(c)] = None)
  /\ \/ Goto(c, "stale") /\ UNCHANGED <<raw, handoff>>
     \/ \E good \in Qualities :
          LET p == [at |-> now, for |-> good] IN
            /\ Hold(c, p) /\ Goto(c, "parse")
            /\ handoff' = IF Role(c) = "gate" /\ "reference" \in Roles /\ connector = "github"
                          THEN [handoff EXCEPT ![Proc(c)] = p] ELSE handoff
  /\ UNCHANGED <<connector, now, files, mem, index, latch, boot, lock, epoch, served, crashes>>

(* Mutant: what was fetched is kept as it came. *)
admitted_Late(c) == TRUE

admitted(c) == Parse(cacheOf(c), raw[c])

(* What cannot be distilled counts as a failed download; what is distilled *)
(* and not admitted is neither kept nor stored.                            *)
ParseFetched(c) ==
  /\ pc[c] = "parse"
  /\ \/ admitted(c) /\ Goto(c, "write") /\ UNCHANGED raw
     \/ ~admitted(c) /\ Goto(c, "stale") /\ UNCHANGED raw
     \/ ~admitted(c) /\ Goto(c, "give") /\ Hold(c, None)
  /\ UNCHANGED <<connector, now, files, memory, lock, epoch, served, crashes>>
-----------------------------------------------------------------------------
(* Mutant: the age is written before the payload. *)
WriteData_AgeFirst(c) ==
  /\ pc[c] = "write"
  /\ meta' = [meta EXCEPT ![cacheOf(c)] = now]
  /\ data' \in {data, [data EXCEPT ![cacheOf(c)] = Torn]}
  /\ Goto(c, "writing")
  /\ UNCHANGED <<connector, now, indexFile, memory, lock, epoch, raw, served, crashes>>

(* persistDisk: the payload file is truncated and written ... *)
WriteData(c) ==
  /\ pc[c] = "write"
  /\ \/ data' = [data EXCEPT ![cacheOf(c)] = Torn] /\ Goto(c, "writing")
     \/ Goto(c, "keep") /\ UNCHANGED data            \* the directory, or the file, cannot be made
  /\ UNCHANGED <<connector, now, meta, indexFile, memory, lock, epoch, raw, served, crashes>>

(* ... and when it is whole, or the disk is full ... *)
WroteData(c) ==
  /\ pc[c] = "writing"
  /\ \/ data' = [data EXCEPT ![cacheOf(c)] = raw[c]] /\ Goto(c, "date")
     \/ Goto(c, "keep") /\ UNCHANGED data
  /\ UNCHANGED <<connector, now, meta, indexFile, memory, lock, epoch, raw, served, crashes>>

(* ... the file with its age is. *)
WriteMeta(c) ==
  /\ pc[c] = "date"
  /\ meta' \in {[meta EXCEPT ![cacheOf(c)] = Torn], [meta EXCEPT ![cacheOf(c)] = now]}
  /\ Goto(c, "keep")
  /\ UNCHANGED <<connector, now, data, indexFile, memory, lock, epoch, raw, served, crashes>>

(* Whatever became of the files, the payload is in memory. *)
Keep(c) ==
  /\ pc[c] = "keep"
  /\ mem' = [mem EXCEPT ![Proc(c)][cacheOf(c)] = raw[c]]
  /\ Goto(c, "give")
  /\ UNCHANGED <<connector, now, files, index, handoff, latch, boot, lock, epoch, raw, served, crashes>>
-----------------------------------------------------------------------------
(* What a caller does with what it was given, the lock being free again:   *)
(* the archive wants its index, a lookup opens the latch for hints, a hint *)
(* that got nothing although its context is live sets it.                  *)
Give(c) ==
  /\ pc[c] = "give"
  /\ lock' = [lock EXCEPT ![Proc(c)][cacheOf(c)] = None]
  /\ IF Role(c) # "gate" \/ (connector = "aws" /\ raw[c] # None /\ index[Proc(c)] = None)
       THEN /\ Goto(c, CASE Role(c) = "reference" -> "reset" [] Role(c) = "hint" -> "latch"
                         [] OTHER -> "index")
            /\ UNCHANGED <<raw, epoch, served>>
       ELSE Return(c)
  /\ UNCHANGED <<connector, now, files, memory, crashes>>

(* Mutant: an index on disk is used whatever archive it was built from. *)
tryLoadIndex_Any(p) == indexFile \notin {None, Torn}

(* An index on disk serves the archive it was built from. *)
tryLoadIndex(p) == indexFile = p /\ p # Torn

(* useArchive: the index on disk if it is of this archive, else a new one, *)
(* which an archive that cannot be read does not give.                     *)
useArchive(c) ==
  /\ pc[c] = "index"
  /\ \/ /\ tryLoadIndex(raw[c])
        /\ index' = [index EXCEPT ![Proc(c)] = [built |-> indexFile, archive |-> raw[c]]]
        /\ UNCHANGED indexFile
     \/ /\ ~tryLoadIndex(raw[c]) /\ buildIndex(raw[c])
        /\ indexFile' \in {indexFile, Torn, raw[c]}
        /\ index' = [index EXCEPT ![Proc(c)] = [built |-> raw[c], archive |-> raw[c]]]
     \/ ~tryLoadIndex(raw[c]) /\ ~buildIndex(raw[c]) /\ UNCHANGED <<index, indexFile>>
  /\ Return(c)
  /\ UNCHANGED <<connector, now, data, meta, mem, handoff, latch, boot, lock, crashes>>

(* A lookup that got documentation opens the latch and ends every epoch.   *)
ResetLatch(c) ==
  /\ pc[c] = "reset"
  /\ IF raw[c] # None
       THEN latch' = [latch EXCEPT ![Proc(c)] = [epoch |-> @.epoch + 1, failed |-> FALSE]]
       ELSE UNCHANGED latch
  /\ Return(c)
  /\ UNCHANGED <<connector, now, files, mem, index, handoff, boot, lock, crashes>>

(* No lookup has succeeded since the hint began. *)
failedSince(c) == latch[Proc(c)].epoch = epoch[c]

SetLatch(c) ==
  /\ pc[c] = "latch"
  /\ \E live \in BOOLEAN :
       latch' = IF raw[c] = None /\ live /\ failedSince(c)
                THEN [latch EXCEPT ![Proc(c)].failed = TRUE] ELSE latch
  /\ Return(c)
  /\ UNCHANGED <<connector, now, files, mem, index, handoff, boot, lock, crashes>>
-----------------------------------------------------------------------------
(* A tick is hours; reading, parsing and writing files is not. *)
Quick == {"disk", "age", "stale", "ageless", "parse", "write", "writing", "date", "keep"}

Tick ==
  /\ now < MaxTime /\ \A c \in Callers : pc[c] \notin Quick
  /\ now' = now + 1
  /\ UNCHANGED <<connector, files, memory, lock, pc, epoch, raw, served, crashes>>

(* A process ends, and another begins on the files it left. *)
Crash(p) ==
  /\ crashes < MaxCrashes
  /\ crashes' = crashes + 1
  /\ mem' = [mem EXCEPT ![p] = [k \in Caches |-> None]]
  /\ index' = [index EXCEPT ![p] = None]
  /\ lock' = [lock EXCEPT ![p] = [k \in Caches |-> None]]
  /\ handoff' = [handoff EXCEPT ![p] = None]
  /\ latch' = [latch EXCEPT ![p] = [epoch |-> 0, failed |-> FALSE]]
  /\ boot' = [boot EXCEPT ![p] = "new"]
  /\ pc' = [c \in Callers |-> IF Proc(c) = p THEN "idle" ELSE pc[c]]
  /\ raw' = [c \in Callers |-> IF Proc(c) = p THEN None ELSE raw[c]]
  /\ served' = [c \in Callers |-> IF Proc(c) = p THEN None ELSE served[c]]
  /\ epoch' = [c \in Callers |-> IF Proc(c) = p THEN 0 ELSE epoch[c]]
  /\ UNCHANGED <<connector, now, files>>

Init ==
  /\ connector \in {"github", "gcp", "aws"}
  /\ now = 0
  /\ \/ data = [k \in Caches |-> None] /\ meta = data             \* an empty directory
     \/ \E good \in Qualities :                                  \* what an earlier run left
          /\ good = Caches
          /\ data = [k \in Caches |-> [at |-> 0, for |-> good]]
          /\ meta = [k \in Caches |-> 0]
  /\ indexFile = None
  /\ mem = [p \in Procs |-> [k \in Caches |-> None]]
  /\ index = [p \in Procs |-> None]
  /\ lock = [p \in Procs |-> [k \in Caches |-> None]]
  /\ handoff = [p \in Procs |-> None]
  /\ latch = [p \in Procs |-> [epoch |-> 0, failed |-> FALSE]]
  /\ boot = [p \in Procs |-> "new"]
  /\ pc = [c \in Callers |-> "idle"]
  /\ epoch = [c \in Callers |-> 0]
  /\ raw = [c \in Callers |-> None]
  /\ served = [c \in Callers |-> None]
  /\ crashes = 0

Next ==
  \/ Tick
  \/ \E p \in Procs : Crash(p)
  \/ \E c \in Callers :
       \/ Start(c) \/ ensureReady(c) \/ LazyResolve(c) \/ HintBegins(c)
       \/ Get(c) \/ TryDisk(c) \/ TryStale(c) \/ ReadAge(c) \/ ReadStaleAge(c)
       \/ Take(c) \/ Fetch(c) \/ ParseFetched(c)
       \/ WriteData(c) \/ WroteData(c) \/ WriteMeta(c) \/ Keep(c)
       \/ Give(c) \/ useArchive(c) \/ ResetLatch(c) \/ SetLatch(c)

Spec == Init /\ [][Next]_vars
-----------------------------------------------------------------------------
(* What judges a request, or documents one, was admitted in full: neither  *)
(* a crash in the middle of a file nor a refused download puts anything    *)
(* else in the place of a table, a document or an index.                   *)
UsesAdmitted ==
  \A p \in Procs :
    /\ connector # "aws" => \A k \in Caches : mem[p][k] # None => mem[p][k] \in Payloads /\ k \in mem[p][k].for
    /\ index[p] # None => buildIndex(index[p].archive)

(* An index that answers where a model lies in the archive was built from  *)
(* the archive in memory, whatever crash left an index beside another      *)
(* archive.                                                                *)
IndexOfItsArchive ==
  \A p \in Procs : index[p] # None => index[p].built = index[p].archive

(* A payload taken from disk as fresh was downloaded within the TTL, within*)
(* twice the TTL where one cache hands its download to another; only a     *)
(* failed download lets an older one serve.                                *)
FreshIsFresh ==
  \A c \in Callers :
    served[c] # None => served[c] <= (IF Role(c) = "gate" THEN TTL ELSE 2 * TTL)
=============================================================================
