---------------------------- MODULE SpecLookups ----------------------------
(***************************************************************************)
(* api_reference lookups for azure: Docs.Reference searching the specs     *)
(* through one SpecStore that every lookup of the process shares.  A       *)
(* lookup reads the files of a version dir in parallel, one reader per     *)
(* file; readers of the same blob share one download, owned by the lookup  *)
(* that started it.  Files are kept on disk by blob id, the least recently *)
(* used removed first.                                                     *)
(*                                                                         *)
(* A body and a summary take one unit each, of the disk and of the budget. *)
(* An operation id is "exact", the one asked for, or one of Variants, which*)
(* differ from it only by case.  Two files with the same Request document  *)
(* the same request.                                                       *)
(***************************************************************************)
EXTENDS SpecsIndex, Integers

CONSTANTS
  Lookups,       \* lookups of the process
  MaxFiles,      \* most files of a dir, or candidates of a search
  Repos,         \* repositories: the pack, the tree, the ids each blob defines; and of the
                 \* disk, the files left on it and the most that a scan fails to list or remove
  Variants,      \* ids that differ from the one asked for by case only
  Namespace,     \* the service the lookups name
  Budget,        \* lookupBudget: bodies a lookup may parse
  MaxDownloads,  \* maxLookupDownloads
  MaxCache,      \* maxFileCacheBytes
  Rescan,        \* rescanEvery
  None

ASSUME LookupsAssumption == IsFiniteSet(Lookups) /\ MaxFiles \in Nat /\ MaxCache \in Nat
ASSUME NoneAssumption == None \notin {"ok", "canceled", "failed", "budget"}
ASSUME ReposAssumption == \A r \in Repos : r.left \in Seq(Range(r.left)) /\ IsFiniteSet(r.tree)
ASSUME VersionsAssumption == Versions \in Seq(Range(Versions))

Readers == Lookups \X (1..MaxFiles)

VARIABLES
  repo,        \* the repository, which does not change
  models,      \* the version dir each lookup names, or None
  index,       \* the index in memory, or None
  loading,     \* the lookup whose index load is under way, or None
  dir,         \* the files dir, least recently used first: [blob, what, good]
  cacheSize,   \* SpecStore.cacheSize and writes
  writes,
  lastScan,    \* history variable: files the last scan could not remove, or not list
  flights,     \* the reader that downloads each blob, or None
  ended,       \* lookups whose context has ended
  at,          \* where each lookup is
  mode, step,  \* matchMode, and the pass
  todo,        \* dirs still to scan in this pass
  files,       \* files being read
  found,       \* matches
  remaining,   \* Budget.remaining
  rpc, got,    \* where each reader is, and what it came back with
  out          \* answers

storeVars == <<repo, models, index, loading, dir, cacheSize, lastScan, writes, flights>>
searchVars == <<ended, at, mode, step, todo, files, found, remaining, out>>
specVars == <<storeVars, searchVars, rpc, got>>

blobs == {e.blob : e \in repo.tree}
ids(f) == repo.defines[f.blob]
-----------------------------------------------------------------------------
(* The files dir, where a name is of one file. *)
good(blob, what) == \E i \in DOMAIN dir : dir[i] = [blob |-> blob, what |-> what, good |-> TRUE]
places(blob, what) == {i \in DOMAIN dir : dir[i].blob = blob /\ dir[i].what = what}
without(blob, what) ==
  IF places(blob, what) = {} THEN dir ELSE RemoveAt(dir, CHOOSE i \in places(blob, what) : TRUE)

(* writeAtomic and touch both leave a whole file, used last. *)
placed(blob, what) == Append(without(blob, what), [blob |-> blob, what |-> what, good |-> TRUE])

(* A body is used only while it still has its blob id. *)
readCached(blob) == good(blob, "body")

(* The files left, in their order. *)
only(left) ==
  [i \in 1..Cardinality(left) |-> dir[CHOOSE j \in left : Cardinality({h \in left : h <= j}) = i]]

(* evict: the files it can list are counted, and the oldest removed until  *)
(* the rest fits.  A file it fails to remove still counts, so that the     *)
(* loop goes on to the next one, to the end if need be.                    *)
Evict ==
  \E unseen \in SUBSET DOMAIN dir : \E last \in 0..Len(dir) :
    LET listed == DOMAIN dir \ unseen
        tried == {i \in listed : i <= last}
    IN \E stuck \in SUBSET tried :
         LET removed == tried \ stuck
             counted == listed \ removed
         IN /\ Cardinality(unseen \cup stuck) <= repo.trouble
            /\ \A i \in tried : Cardinality(listed \ {j \in removed : j < i}) > MaxCache
            /\ tried = listed \/ Cardinality(counted) <= MaxCache
            /\ cacheSize' = Cardinality(counted)
            /\ dir' = only(DOMAIN dir \ removed)
            /\ lastScan' = [stuck |-> Cardinality(stuck), unseen |-> Cardinality(unseen)]

(* Mutant: what is written between two scans is not counted. *)
Noted_Uncounted(n) ==
  /\ writes' = (writes + 1) % Rescan
  /\ IF cacheSize >= 0 /\ writes' # 0
       THEN UNCHANGED <<cacheSize, lastScan, dir>>
       ELSE Evict

(* noteWrite: count the write, or scan: at the first write, every so many  *)
(* writes, and when the count passes the cap.                              *)
Noted(n) ==
  /\ writes' = (writes + 1) % Rescan
  /\ IF cacheSize >= 0 /\ writes' # 0 /\ cacheSize + n <= MaxCache
       THEN cacheSize' = cacheSize + n /\ UNCHANGED <<lastScan, dir>>
       ELSE Evict
-----------------------------------------------------------------------------
(* The context of a lookup ends: an interrupt, or its 120 s.               *)
End(l) ==
  /\ l \notin ended /\ at[l] \notin {"new", "done"}
  /\ ended' = ended \cup {l}
  /\ UNCHANGED <<storeVars, at, mode, step, todo, files, found, remaining, out, rpc, got>>

Finish(l, o) ==
  /\ at' = [at EXCEPT ![l] = "done"]
  /\ out' = [out EXCEPT ![l] = IF l \in ended THEN [kind |-> "stopped"] ELSE o]

(* Index: from memory, or from the one load under way, or from a new one,  *)
(* which a lookup that has ended does not start.                           *)
Index(l) ==
  /\ at[l] \in {"new", "index"}
  /\ \/ index # None /\ at' = [at EXCEPT ![l] = "plan"] /\ UNCHANGED <<loading, out>>
     \/ index = None /\ loading # None /\ at' = [at EXCEPT ![l] = "loading"] /\ UNCHANGED <<loading, out>>
     \/ /\ index = None /\ loading = None /\ l \notin ended
        /\ loading' = l /\ at' = [at EXCEPT ![l] = "loading"] /\ UNCHANGED out
     \/ index = None /\ loading = None /\ l \in ended /\ Finish(l, None) /\ UNCHANGED loading
  /\ UNCHANGED <<repo, models, index, dir, cacheSize, lastScan, writes, flights, ended, mode, step, todo,
                 files, found, remaining, rpc, got>>

(* The load runs under nobody's deadline but its own: the listing is read  *)
(* and its index admitted, or those who wait learn that there is none.     *)
Loaded ==
  /\ loading # None
  /\ loading' = None
  /\ \/ /\ listable(repo)
        /\ LET ix == BuildIndex(repo.sha, walkTrees(repo.tree)) IN
             /\ (\A e \in walkTrees(repo.tree) : validSHA(e.blob)) /\ admitIndex(ix)
             /\ index' = ix
        /\ at' = [l \in Lookups |-> IF at[l] = "loading" THEN "plan" ELSE at[l]]
        /\ UNCHANGED out
     \/ /\ UNCHANGED index
        /\ at' = [l \in Lookups |-> IF at[l] = "loading" THEN "done" ELSE at[l]]
        /\ out' = [l \in Lookups |-> IF at[l] # "loading" THEN out[l]
                                     ELSE IF l \in ended THEN [kind |-> "stopped"] ELSE [kind |-> "noIndex"]]
  /\ UNCHANGED <<repo, models, dir, cacheSize, lastScan, writes, flights, ended, mode, step, todo, files,
                 found, remaining, rpc, got>>

(* A lookup that has ended does not wait for the load. *)
LeaveLoad(l) ==
  /\ at[l] = "loading" /\ l \in ended
  /\ Finish(l, None)
  /\ UNCHANGED <<storeVars, ended, mode, step, todo, files, found, remaining, rpc, got>>
-----------------------------------------------------------------------------
dirs == dirsOf(index, Namespace)

(* The passes: each group's newest stable dir, its older ones, its preview *)
(* dirs.                                                                   *)
passDirs(s) ==
  LET stable == {d \in dirs : d.kind = "stable"}
      newest == {d \in stable : \A o \in stable : o.group = d.group => ~newerDir(o, d)}
  IN CASE s = 1 -> newest
       [] s = 2 -> stable \ newest
       [] s = 3 -> {d \in dirs : d.kind = "preview"}

modelDirs(v) == {d \in dirs : d.dir = v}

dirsFor(l, s) == IF models[l] = None THEN passDirs(s) ELSE modelDirs(models[l])
lastStep(l) == IF models[l] = None THEN 3 ELSE 1

(* The namespace is looked up and the first pass planned; a model that     *)
(* names no dir is the answer.                                             *)
Plan(l) ==
  /\ at[l] = "plan"
  /\ IF \/ l \in ended \/ dirs = {}
        \/ models[l] # None /\ modelDirs(models[l]) = {}
     THEN Finish(l, [kind |-> "notFound"]) /\ UNCHANGED <<mode, step, todo>>
     ELSE /\ at' = [at EXCEPT ![l] = "scan"]
          /\ mode' = [mode EXCEPT ![l] = "exact"] /\ step' = [step EXCEPT ![l] = 1]
          /\ todo' = [todo EXCEPT ![l] = dirsFor(l, 1)]
          /\ UNCHANGED out
  /\ UNCHANGED <<storeVars, ended, files, found, remaining, rpc, got>>

(* What EqualFold takes for the id asked for. *)
Spelled == {"exact"} \cup Variants

(* Mutant: the newest dir with either spelling is taken. *)
matches_Folded(l, f) == ids(f) \cap Spelled

(* matches: the id as asked, then, only when no dir has it, by case. *)
matches(l, f) == ids(f) \cap (IF mode[l] = "exact" THEN {"exact"} ELSE Spelled)

startReaders(l, fs, first) ==
  /\ files' = [files EXCEPT ![l] = fs]
  /\ rpc' = [r \in Readers |-> IF r[1] = l /\ r[2] \in DOMAIN fs THEN first ELSE rpc[r]]
  /\ got' = [r \in Readers |-> IF r[1] = l THEN None ELSE got[r]]

(* walk: group after group, and in a group the newest dir that is left. *)
groupOf(ds) == CHOOSE g \in {d.group : d \in ds} : TRUE
nextDir(ds) ==
  CHOOSE d \in ds : d.group = groupOf(ds) /\ \A o \in ds : o.group = d.group => ~newerDir(o, d)

(* scanDir: the context, then the files of the next dir. *)
ScanDir(l) ==
  /\ at[l] = "scan" /\ todo[l] # {}
  /\ IF l \in ended THEN Finish(l, None) /\ UNCHANGED <<files, rpc, got>>
     ELSE /\ at' = [at EXCEPT ![l] = "reading"]
          /\ startReaders(l, filesOf(index, Namespace, nextDir(todo[l])), "waiting")
          /\ UNCHANGED out
  /\ UNCHANGED <<storeVars, ended, mode, step, todo, found, remaining>>

(* The pass is over: its matches conclude the search, or the next pass, or *)
(* the next way of matching, goes on.                                      *)
NextPass(l) ==
  /\ at[l] = "scan" /\ todo[l] = {}
  /\ IF found[l] # {} THEN at' = [at EXCEPT ![l] = "conclude"] /\ UNCHANGED <<mode, step, todo, out>>
     ELSE IF step[l] < lastStep(l)
       THEN /\ step' = [step EXCEPT ![l] = @ + 1] /\ todo' = [todo EXCEPT ![l] = dirsFor(l, step[l] + 1)]
            /\ UNCHANGED <<at, mode, out>>
     ELSE IF mode[l] = "exact"
       THEN /\ mode' = [mode EXCEPT ![l] = "folded"]
            /\ step' = [step EXCEPT ![l] = 1] /\ todo' = [todo EXCEPT ![l] = dirsFor(l, 1)]
            /\ UNCHANGED <<at, out>>
     ELSE Finish(l, [kind |-> "notFound"]) /\ UNCHANGED <<mode, step, todo>>
  /\ UNCHANGED <<storeVars, ended, files, found, remaining, rpc, got>>
-----------------------------------------------------------------------------
fileOf(r) == files[r[1]][r[2]]
live(r) == r[1] \notin ended
RGoto(r, to) == rpc' = [rpc EXCEPT ![r] = to]
(* A reader comes back. *)
Back(r, result) == RGoto(r, "back") /\ got' = [got EXCEPT ![r] = result]
busy(l) == {i \in 1..MaxFiles : rpc[<<l, i>>] \notin {"idle", "waiting", "back"}}
failed(l) == \E i \in 1..MaxFiles : rpc[<<l, i>>] = "back" /\ got[<<l, i>>] # "ok"
limit(l) == IF at[l] = "rendering" THEN 1 ELSE MaxDownloads

(* summaries schedules the files in order, some at a time, none after a    *)
(* failure; renderAll reads one file after another.                        *)
Schedule(r) ==
  /\ rpc[r] = "waiting" /\ \A i \in 1..(r[2] - 1) : rpc[<<r[1], i>>] # "waiting"
  /\ ~failed(r[1]) /\ Cardinality(busy(r[1])) < limit(r[1])
  /\ RGoto(r, IF at[r[1]] = "rendering" THEN "file" ELSE "summary")
  /\ UNCHANGED <<storeVars, searchVars, got>>

(* Summary: a cached one that still has its check costs nothing. *)
Summary(r) ==
  /\ rpc[r] = "summary"
  /\ \/ ~live(r) /\ Back(r, "canceled") /\ UNCHANGED dir
     \/ live(r) /\ good(fileOf(r).blob, "summary") /\ Back(r, "ok") /\ dir' = placed(fileOf(r).blob, "summary")
     \/ live(r) /\ ~good(fileOf(r).blob, "summary") /\ RGoto(r, "file") /\ UNCHANGED <<dir, got>>
  /\ UNCHANGED <<repo, models, index, loading, cacheSize, lastScan, writes, flights, searchVars>>

(* readCached removes a body that lost its blob id, if it can. *)
FromDisk(r) ==
  IF readCached(fileOf(r).blob) THEN dir' = placed(fileOf(r).blob, "body")
  ELSE dir' \in {dir, without(fileOf(r).blob, "body")}

File(r) ==
  /\ rpc[r] = "file"
  /\ \/ ~live(r) /\ Back(r, "canceled") /\ UNCHANGED dir
     \/ live(r) /\ FromDisk(r) /\ UNCHANGED got
        /\ RGoto(r, IF readCached(fileOf(r).blob) THEN "charge" ELSE "download")
  /\ UNCHANGED <<repo, models, index, loading, cacheSize, lastScan, writes, flights, searchVars>>

(* download: the first reader of a blob leads, the others join it. *)
Download(r) ==
  /\ rpc[r] = "download"
  /\ IF flights[fileOf(r).blob] = None
       THEN flights' = [flights EXCEPT ![fileOf(r).blob] = r] /\ RGoto(r, "recheck")
       ELSE RGoto(r, "joined") /\ UNCHANGED flights
  /\ UNCHANGED <<repo, models, index, loading, dir, cacheSize, lastScan, writes, searchVars, got>>

(* Mutant: joiners share every outcome. *)
abandoned_Never(r, result) == FALSE

(* The one outcome a live joiner does not share. *)
abandoned(r, result) == result # "ok" /\ ~live(r)

(* The flight is over: the next reader of the blob starts another, those   *)
(* who joined get what came of this one.                                   *)
Land(r, result, next) ==
  LET joiners == {j \in Readers : rpc[j] = "joined" /\ fileOf(j).blob = fileOf(r).blob} IN
    /\ flights' = [flights EXCEPT ![fileOf(r).blob] = None]
    /\ rpc' = [j \in Readers |->
                 IF j = r THEN (IF result = "ok" THEN next ELSE "back")
                 ELSE IF j \in joiners THEN (IF abandoned(r, result) THEN "again" ELSE "landed") ELSE rpc[j]]
    /\ got' = [j \in Readers |->
                 IF j = r /\ result # "ok" THEN result ELSE IF j \in joiners THEN result ELSE got[j]]

(* The leader looks at the disk again: another flight may have landed      *)
(* since it missed.                                                        *)
Recheck(r) ==
  /\ rpc[r] = "recheck" /\ FromDisk(r)
  /\ IF readCached(fileOf(r).blob) THEN Land(r, "ok", "charge")
     ELSE RGoto(r, "fetching") /\ UNCHANGED <<flights, got>>
  /\ UNCHANGED <<repo, models, index, loading, cacheSize, lastScan, writes, searchVars>>

(* fetchVerified: an ended context fails it, and so do the server and a    *)
(* body without its blob id; what is verified is written, which may fail.  *)
Fetched(r) ==
  /\ rpc[r] = "fetching"
  /\ \/ Land(r, IF live(r) THEN "failed" ELSE "canceled", "") /\ UNCHANGED dir
     \/ Land(r, "ok", "charge") /\ UNCHANGED dir
     \/ dir' = placed(fileOf(r).blob, "body") /\ RGoto(r, "fetched") /\ UNCHANGED <<flights, got>>
  /\ UNCHANGED <<repo, models, index, loading, cacheSize, lastScan, writes, searchVars>>

NoteBody(r) ==
  /\ rpc[r] = "fetched"
  /\ Noted(1) /\ Land(r, "ok", "charge")
  /\ UNCHANGED <<repo, models, index, loading, searchVars>>

(* A joiner's own context may end its wait; if the leader's ended the      *)
(* download instead, a live joiner tries again.                            *)
Joined(r) ==
  /\ \/ rpc[r] \in {"joined", "landed", "again"} /\ ~live(r) /\ Back(r, "canceled")
     \/ rpc[r] = "again" /\ live(r) /\ RGoto(r, "download") /\ got' = [got EXCEPT ![r] = None]
     \/ rpc[r] = "again" /\ ~live(r) /\ RGoto(r, "back") /\ UNCHANGED got
     \/ rpc[r] = "landed" /\ got[r] = "ok" /\ RGoto(r, "charge") /\ got' = [got EXCEPT ![r] = None]
     \/ rpc[r] = "landed" /\ got[r] # "ok" /\ RGoto(r, "back") /\ UNCHANGED got
  /\ UNCHANGED <<storeVars, searchVars>>

(* Budget.Charge, before the body is parsed. *)
Charge(l) == remaining[l] - 1 >= 0

(* The body is charged, then parsed; a summary is written for the next     *)
(* lookup.                                                                 *)
Parse(r) ==
  /\ rpc[r] = "charge"
  /\ remaining' = [remaining EXCEPT ![r[1]] = @ - 1]
  /\ \/ ~Charge(r[1]) /\ Back(r, "budget") /\ UNCHANGED dir
     \/ Charge(r[1]) /\ Back(r, IF repo.defines[fileOf(r).blob] = None THEN "failed" ELSE "ok") /\ UNCHANGED dir
     \/ /\ Charge(r[1]) /\ repo.defines[fileOf(r).blob] # None /\ at[r[1]] = "reading"
        /\ dir' = placed(fileOf(r).blob, "summary") /\ RGoto(r, "summarized") /\ UNCHANGED got
  /\ UNCHANGED <<repo, models, index, loading, cacheSize, lastScan, writes, flights, ended, at, mode, step,
                 todo, files, found, out>>

NoteSummary(r) ==
  /\ rpc[r] = "summarized"
  /\ Noted(1) /\ Back(r, "ok")
  /\ UNCHANGED <<repo, models, index, loading, flights, searchVars>>
-----------------------------------------------------------------------------
(* All readers that were scheduled are back. *)
allBack(l) ==
  \A i \in DOMAIN files[l] : rpc[<<l, i>>] = "back" \/ (rpc[<<l, i>>] = "waiting" /\ failed(l))
firstError(l) ==
  LET i == CHOOSE i \in DOMAIN files[l] :
             /\ got[<<l, i>>] \notin {"ok", None}
             /\ \A j \in 1..(i - 1) : got[<<l, j>>] = "ok"
  IN got[<<l, i>>]
stopReaders(l) ==
  /\ rpc' = [r \in Readers |-> IF r[1] = l THEN "idle" ELSE rpc[r]]
  /\ got' = [r \in Readers |-> IF r[1] = l THEN None ELSE got[r]]
  /\ files' = [files EXCEPT ![l] = <<>>]

(* The first error by position fails the search; matches are kept, and a   *)
(* group is left at the first dir that has one.                            *)
Scanned(l) ==
  /\ at[l] = "reading" /\ allBack(l)
  /\ stopReaders(l)
  /\ IF failed(l) THEN Finish(l, [kind |-> "failed", why |-> firstError(l)]) /\ UNCHANGED <<todo, found>>
     ELSE LET kept == {m \in [file : Range(files[l]), id : Spelled] : m.id \in matches(l, m.file)} IN
            /\ found' = [found EXCEPT ![l] = @ \cup kept]
            /\ todo' = [todo EXCEPT ![l] =
                 IF kept = {} \/ models[l] # None THEN @ \ {nextDir(@)} ELSE {d \in @ : d.group # groupOf(@)}]
            /\ at' = [at EXCEPT ![l] = "scan"] /\ UNCHANGED out
  /\ UNCHANGED <<storeVars, ended, mode, step, remaining>>

(* conclude: ids that differ by case, and what only previews define, are   *)
(* for the model to choose between; the rest is rendered.                  *)
Conclude(l) ==
  /\ at[l] = "conclude"
  /\ IF Cardinality({m.id : m \in found[l]}) > 1 \/ (models[l] = None /\ step[l] = 3)
       THEN Finish(l, [kind |-> "ambiguous"]) /\ UNCHANGED <<files, rpc, got>>
       ELSE /\ at' = [at EXCEPT ![l] = "rendering"] /\ UNCHANGED out
            /\ startReaders(l, SetToSeq({m.file : m \in found[l]}), "waiting")
  /\ UNCHANGED <<storeVars, ended, mode, step, todo, found, remaining>>

(* merge: of the same request, the newest dir wins, then stable. *)
wins(a, b) == newerDir(dirOf(a), dirOf(b))

(* One request that is the same in every candidate is the answer. *)
Rendered(l) ==
  /\ at[l] = "rendering" /\ allBack(l)
  /\ stopReaders(l)
  /\ LET cands == Range(files[l]) IN
       IF failed(l) THEN Finish(l, [kind |-> "failed", why |-> firstError(l)])
       ELSE IF Cardinality({repo.request[f.blob] : f \in cands}) > 1 THEN Finish(l, [kind |-> "ambiguous"])
       ELSE Finish(l, [kind |-> "found",
                       file |-> CHOOSE f \in cands : \A o \in cands \ {f} : ~wins(o, f)])
  /\ UNCHANGED <<storeVars, ended, mode, step, todo, found, remaining>>
-----------------------------------------------------------------------------
SpecInit ==
  /\ repo \in Repos
  /\ models \in {f \in [Lookups -> {None} \cup repo.models] : \A l \in Lookups : f[l] # None => l \in repo.run}
  /\ index = None /\ loading = None
  /\ dir = repo.left /\ cacheSize = -1 /\ writes = 0 /\ lastScan = [stuck |-> 0, unseen |-> 0]
  /\ flights = [b \in blobs |-> None]
  /\ ended = {} /\ at = [l \in Lookups |-> IF l \in repo.run THEN "new" ELSE "done"]
  /\ mode = [l \in Lookups |-> "exact"] /\ step = [l \in Lookups |-> 1]
  /\ todo = [l \in Lookups |-> {}] /\ files = [l \in Lookups |-> <<>>]
  /\ found = [l \in Lookups |-> {}] /\ remaining = [l \in Lookups |-> Budget]
  /\ rpc = [r \in Readers |-> "idle"] /\ got = [r \in Readers |-> None]
  /\ out = [l \in Lookups |-> None]

SpecNext ==
  \/ Loaded
  \/ \E l \in Lookups :
       \/ End(l) \/ Index(l) \/ LeaveLoad(l) \/ Plan(l) \/ ScanDir(l) \/ NextPass(l)
       \/ Scanned(l) \/ Conclude(l) \/ Rendered(l)
  \/ \E r \in Readers :
       \/ Schedule(r) \/ Summary(r) \/ File(r) \/ Download(r) \/ Recheck(r) \/ Fetched(r)
       \/ NoteBody(r) \/ Joined(r) \/ Parse(r) \/ NoteSummary(r)
-----------------------------------------------------------------------------
(* A lookup that is still live never answers, nor fails a file, with the   *)
(* end of another lookup's context, whose download or index load it joined.*)
LiveNotCanceled ==
  \A l \in Lookups :
    l \notin ended => /\ \A i \in 1..MaxFiles : rpc[<<l, i>>] = "back" => got[<<l, i>>] # "canceled"
                      /\ out[l] # None => out[l].kind # "stopped"

(* What the search is for, said of the whole repository at once.           *)
OpFiles == filesIn(BuildIndex(repo.sha, walkTrees(repo.tree)), Namespace)
Newer(a, b) == newerDir(dirOf(a), dirOf(b))
Tier(l, f) ==
  IF models[l] # None THEN 1
  ELSE IF f.at.kind = "preview" THEN 3
  ELSE IF \E o \in OpFiles : o.at.group = f.at.group /\ o.at.kind = "stable" /\ Newer(o, f) THEN 2 ELSE 1
Candidates(l, S) ==
  LET D == {f \in OpFiles : ids(f) \cap S # {} /\ models[l] \in {None, f.at.dir}}
      best == {f \in D : \A o \in D : Tier(l, f) <= Tier(l, o)}
  IN IF models[l] # None THEN D
     ELSE {f \in best : \A o \in best : o.at.group = f.at.group => ~Newer(o, f)}
Wanted(l) == IF Candidates(l, {"exact"}) # {} THEN {"exact"} ELSE Spelled

(* An answer does not depend on what the cache held, on which reads were   *)
(* shared or on the order the walk took: nothing is reported missing that  *)
(* the repository defines, a spelling of the id never hides the id itself, *)
(* no preview is answered for what a stable version defines, and among     *)
(* equal requests the newest version is the one rendered.                  *)
SearchRight ==
  \A l \in Lookups : out[l] # None =>
    LET C == Candidates(l, Wanted(l)) IN
      CASE out[l].kind = "notFound" -> C = {}
        [] out[l].kind = "found" -> /\ out[l].file \in C /\ \A o \in C : ~Newer(o, out[l].file)
                                    /\ Cardinality({repo.request[f.blob] : f \in C}) = 1
        [] out[l].kind = "ambiguous" -> \/ Cardinality(C) > 1
                                        \/ \E f \in C : f.at.kind = "preview" \/ Cardinality(ids(f) \cap Wanted(l)) > 1
        [] OTHER -> TRUE

(* What the store believes of the files dir, whoever writes and evicts:    *)
(* its count passes the cap only by files that the scan before could not   *)
(* remove, and every file is in the count but those the scan could not     *)
(* list and those whose writers are about to count them.                   *)
CacheCounted ==
  cacheSize >= 0 =>
    /\ cacheSize <= MaxCache \/ cacheSize = lastScan.stuck
    /\ Len(dir) <= cacheSize + lastScan.unseen
                      + Cardinality({r \in Readers : rpc[r] \in {"fetched", "summarized"}})
=============================================================================
