----------------------------- MODULE SpecsIndex -----------------------------
(***************************************************************************)
(* The index of the Azure REST API specs: what a pack of the repository    *)
(* must be to be read, what its tree lists, and where the index puts each  *)
(* file.  A path is the sequence of its segments, a version dir is named   *)
(* by one of Versions, oldest first, and an id that is not 40 hex digits   *)
(* is BadId.                                                               *)
(***************************************************************************)
EXTENDS Naturals, Sequences, FiniteSets, SequencesExt

CONSTANTS
  Versions,                        \* names of version dirs, oldest first
  MaxObjects, MaxObject, MaxTotal, \* bounds of a pack: objects, bytes of one, bytes of all
  MaxEntries, MaxDepth,            \* bounds of the walk: entries, depth
  BadId

validSHA(id) == id # BadId
-----------------------------------------------------------------------------
(* A delta is what its base is; a base that was not admitted before is     *)
(* nothing.  A delta costs its own bytes and those of its target.          *)
objectTypes(objects) ==
  LET type[i \in DOMAIN objects] ==
        IF objects[i].type # "delta" THEN objects[i].type
        ELSE IF objects[i].base \in 1..(i - 1) THEN type[objects[i].base] ELSE "none"
  IN type

inflated(o) == o.length + IF o.type = "delta" THEN o.target ELSE 0

admitObject(objects, i) ==
  /\ objects[i].length <= MaxObject
  /\ objectTypes(objects)[i] \in {"commit", "tree"}
  /\ objects[i].type = "delta" => objects[i].target <= MaxObject

(* preflightWith: one commit, trees and deltas only, within the bounds,    *)
(* and the checksum is the end of it.                                      *)
preflight(pack) ==
  LET objects == pack.objects IN
    /\ Len(objects) <= MaxObjects
    /\ \A i \in DOMAIN objects : admitObject(objects, i)
    /\ FoldFunction(+, 0, [i \in DOMAIN objects |-> inflated(objects[i])]) <= MaxTotal
    /\ Cardinality({i \in DOMAIN objects : objectTypes(objects)[i] = "commit"}) = 1
    /\ pack.whole

(* walkTrees: every regular file, or nothing when the tree passes a bound  *)
(* or a subtree is missing.                                                *)
walkable(tree) ==
  /\ Cardinality(tree) <= MaxEntries
  /\ \A e \in tree : Len(e.path) - 1 <= MaxDepth /\ e.mode # "missing"

walkTrees(tree) == {e \in tree : e.mode \in {"regular", "executable"}}

(* FetchListing: a deadline over all of it, which the caller chooses with  *)
(* the fetch.                                                              *)
listable(repo) == preflight(repo.pack) /\ walkable(repo.tree)
-----------------------------------------------------------------------------
(* A file a $ref may name. *)
refTarget(path) ==
  /\ Len(path) >= 3 /\ path[1] = "specification" /\ path[Len(path)] \in {"a.json", "b.json"}
  /\ "examples" \notin Range(path)
  /\ path[2] = "common-types" \/ path[3] \in {"resource-manager", "common"}

NotAnOperationFile == [namespace |-> "", group |-> <<>>, kind |-> "", dir |-> "", file |-> ""]

(* parseOpPath: an operation file of the classic layout or of the new one, *)
(* which names the service after the namespace.                            *)
parseOpPath(path) ==
  LET n == Len(path)
      placed == [namespace |-> path[4], group |-> IF n = 8 THEN <<path[2], path[5]>> ELSE <<path[2]>>,
                 kind |-> path[n - 2], dir |-> path[n - 1], file |-> path[n]]
  IN IF /\ n \in {7, 8} /\ path[1] = "specification" /\ path[3] = "resource-manager"
        /\ "examples" \notin Range(path)
        /\ path[n - 2] \in {"stable", "preview"} /\ path[n - 1] \in Range(Versions)
     THEN placed ELSE NotAnOperationFile

(* BuildIndex: the commit, what refs may name, and each operation file     *)
(* where its path puts it.                                                 *)
BuildIndex(sha, listing) ==
  LET refs == {e \in listing : refTarget(e.path)} IN
    [sha |-> sha, refs |-> {<<e.path, e.blob>> : e \in refs},
     files |-> {[at |-> parseOpPath(e.path), path |-> e.path, blob |-> e.blob] :
                  e \in {r \in refs : parseOpPath(r.path) # NotAnOperationFile}}]

(* admitIndex: an index read back never widens what a lookup fetches. *)
admitIndex(ix) ==
  /\ validSHA(ix.sha) /\ ix.files # {}
  /\ \A r \in ix.refs : refTarget(r[1]) /\ validSHA(r[2])
  /\ \A f \in ix.files : <<f.path, f.blob>> \in ix.refs /\ f.at = parseOpPath(f.path)

(* Dirs newest first by name, then stable before preview; files by path,   *)
(* which within a dir is by name.                                          *)
age(v) == CHOOSE i \in DOMAIN Versions : Versions[Len(Versions) + 1 - i] = v
kindRank(k) == IF k = "stable" THEN 0 ELSE 1
newerDir(a, b) == age(a.dir) < age(b.dir) \/ (a.dir = b.dir /\ kindRank(a.kind) < kindRank(b.kind))

dirOf(f) == [group |-> f.at.group, kind |-> f.at.kind, dir |-> f.at.dir]
filesIn(ix, ns) == {f \in ix.files : f.at.namespace = ns}
dirsOf(ix, ns) == {dirOf(f) : f \in filesIn(ix, ns)}

filesOf(ix, ns, d) ==
  LET inDir == {f \in filesIn(ix, ns) : dirOf(f) = d}
      first == {f \in inDir : f.at.file = "a.json"}
  IN SetToSeq(first) \o SetToSeq(inDir \ first)
=============================================================================
