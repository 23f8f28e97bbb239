------------------------------- MODULE Paths -------------------------------
(***************************************************************************)
(* The ways a server may take the path of a request apart.                 *)
(*                                                                         *)
(* A path is the sequence of its segments without the leading slash, and a *)
(* segment the sequence of its pieces: the wire writes an escaped slash    *)
(* between two pieces, which some servers take for a separator and others  *)
(* for a part of the name.  The path "/" is one segment, of an empty piece.*)
(***************************************************************************)
EXTENDS Naturals, Sequences, SequencesExt

Empty == <<"">>

(* Every piece a segment of its own. *)
decoded(path) == FlattenSeq([i \in DOMAIN path |-> [j \in DOMAIN path[i] |-> <<path[i][j]>>]])

(* Without the one empty segment that a trailing slash leaves, if that     *)
(* leaves a name.                                                          *)
dropTrailingEmpty(segs) ==
  {s \in {Front(segs)} : Len(segs) > 1 /\ Last(segs) = Empty /\ \E i \in DOMAIN s : s[i] # Empty}

withTrailingDrops(readings) == readings \cup UNION {dropTrailingEmpty(r) : r \in readings}

PathReadings(path) == withTrailingDrops({path, decoded(path)})
WireReadings(path) == withTrailingDrops({path})

(* Segments a forge resolves before it routes: cut at a ";", then decoded. *)
HasDotSegment(path) ==
  \E i \in DOMAIN path : path[i] \in {<<".">>, <<"..">>, <<"%2e%2e">>, <<"..;x">>}
=============================================================================
