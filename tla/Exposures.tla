----------------------------- MODULE Exposures -----------------------------
(***************************************************************************)
(* The ceilings of the GitHub and GitLab connectors: how far each category *)
(* of the API is open, none, read or write, and what an operator is told   *)
(* of it.  A key is a category, or <<category, subcategory>>.              *)
(***************************************************************************)
EXTENDS Naturals, Sequences, TLC

Levels == [none |-> 0, read |-> 1, write |-> 2]
Default == <<"default">>

Allows(ceiling, required) == ceiling >= required

(* The operator's levels over the connector's own; one that is no level is *)
(* left out.                                                               *)
BuildExposure(baseline, operator) ==
  LET given == {key \in DOMAIN operator : operator[key] \in DOMAIN Levels}
  IN [k \in given \cup DOMAIN baseline |-> IF k \in given THEN Levels[operator[k]] ELSE baseline[k]]

(* The most specific key decides. *)
Ceiling(e, keys) ==
  LET set == {i \in DOMAIN keys : keys[i] \in DOMAIN e}
  IN IF set = {} THEN e[Default] ELSE e[keys[CHOOSE i \in set : \A j \in set : i <= j]]

(* Worth a warning: anything writable, or the sensitive key open. *)
PostureLoud(e, sensitive) ==
  \/ \E k \in DOMAIN e : e[k] = Levels["write"]
  \/ \E k \in DOMAIN e : k[1] = sensitive /\ e[k] # Levels["none"]

(* The line of the inventory: the default, the overrides, the sensitive key. *)
CompactCeiling(e, sensitive) ==
  [default |-> e[Default], sensitive |-> e[<<sensitive>>],
   overrides |-> [k \in DOMAIN e \ {Default, <<sensitive>>} |-> e[k]]]
=============================================================================
