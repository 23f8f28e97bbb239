-------------------------- MODULE SyncCacheProofs --------------------------
(***************************************************************************)
(* The safety properties of SyncCache, for any set of callers and any      *)
(* timeout.                                                                *)
(***************************************************************************)
EXTENDS SyncCache, FiniteSetTheorems, TLAPS

(* A caller's stage says what it may have joined and what it has started.  *)
CallersOK ==
  \A c \in Callers :
    /\ pc[c] \in {"new", "missed", "joining"} => fetch[c] = "none"
    /\ pc[c] # "done" => result[c] = "none"
    /\ pc[c] \in {"waiting", "storing"} => joined[c] \in Callers /\ fetch[joined[c]] # "none"

(* A caller that came in canceled does not get past the check.             *)
PreemptedOK ==
  \A c \in preempted : pc[c] = "done" \/ (pc[c] = "missed" /\ c \in canceled)

(* What a timer gave up on was started, and is not in the group.           *)
GivenOK ==
  /\ group \notin given
  /\ None \notin given
  /\ \A f \in given : fetch[f] # "none"

(* A fetch is cut when it has had its whole time.                          *)
CutOK == \A f \in Callers : fetch[f] = "cut" => fetchAge[f] = Timeout

(* A running fetch is the one the group knows, but for one more for every  *)
(* caller whose backstop fired.                                            *)
Abandoned == Running \ {group}
GroupOK == Cardinality(Abandoned) <= Cardinality(GaveUp)

IInv ==
  /\ TypeOK
  /\ CallersOK
  /\ PreemptedOK
  /\ GivenOK
  /\ ServesFetchedValues
  /\ CutOK
  /\ GroupOK
  /\ CanceledStartsNothing

(* The sets that GroupOK counts are finite.                                *)
LEMMA CountsAreNatural ==
  /\ IsFiniteSet(Running) /\ Cardinality(Running) \in Nat
  /\ IsFiniteSet(Abandoned) /\ Cardinality(Abandoned) \in Nat
  /\ IsFiniteSet(GaveUp) /\ Cardinality(GaveUp) \in Nat
<1>1. Running \subseteq Callers /\ Abandoned \subseteq Callers /\ GaveUp \subseteq Callers
  BY DEF Running, Abandoned, GaveUp
<1> QED BY <1>1, CallersAssumption, FS_Subset, FS_CardinalityType

(* What runs is what the group knows, and what was abandoned.              *)
LEMMA RunningCounted == Cardinality(Running) <= Cardinality(Abandoned) + 1
<1> DEFINE Known == Abandoned \cup {group}
<1>1. IsFiniteSet(Known) /\ Cardinality(Known) =
        IF group \in Abandoned THEN Cardinality(Abandoned) ELSE Cardinality(Abandoned) + 1
  BY CountsAreNatural, FS_AddElement
<1>2. Cardinality(Known) <= Cardinality(Abandoned) + 1
  BY <1>1, CountsAreNatural
<1>3. Running \subseteq Known
  BY DEF Abandoned
<1>4. Cardinality(Running) <= Cardinality(Known)
  BY <1>1, <1>3, FS_Subset
<1>5. Cardinality(Known) \in Nat
  BY <1>1, CountsAreNatural
<1> HIDE DEF Known
<1> QED BY <1>2, <1>4, <1>5, CountsAreNatural

(* A step that abandons no fetch and lets no backstop be forgotten.        *)
LEMMA GroupKept ==
  ASSUME GroupOK, Abandoned' \subseteq Abandoned, GaveUp \subseteq GaveUp'
  PROVE  GroupOK'
<1>1. IsFiniteSet(GaveUp')
  BY CallersAssumption, FS_Subset DEF GaveUp
<1>2. Cardinality(Abandoned') <= Cardinality(Abandoned) /\ Cardinality(Abandoned') \in Nat
  BY CountsAreNatural, FS_Subset, FS_CardinalityType
<1>3. Cardinality(GaveUp) <= Cardinality(GaveUp') /\ Cardinality(GaveUp') \in Nat
  BY <1>1, FS_Subset, FS_CardinalityType
<1> QED BY <1>2, <1>3, CountsAreNatural DEF GroupOK

(* A backstop that fires abandons one fetch at most.                       *)
LEMMA GroupForgotten ==
  ASSUME IInv, NEW c \in Callers, TimerFires(c)
  PROVE  GroupOK'
<1>1. Abandoned' = Running
  BY CallersAssumption DEF IInv, TypeOK, TimerFires, Forget, Abandoned, Running, fetches
<1>2. c \notin GaveUp /\ GaveUp' = GaveUp \cup {c}
  BY DEF IInv, TypeOK, CallersOK, TimerFires, Return, GaveUp
<1>3. Cardinality(GaveUp') = Cardinality(GaveUp) + 1
  BY <1>2, CountsAreNatural, FS_AddElement
<1>4. Cardinality(Abandoned) + 1 <= Cardinality(GaveUp) + 1
  BY CountsAreNatural DEF IInv, GroupOK
<1>5. Cardinality(Running) <= Cardinality(GaveUp')
  BY <1>3, <1>4, RunningCounted, CountsAreNatural
<1> QED BY <1>1, <1>5 DEF GroupOK

(* IInv holds of a cache nobody has looked into.                           *)
LEMMA InitEstablishes == Init => IInv
<1> SUFFICES ASSUME Init PROVE IInv
  OBVIOUS
<1> USE CallersAssumption, TimeoutAssumption
<1>1. TypeOK
  BY DEF Init, TypeOK, Outcomes
<1>2. CallersOK /\ PreemptedOK /\ GivenOK
  BY DEF Init, CallersOK, PreemptedOK, GivenOK
<1>3. ServesFetchedValues /\ CutOK /\ CanceledStartsNothing
  BY DEF Init, ServesFetchedValues, CutOK, CanceledStartsNothing
<1>4. Abandoned = {} /\ GaveUp = {}
  BY DEF Init, Abandoned, Running, GaveUp
<1>5. GroupOK
  BY <1>4, FS_EmptySet DEF GroupOK
<1> QED BY <1>1, <1>2, <1>3, <1>5 DEF IInv

(* The steps of a lookup that leave the fetches alone keep IInv.           *)
LEMMA LookupKeeps ==
  ASSUME IInv, NEW c \in Callers, Lookup(c) \/ CheckContext(c) \/ ContextDone(c)
  PROVE  IInv'
<1> USE CallersAssumption, TimeoutAssumption
<1>1. TypeOK'
  BY DEF IInv, TypeOK, Lookup, CheckContext, ContextDone, Return, Goto, fetches, waiting, Outcomes
<1>2. CallersOK' /\ PreemptedOK' /\ GivenOK'
  BY DEF IInv, TypeOK, CallersOK, PreemptedOK, GivenOK, Lookup, CheckContext, ContextDone,
         Return, Goto, fetches, waiting
<1>3. ServesFetchedValues' /\ CutOK' /\ CanceledStartsNothing'
  BY DEF IInv, TypeOK, CallersOK, ServesFetchedValues, CutOK, CanceledStartsNothing,
         Lookup, CheckContext, ContextDone, Return, Goto, fetches, waiting
<1>4. GroupOK'
  <2>1. Abandoned' = Abandoned /\ GaveUp \subseteq GaveUp'
    BY DEF IInv, TypeOK, CallersOK, Lookup, CheckContext, ContextDone, Return, Goto, fetches,
           waiting, Abandoned, Running, GaveUp
  <2> QED BY <2>1, GroupKept DEF IInv
<1> QED BY <1>1, <1>2, <1>3, <1>4 DEF IInv

(* Joining or starting a fetch keeps IInv.                                 *)
LEMMA DoChanKeeps ==
  ASSUME IInv, NEW c \in Callers, DoChan(c)
  PROVE  IInv'
<1> USE CallersAssumption, TimeoutAssumption
<1>1. TypeOK'
  BY DEF IInv, TypeOK, CallersOK, DoChan, fetches, Outcomes
<1>2. CallersOK' /\ PreemptedOK' /\ GivenOK'
  BY DEF IInv, TypeOK, CallersOK, PreemptedOK, GivenOK, DoChan, fetches
<1>3. ServesFetchedValues' /\ CutOK' /\ CanceledStartsNothing'
  BY DEF IInv, TypeOK, CallersOK, PreemptedOK, ServesFetchedValues, CutOK,
         CanceledStartsNothing, DoChan, fetches
<1>4. GroupOK'
  <2>1. Abandoned' \subseteq Abandoned /\ GaveUp' = GaveUp
    BY DEF IInv, TypeOK, CallersOK, DoChan, fetches, Abandoned, Running, GaveUp
  <2> QED BY <2>1, GroupKept DEF IInv
<1> QED BY <1>1, <1>2, <1>3, <1>4 DEF IInv

(* The backstop, and the result of a fetch, keep IInv.                     *)
LEMMA AnswerKeeps ==
  ASSUME IInv, NEW c \in Callers, TimerFires(c) \/ Receive(c) \/ Store(c)
  PROVE  IInv'
<1> USE CallersAssumption, TimeoutAssumption
<1>0. pc[c] \in {"waiting", "storing"} /\ joined[c] \in Callers
  BY DEF IInv, CallersOK, TimerFires, Receive, Store
<1>1. TypeOK'
  BY <1>0 DEF IInv, TypeOK, TimerFires, Receive, Store, stored, Forget, Return, Goto, fetches,
              waiting, Outcomes
<1>2. CallersOK' /\ PreemptedOK' /\ GivenOK'
  BY <1>0 DEF IInv, TypeOK, CallersOK, PreemptedOK, GivenOK, TimerFires, Receive, Store, Forget,
              Return, Goto, fetches, waiting
<1>3. ServesFetchedValues' /\ CutOK' /\ CanceledStartsNothing'
  BY <1>0 DEF IInv, TypeOK, CallersOK, ServesFetchedValues, CutOK, CanceledStartsNothing,
              TimerFires, Receive, Store, stored, Return, Goto, fetches, waiting
<1>4. GroupOK'
  <2>1. CASE TimerFires(c)
    BY <2>1, GroupForgotten
  <2>2. CASE Receive(c) \/ Store(c)
    <3>1. Abandoned' = Abandoned /\ GaveUp \subseteq GaveUp'
      BY <2>2 DEF IInv, TypeOK, CallersOK, Receive, Store, Return, Goto, fetches, waiting,
                  Abandoned, Running, GaveUp
    <3> QED BY <3>1, GroupKept DEF IInv
  <2> QED BY <2>1, <2>2
<1> QED BY <1>1, <1>2, <1>3, <1>4 DEF IInv

(* The end of a fetch keeps IInv.                                          *)
LEMMA FetchKeeps ==
  ASSUME IInv, NEW f \in Callers, Fetched(f) \/ FetchCut(f)
  PROVE  IInv'
<1> USE CallersAssumption, TimeoutAssumption
<1>0. PICK how \in {"ok", "err", "cut"} :
        Ends(f, how) /\ (how = "cut" => fetchAge[f] = Timeout)
  BY DEF Fetched, FetchCut, fetchContext
<1>1. TypeOK'
  BY <1>0 DEF IInv, TypeOK, Ends, leavesGroup, waiting
<1>2. CallersOK' /\ PreemptedOK' /\ GivenOK'
  BY <1>0 DEF IInv, TypeOK, CallersOK, PreemptedOK, GivenOK, Ends, leavesGroup, waiting
<1>3. ServesFetchedValues' /\ CutOK' /\ CanceledStartsNothing'
  BY <1>0 DEF IInv, TypeOK, CallersOK, ServesFetchedValues, CutOK, CanceledStartsNothing,
              Ends, waiting
<1>4. GroupOK'
  <2>1. Abandoned' \subseteq Abandoned /\ GaveUp' = GaveUp
    BY <1>0 DEF IInv, TypeOK, Ends, leavesGroup, waiting, Abandoned, Running, GaveUp
  <2> QED BY <2>1, GroupKept DEF IInv
<1> QED BY <1>1, <1>2, <1>3, <1>4 DEF IInv

(* A canceled caller and the passing of time keep IInv.                    *)
LEMMA OutsideKeeps ==
  ASSUME IInv, Tick \/ (\E c \in Callers : Cancel(c)) \/ UNCHANGED vars
  PROVE  IInv'
<1> USE CallersAssumption, TimeoutAssumption
<1>0. GroupOK'
  <2>1. Abandoned' = Abandoned /\ GaveUp' = GaveUp
    BY DEF Tick, Cancel, fetches, vars, Abandoned, Running, GaveUp
  <2> QED BY <2>1, GroupKept DEF IInv
<1>1. CASE Tick
  BY <1>0, <1>1 DEF IInv, TypeOK, CallersOK, PreemptedOK, GivenOK, ServesFetchedValues, CutOK,
              CanceledStartsNothing, Tick
<1>2. CASE \E c \in Callers : Cancel(c)
  BY <1>0, <1>2 DEF IInv, TypeOK, CallersOK, PreemptedOK, GivenOK, ServesFetchedValues, CutOK,
              CanceledStartsNothing, Cancel, fetches, waiting
<1>3. CASE UNCHANGED vars
  BY <1>0, <1>3 DEF IInv, TypeOK, CallersOK, PreemptedOK, GivenOK, ServesFetchedValues, CutOK,
              CanceledStartsNothing, vars
<1> QED BY <1>1, <1>2, <1>3

(* Every step keeps IInv.                                                  *)
LEMMA StepKeeps == IInv /\ [Next]_vars => IInv'
<1> SUFFICES ASSUME IInv, [Next]_vars PROVE IInv'
  OBVIOUS
<1> QED
  BY LookupKeeps, DoChanKeeps, AnswerKeeps, FetchKeeps, OutsideKeeps DEF Next, Caller

(* IInv holds in every reachable state.                                    *)
LEMMA Inductive == Spec => []IInv
BY InitEstablishes, StepKeeps, PTL DEF Spec
-----------------------------------------------------------------------------
(* The state keeps its types; a fetch in the group is running.             *)
THEOREM TypeCorrect == Spec => []TypeOK
<1>1. IInv => TypeOK BY DEF IInv
<1> QED BY <1>1, Inductive, PTL

(* Whatever is cached or about to be was brought by a fetch that succeeded.*)
THEOREM ServesFetched == Spec => []ServesFetchedValues
<1>1. IInv => ServesFetchedValues BY DEF IInv
<1> QED BY <1>1, Inductive, PTL

(* A caller that leaves does not cut the fetch its peers wait for, nor     *)
(* make the key be fetched beside it.                                      *)
THEOREM PeersUnharmed == Spec => []PeersSurvive
<1>1. ASSUME IInv PROVE PeersSurvive
  <2>1. \A c \in Callers :
          pc[c] = "waiting" /\ fetch[joined[c]] = "cut" => fetchAge[joined[c]] = Timeout
    BY <1>1 DEF IInv, CallersOK, CutOK
  <2>2. Cardinality(Abandoned) <= Cardinality(GaveUp)
    BY <1>1 DEF IInv, GroupOK
  <2>3. Cardinality(Running) <= 1 + Cardinality(GaveUp)
    BY <2>2, RunningCounted, CountsAreNatural
  <2> QED BY <2>1, <2>3 DEF PeersSurvive
<1>2. IInv => PeersSurvive BY <1>1
<1> QED BY <1>2, Inductive, PTL

(* A lookup that was canceled before it began starts no fetch.             *)
THEOREM CanceledIdle == Spec => []CanceledStartsNothing
<1>1. IInv => CanceledStartsNothing BY DEF IInv
<1> QED BY <1>1, Inductive, PTL

(* The cached value never changes.                                         *)
THEOREM FirstValueStays == Spec => HitsAgree
<1>1. [Next]_vars => [items # None => items' = items]_vars
  BY DEF Next, Caller, Tick, Lookup, CheckContext, DoChan, ContextDone, TimerFires, Receive, Store,
         stored, Fetched, FetchCut, Ends, Cancel, vars
<1> QED BY <1>1, PTL DEF Spec, HitsAgree

(* No lookup joins a fetch on which a timer gave up.                       *)
THEOREM GivenUpForgotten == Spec => GivenUpIsForgotten
<1> DEFINE Joins == \A c \in Callers :
             pc[c] = "joining" /\ pc'[c] = "waiting" => joined'[c] \notin given
<1>1. ASSUME IInv, Next PROVE Joins
  <2> SUFFICES ASSUME NEW c \in Callers, pc[c] = "joining", pc'[c] = "waiting"
               PROVE  joined'[c] \notin given
    OBVIOUS
  <2>1. DoChan(c)
    BY <1>1 DEF IInv, TypeOK, Next, Caller, Tick, Lookup, CheckContext, DoChan, ContextDone,
                TimerFires, Receive, Store, Return, Goto, Fetched, FetchCut, Ends, Cancel
  <2>2. joined'[c] \in {group, c}
    BY <2>1, <1>1 DEF IInv, TypeOK, DoChan
  <2> QED BY <1>1, <2>2 DEF IInv, GivenOK, CallersOK
<1>2. IInv /\ [Next]_vars => [Joins]_vars
  BY <1>1
<1> QED BY <1>2, Inductive, PTL DEF Spec, GivenUpIsForgotten
=============================================================================
