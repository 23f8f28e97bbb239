----------------------------- MODULE SyncCache -----------------------------
(***************************************************************************)
(* One key of syncCache.get (internal/auth/cert_cache.go), the success-only*)
(* cache of cluster facts: concurrent lookups share one fetch through a    *)
(* singleflight group, the fetch is detached from the caller that started  *)
(* it, and every caller waits under its own context and a timer of its     *)
(* own.  Keys do not interact.                                             *)
(*                                                                         *)
(* A fetch is named by the caller that started it, and so is the value it  *)
(* brings.  Time is the age of a wait and of a fetch in ticks, saturated   *)
(* at Timeout, so that time is unbounded and the state space finite.  A    *)
(* fetch may observe its context or ignore it and hang.                    *)
(***************************************************************************)
EXTENDS Integers, FiniteSets

CONSTANTS
  Callers,   \* lookups of the key
  Timeout,   \* syncCache.timeout, in ticks
  None       \* no fetch, no value

ASSUME CallersAssumption == None \notin Callers /\ IsFiniteSet(Callers)
ASSUME TimeoutAssumption == Timeout \in Nat \ {0}

VARIABLES
  items,      \* syncCache.items[key]: the fetch whose value is cached, or None
  group,      \* the fetch the singleflight group knows under the key, or None
  fetch,      \* fetch[f]: "none", "running", "ok", "err", or "cut" by its context
  fetchAge,   \* ticks since f started
  pc,         \* where caller c is in get
  joined,     \* the fetch c waits for
  waited,     \* ticks since c's timer was set
  canceled,   \* callers in get whose own context has ended
  result,     \* how get ended for c: a "hit", the "value" of its fetch, or the error:
              \* "err" or "cut" of the fetch, "ctx" its own context, "timer" the backstop
  preempted,  \* history variable: callers already canceled when they called get
  given       \* history variable: fetches some caller's timer gave up on

vars == <<items, group, fetch, fetchAge, pc, joined, waited, canceled, result,
          preempted, given>>

fetches == <<fetch, fetchAge>>
waiting == <<joined, waited>>

(* c returns from get; its timer and its context no longer matter. *)
Return(c, how) ==
  /\ pc' = [pc EXCEPT ![c] = "done"]
  /\ result' = [result EXCEPT ![c] = how]
  /\ joined' = [joined EXCEPT ![c] = None]
  /\ waited' = [waited EXCEPT ![c] = 0]
  /\ canceled' = canceled \ {c}

Goto(c, to) ==
  /\ pc' = [pc EXCEPT ![c] = to]
  /\ UNCHANGED <<result, waiting, canceled>>
-----------------------------------------------------------------------------
(* The look at the map, under the mutex. *)
Lookup(c) ==
  /\ pc[c] = "new"
  /\ \/ items # None /\ Return(c, "hit")
     \/ items = None /\ Goto(c, "missed")
  /\ preempted' = IF c \in canceled THEN preempted \cup {c} ELSE preempted
  /\ UNCHANGED <<items, group, fetches, given>>

(* A caller that is already canceled starts nothing. *)
CheckContext(c) ==
  /\ pc[c] = "missed"
  /\ \/ c \in canceled /\ Return(c, "ctx")
     \/ c \notin canceled /\ Goto(c, "joining")
  /\ UNCHANGED <<items, group, fetches, preempted, given>>

(* DoChan: join the fetch in flight, or start one; then set the timer. *)
DoChan(c) ==
  /\ pc[c] = "joining"
  /\ pc' = [pc EXCEPT ![c] = "waiting"]
  /\ \/ /\ group # None
        /\ joined' = [joined EXCEPT ![c] = group]
        /\ UNCHANGED <<group, fetches>>
     \/ /\ group = None
        /\ joined' = [joined EXCEPT ![c] = c]
        /\ group' = c
        /\ fetch' = [fetch EXCEPT ![c] = "running"]
        /\ fetchAge' = [fetchAge EXCEPT ![c] = 0]
  /\ UNCHANGED <<items, waited, canceled, result, preempted, given>>

(* Forget drops whatever fetch the group has under the key now. *)
Forget == None

(* Mutant: a caller that leaves makes the group forget the key, as the timer does. *)
ContextDone_Forgets(c) ==
  /\ pc[c] = "waiting" /\ c \in canceled
  /\ Return(c, "ctx")
  /\ group' = Forget
  /\ UNCHANGED <<items, fetches, preempted, given>>

(* The select: the caller's own context ... *)
ContextDone(c) ==
  /\ pc[c] = "waiting" /\ c \in canceled
  /\ Return(c, "ctx")
  /\ UNCHANGED <<items, group, fetches, preempted, given>>

(* Mutant: the wait has no backstop. *)
TimerFires_Never(c) ==
  /\ FALSE
  /\ UNCHANGED vars

(* ... the backstop ... *)
TimerFires(c) ==
  /\ pc[c] = "waiting" /\ waited[c] = Timeout
  /\ Return(c, "timer")
  /\ group' = Forget
  /\ given' = given \cup {joined[c]}
  /\ UNCHANGED <<items, fetches, preempted>>

(* ... or the result of the fetch. *)
Receive(c) ==
  /\ pc[c] = "waiting"
  /\ \/ fetch[joined[c]] \in {"err", "cut"} /\ Return(c, fetch[joined[c]])
     \/ fetch[joined[c]] = "ok" /\ Goto(c, "storing")
  /\ UNCHANGED <<items, group, fetches, preempted, given>>

(* The first value stored stays. *)
stored(c) == IF items = None THEN joined[c] ELSE items

(* The caller returns the value of its own fetch, stored or not. *)
Store(c) ==
  /\ pc[c] = "storing"
  /\ items' = stored(c)
  /\ Return(c, "value")
  /\ UNCHANGED <<group, fetches, preempted, given>>
-----------------------------------------------------------------------------
(* The group drops a fetch that ended, if it still knows it. *)
leavesGroup(f) == IF group = f THEN None ELSE group

(* A fetch returns.  The age of one that ended by itself no longer matters. *)
Ends(f, how) ==
  /\ fetch[f] = "running"
  /\ fetch' = [fetch EXCEPT ![f] = how]
  /\ group' = leavesGroup(f)
  /\ given' = given \ {f}
  /\ fetchAge' = IF how = "cut" THEN fetchAge ELSE [fetchAge EXCEPT ![f] = 0]
  /\ UNCHANGED <<items, pc, waiting, canceled, result, preempted>>

Fetched(f) == \E how \in {"ok", "err"} : Ends(f, how)

(* Mutant: the fetch runs under the context of the caller that started it. *)
fetchContext_Attached(f) == fetchAge[f] = Timeout \/ result[f] = "ctx"

(* The context of a fetch ends with its own deadline only. *)
fetchContext(f) == fetchAge[f] = Timeout

FetchCut(f) == fetchContext(f) /\ Ends(f, "cut")

(* The caller's deadline passes, or it is canceled. *)
Cancel(c) ==
  /\ pc[c] # "done" /\ c \notin canceled
  /\ canceled' = canceled \cup {c}
  /\ UNCHANGED <<items, group, fetches, pc, waiting, result, preempted, given>>

Tick ==
  /\ waited' = [c \in Callers |->
                  IF pc[c] = "waiting" /\ waited[c] < Timeout THEN waited[c] + 1 ELSE waited[c]]
  /\ fetchAge' = [f \in Callers |->
                    IF fetch[f] = "running" /\ fetchAge[f] < Timeout
                    THEN fetchAge[f] + 1 ELSE fetchAge[f]]
  /\ UNCHANGED <<items, group, fetch, pc, joined, canceled, result, preempted, given>>

Init ==
  /\ items = None /\ group = None
  /\ fetch = [f \in Callers |-> "none"] /\ fetchAge = [f \in Callers |-> 0]
  /\ pc = [c \in Callers |-> "new"] /\ joined = [c \in Callers |-> None]
  /\ waited = [c \in Callers |-> 0] /\ canceled = {}
  /\ result = [c \in Callers |-> "none"]
  /\ preempted = {} /\ given = {}

(* What the goroutine of a lookup does once it is in get. *)
Caller(c) == \/ CheckContext(c) \/ DoChan(c) \/ ContextDone(c) \/ TimerFires(c)
             \/ Receive(c) \/ Store(c)

Next == \/ Tick
        \/ \E c \in Callers : \/ Lookup(c) \/ Caller(c) \/ Cancel(c)
                              \/ Fetched(c) \/ FetchCut(c)

(* Goroutines run and time passes; no fetch owes a result. *)
Fairness == WF_vars(Tick) /\ \A c \in Callers : WF_vars(Caller(c))

Spec == Init /\ [][Next]_vars /\ Fairness
-----------------------------------------------------------------------------
Outcomes == {"none", "hit", "value", "err", "cut", "ctx", "timer"}

(* The types of the state; in particular what the group holds is running.  *)
TypeOK ==
  /\ items \in Callers \cup {None}
  /\ group \in {f \in Callers : fetch[f] = "running"} \cup {None}
  /\ fetch \in [Callers -> {"none", "running", "ok", "err", "cut"}]
  /\ fetchAge \in [Callers -> 0..Timeout] /\ waited \in [Callers -> 0..Timeout]
  /\ pc \in [Callers -> {"new", "missed", "joining", "waiting", "storing", "done"}]
  /\ joined \in [Callers -> Callers \cup {None}]
  /\ canceled \subseteq Callers /\ preempted \subseteq Callers
  /\ result \in [Callers -> Outcomes]
  /\ given \subseteq Callers \cup {None}

(* Every value that is served or cached was brought by a fetch that        *)
(* succeeded; the error of one fetch is never what a later lookup gets.    *)
ServesFetchedValues ==
  /\ items # None => fetch[items] = "ok"
  /\ \A c \in Callers : pc[c] = "storing" => fetch[joined[c]] = "ok"

(* All lookups answered from the cache get one and the same value: what is *)
(* cached stays, also when a fetch that was given up comes in after a      *)
(* later one.                                                              *)
HitsAgree == [][items # None => items' = items]_vars

Running == {f \in Callers : fetch[f] = "running"}
GaveUp == {c \in Callers : result[c] = "timer"}

(* A caller that leaves takes nothing from its peers.  Whoever has left,   *)
(* also the one that started the fetch: those that still wait see it cut   *)
(* only when it has had its whole time; and the key is fetched once at a   *)
(* time, so that a later lookup shares what its peers wait for, but for    *)
(* one more fetch for every caller whose backstop fired.                   *)
PeersSurvive ==
  /\ \A c \in Callers :
       pc[c] = "waiting" /\ fetch[joined[c]] = "cut" => fetchAge[joined[c]] = Timeout
  /\ Cardinality(Running) <= 1 + Cardinality(GaveUp)

(* Once a caller's timer gave up on a fetch, no later lookup joins it.     *)
GivenUpIsForgotten ==
  [][\A c \in Callers : pc[c] = "joining" /\ pc'[c] = "waiting" => joined'[c] \notin given]_vars

(* A lookup whose context had ended before it began starts no fetch.       *)
CanceledStartsNothing ==
  \A c \in preempted : fetch[c] = "none"

(* A lookup returns although the fetch it waits for hangs for ever.        *)
LookupReturns ==
  \A c \in Callers : pc[c] = "waiting" ~> pc[c] = "done"

(* What TestSyncCache_ForgetsTimedOutFetch says the cache does: a lookup   *)
(* that comes after a fetch has blocked past the timeout starts a fresh    *)
(* one instead of joining the stuck one, when nobody is left waiting for   *)
(* that one.                                                               *)
JoinsNoStuckFetch ==
  [][\A c \in Callers : pc[c] = "joining" /\ pc'[c] = "waiting" =>
       \/ fetchAge'[joined'[c]] < Timeout
       \/ \E d \in Callers : pc[d] = "waiting" /\ joined[d] = joined'[c]]_vars
=============================================================================
