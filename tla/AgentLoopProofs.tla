-------------------------- MODULE AgentLoopProofs --------------------------
(***************************************************************************)
(* Proofs about the research loop for any budgets, any batches and any     *)
(* number of turns.  None of the properties is inductive; the conjuncts of *)
(* IInv say what each rests on: which run executes and what the other one  *)
(* waits for (NestOK), that a run's transcript lacks exactly the results   *)
(* of the calls it has still to record and how many turns its retry        *)
(* counters stand for (RunOK), that a press closes every window but the    *)
(* one it found open (LateOK), that open attempts are the runs between     *)
(* attempt and result (OpenOK), where the budget has just been checked     *)
(* (BudgetOK), and which turns the session has on record (TurnsOK).        *)
(***************************************************************************)
EXTENDS AgentLoop, SequenceTheorems, FiniteSetTheorems, TLAPS

Depths == 0..maxTaskDepth

(* pcs at which every call of the transcript has its result, and those at  *)
(* which a call is being made.                                             *)
Settled == {"idle", "top", "calling", "generating", "accept", "rendered", "concluding",
            "summarizing"}
Attempted == {"invoke", "task", "pass", "passing", "verifying", "armed", "running", "result"}

RunOK(d, r) ==
  /\ r.iter <= maxIter(d)
  /\ r.unpaired = Len(r.calls)
  /\ r.pc \in Settled => r.calls = <<>>
  /\ r.pc \in Attempted \cup {"dispatch"} => r.calls # <<>>
  /\ r.pc \in {"pass", "passing", "verifying"} => r.pass \in 1..3
  /\ r.pc \in {"passing", "verifying"} => r.pass <= 2
  /\ r.futile <= r.truncated * MaxEmpty + r.empty

RunsOK == \A d \in Depths : RunOK(d, rs[d])

NestOK ==
  /\ ~inTurn => ret = "none"
  /\ ~inTurn \/ ret # "none" => depth = 0 /\ rs[0] = Idle
  /\ inTurn /\ ret = "none" => f.pc \notin {"idle", "task"}
  /\ depth = 0 => rs[1] = Idle
  /\ depth = 1 => rs[0].pc = "task"

LateOK ==
  /\ ~tripped => late = 0
  /\ tripped /\ f.pc \in Ready => late = 0 /\ pressedAt \in Ready
  /\ NoLateCall

Pending(r) == IF r.pc \in Attempted THEN 1 ELSE 0

OpenOK == ~latched => open = Pending(rs[0]) + Pending(rs[1])

(* pcs that a run may be at with the budget spent since its last check.    *)
Unchecked == {"idle", "top", "task", "pass", "result"}

BudgetOK == f.pc \notin Unchecked => ~BudgetExceeded

Carried(t) == {i \in 1..Len(history) : t \in history[i]}

TurnsOK ==
  /\ Len(outcomes) = IF inTurn THEN turn - 1 ELSE turn
  /\ unanswered \subseteq 1..Len(outcomes)
  /\ \A i \in 1..Len(history) : history[i] \subseteq 1..Len(outcomes)
  /\ \A t \in 1..Len(outcomes) :
       \/ /\ outcomes[t] \in {"answer", "notice"} /\ t \in unanswered /\ Carried(t) = {}
       \/ /\ outcomes[t] \in {"answer", "notice"} /\ t \notin unanswered
          /\ \E i \in 1..Len(history) : Carried(t) = {i}
       \/ /\ outcomes[t] \notin {"answer", "notice"} /\ t \notin unanswered /\ Carried(t) = {}

IInv == TypeOK /\ RunsOK /\ NestOK /\ LateOK /\ OpenOK /\ BudgetOK /\ TurnsOK
-----------------------------------------------------------------------------
LEMMA DepthsAre == Depths = {0, 1} /\ 0..maxTaskDepth = {0, 1}
  BY DEF Depths, maxTaskDepth

LEMMA IdleIsRun == /\ Idle \in RunState /\ NewRun \in RunState
                   /\ \A d \in Depths : RunOK(d, Idle) /\ RunOK(d, NewRun)
                   /\ Idle.pc = "idle" /\ NewRun.pc = "top"
<1> USE BudgetsAssumption
<1>1. NoReply \in [err : {FALSE}, text : BOOLEAN, calls : Seq(Tools), stop : StopReasons]
  BY DEF NoReply, StopReasons
<1>2. /\ 0 \in 0..(MaxIter + MaxSubagentIter) /\ 0 \in 0..(MaxEmpty - 1) /\ 0 \in 0..(MaxTruncated - 1)
      /\ 0 \in 0..3 /\ 0 \in Nat /\ <<>> \in Seq(Tools) /\ "top" \in Pcs /\ "idle" \in Pcs
  BY DEF Pcs
<1>3. NewRun \in RunState /\ Idle \in RunState /\ Idle.pc = "idle" /\ NewRun.pc = "top"
  BY <1>1, <1>2, Zenon DEF NewRun, Idle, RunState
<1>4. ASSUME NEW d \in Depths PROVE RunOK(d, Idle) /\ RunOK(d, NewRun)
  <2>1. maxIter(d) \in Nat
    BY DEF maxIter
  <2>2. 0 <= 0 * MaxEmpty + 0 /\ Len(<<>>) = 0
    OBVIOUS
  <2>3. QED
    BY <2>1, <2>2 DEF RunOK, Idle, NewRun, Settled, Attempted
<1>5. QED
  BY <1>3, <1>4

(* A run that executes: the turn is on, nothing has been returned. *)
LEMMA Executing ==
  ASSUME IInv, inTurn, f.pc \notin {"idle"}
  PROVE  /\ ret = "none" /\ depth \in Depths /\ f \in RunState /\ RunOK(depth, f)
         /\ rs \in [Depths -> RunState] /\ f.pc # "task"
<1>1. depth \in Depths /\ rs \in [Depths -> RunState]
  BY DEF IInv, TypeOK, Depths
<1>2. f \in RunState /\ RunOK(depth, f)
  BY <1>1 DEF IInv, RunsOK, f
<1>3. ret = "none"
  BY IdleIsRun DEF IInv, NestOK, f
<1>4. QED
  BY <1>1, <1>2, <1>3 DEF IInv, NestOK

(* What is left to show of a step that goes on as g, whatever the step.    *)
LEMMA Continues ==
  ASSUME IInv, inTurn, f.pc # "idle", NEW g \in RunState, RunOK(depth, g),
         g.pc \notin {"idle", "task"}, Continue(g),
         billed' \in 0..MaxTokens, latched' \in BOOLEAN, late' \in Nat, open' \in Nat,
         ~latched' => ~latched /\ open' = open + Pending(g) - Pending(f),
         g.pc \in Ready => ~tripped,
         late' = late \/ (f.pc \in Ready /\ late' = (IF tripped THEN late + 1 ELSE late)),
         g.pc \notin Unchecked => ~BudgetExceeded'
  PROVE  IInv'
<1> USE Executing, DepthsAre
<1>1. /\ rs' \in [Depths -> RunState] /\ depth' = depth /\ f' = g /\ ret' = "none" /\ inTurn'
      /\ rs'[depth] = g /\ \A d \in Depths : d # depth => rs'[d] = rs[d]
  BY DEF Continue, f, interrupter
<1>2. TypeOK'
  BY <1>1 DEF IInv, TypeOK, Continue, interrupter, session, Depths
<1>3. RunsOK'
  BY <1>1 DEF IInv, RunsOK
<1>4. NestOK'
  BY <1>1 DEF IInv, NestOK
<1>5. LateOK'
  BY <1>1 DEF IInv, LateOK, NoLateCall, Continue, interrupter, TypeOK
<1>6. OpenOK'
  <2>1. CASE depth = 0
    BY <1>1, <2>1 DEF IInv, OpenOK, Pending, f, TypeOK
  <2>2. CASE depth = 1
    BY <1>1, <2>2 DEF IInv, OpenOK, Pending, f, TypeOK
  <2>3. QED
    BY <2>1, <2>2
<1>7. BudgetOK'
  BY <1>1 DEF BudgetOK
<1>8. TurnsOK'
  BY <1>1 DEF IInv, TurnsOK, Carried, Continue, session, interrupter
<1>9. QED
  BY <1>2, <1>3, <1>4, <1>5, <1>6, <1>7, <1>8 DEF IInv

(* The same for a step that returns from the executing run. *)
LEMMA Returns ==
  ASSUME IInv, inTurn, f.pc # "idle", NEW k \in Verdicts, Return(k),
         billed' \in 0..MaxTokens, latched' \in BOOLEAN, late' = late, open' \in Nat,
         ~latched' => ~latched /\ k # "audit" /\ open' = open - Pending(f)
  PROVE  IInv'
<1> USE Executing, DepthsAre, IdleIsRun
<1>1. \/ depth' = 0 /\ ret' = k /\ rs' = [d \in Depths |-> Idle] /\ (depth = 0 \/ k = "audit")
      \/ /\ depth = 1 /\ depth' = 0 /\ ret' = "none" /\ k # "audit"
         /\ rs' \in [Depths -> RunState] /\ rs'[1] = Idle /\ rs'[0].pc = "result"
         /\ RunOK(0, rs'[0])
  <2>1. CASE depth = 0 \/ k = "audit"
    BY <2>1 DEF Return, Depths
  <2>2. CASE depth = 1 /\ k # "audit"
    <3>1. rs[0] \in RunState /\ RunOK(0, rs[0]) /\ rs[0].pc = "task"
      BY <2>2 DEF IInv, RunsOK, NestOK
    <3>2. PICK n \in {0, 1} : rs' = [rs EXCEPT ![0].pc = "result", ![0].credit = n, ![1] = Idle]
      BY <2>2 DEF Return, invokeScopedReturn
    <3>3. rs'[1] = Idle /\ rs'[0] = [[rs[0] EXCEPT !.pc = "result"] EXCEPT !.credit = n]
      BY <3>2
    <3>4. rs'[0] \in RunState /\ rs'[0].pc = "result" /\ RunOK(0, rs'[0])
      <4>1. "result" \in Pcs /\ n \in Nat
        BY DEF Pcs
      <4>2. rs'[0] \in RunState
        BY <3>1, <3>3, <4>1, ZenonT(60) DEF RunState
      <4>3. /\ rs'[0].pc = "result" /\ rs'[0].iter = rs[0].iter /\ rs'[0].calls = rs[0].calls
            /\ rs'[0].unpaired = rs[0].unpaired /\ rs'[0].futile = rs[0].futile
            /\ rs'[0].truncated = rs[0].truncated /\ rs'[0].empty = rs[0].empty
        BY <3>1, <3>3 DEF RunState
      <4>4. QED
        BY <3>1, <4>2, <4>3 DEF RunOK, Settled, Attempted
    <3>5. QED
      BY <2>2, <3>2, <3>3, <3>4 DEF Return, invokeScopedReturn
  <2>3. QED
    BY <2>1, <2>2
<1>2. /\ inTurn' /\ depth' = 0 /\ rs' \in [Depths -> RunState] /\ RunsOK' /\ rs'[1] = Idle
      /\ rs'[0].pc \in {"idle", "result"} /\ ret' \in Verdicts \cup {"none"}
      /\ f'.pc = rs'[0].pc /\ (ret' = "none" <=> rs'[0].pc = "result")
      /\ ret' # "none" => rs'[0] = Idle
  BY <1>1 DEF Return, interrupter, f, RunsOK, Verdicts, stopNotices
<1>3. TypeOK'
  BY <1>2 DEF IInv, TypeOK, Return, interrupter, session, Depths
<1>4. NestOK'
  BY <1>2 DEF NestOK
<1>5. LateOK'
  BY <1>2 DEF IInv, LateOK, NoLateCall, Ready, Return, interrupter
<1>6. OpenOK'
  <2>1. CASE depth = 0
    <3>1. rs[1].pc = "idle" /\ f = rs[0]
      BY <2>1 DEF IInv, NestOK, f
    <3>2. ~latched' => rs'[0].pc = "idle"
      BY <1>1, <2>1
    <3>3. QED
      BY <1>2, <2>1, <3>1, <3>2 DEF IInv, OpenOK, Pending, Attempted, TypeOK
  <2>2. CASE depth = 1
    <3>1. rs[0].pc = "task" /\ f = rs[1]
      BY <2>2 DEF IInv, NestOK, f
    <3>2. ~latched' => rs'[0].pc = "result"
      BY <1>1, <2>2
    <3>3. QED
      BY <1>2, <2>2, <3>1, <3>2 DEF IInv, OpenOK, Pending, Attempted, TypeOK
  <2>3. QED
    BY <2>1, <2>2
<1>7. BudgetOK'
  BY <1>2 DEF BudgetOK, Unchecked
<1>8. TurnsOK'
  BY <1>2 DEF IInv, TurnsOK, Carried, Return, session, interrupter
<1>9. QED
  BY <1>2, <1>3, <1>4, <1>5, <1>6, <1>7, <1>8 DEF IInv
-----------------------------------------------------------------------------
LEMMA InitEstablishes == Init => IInv
<1> SUFFICES ASSUME Init PROVE IInv
  OBVIOUS
<1> USE IdleIsRun, DepthsAre, BudgetsAssumption DEF Init
<1>1. rs \in [Depths -> RunState] /\ rs[0] = Idle /\ rs[1] = Idle /\ f = Idle
  BY DEF f, Depths
<1>2. TypeOK
  <2>1. billed \in 0..MaxTokens /\ depth \in 0..maxTaskDepth /\ turn \in 0..MaxTurns /\ late \in Nat /\ open \in Nat
    BY DEF maxTaskDepth
  <2>2. history \in Seq(SUBSET (1..MaxTurns)) /\ outcomes \in Seq(Verdicts)
    OBVIOUS
  <2>3. QED
    BY <1>1, <2>1, <2>2, Zenon DEF TypeOK, Depths
<1>3. RunsOK
  BY <1>1 DEF RunsOK
<1>4. NestOK /\ LateOK /\ OpenOK /\ BudgetOK
  BY <1>1 DEF NestOK, LateOK, NoLateCall, OpenOK, BudgetOK, Unchecked, Pending, Attempted
<1>5. TurnsOK
  BY DEF TurnsOK
<1>6. QED
  BY <1>2, <1>3, <1>4, <1>5 DEF IInv

LEMMA RunKeeps == ASSUME IInv, Run PROVE IInv'
<1> USE IdleIsRun, DepthsAre, BudgetsAssumption
<1>1. /\ rs' \in [Depths -> RunState] /\ rs'[0] = NewRun /\ rs'[1] = rs[1] /\ depth = 0 /\ depth' = 0
      /\ f' = NewRun /\ rs[0] = Idle /\ rs[1] = Idle /\ ret = "none" /\ ret' = "none" /\ inTurn' = TRUE
  BY DEF Run, IInv, TypeOK, NestOK, f, Depths
<1>2. TypeOK'
  <2>1. turn' \in 0..MaxTurns /\ late' \in Nat
    BY DEF Run, IInv, TypeOK
  <2>2. QED
    BY <1>1, <2>1, Zenon DEF Run, IInv, TypeOK, Depths
<1>3. RunsOK'
  BY <1>1 DEF RunsOK, IInv
<1>4. NestOK' /\ BudgetOK'
  BY <1>1 DEF NestOK, BudgetOK, Unchecked
<1>5. LateOK'
  BY <1>1 DEF Run, LateOK, NoLateCall, Ready
<1>6. OpenOK'
  BY <1>1 DEF Run, IInv, OpenOK, Pending, Attempted
<1>7. TurnsOK'
  BY DEF Run, IInv, TurnsOK, Carried, TypeOK
<1>8. QED
  BY <1>2, <1>3, <1>4, <1>5, <1>6, <1>7 DEF IInv

LEMMA TripKeeps == ASSUME IInv, Trip PROVE IInv'
<1> USE DEF Trip, session
<1>1. f' = f /\ f \in RunState
  BY DEF f, IInv, TypeOK
<1>2. TypeOK'
  BY <1>1 DEF IInv, TypeOK, RunState
<1>3. RunsOK' /\ NestOK'
  BY <1>1 DEF IInv, RunsOK, NestOK
<1>4. LateOK'
  BY <1>1 DEF IInv, LateOK, NoLateCall, TypeOK
<1>5. OpenOK' /\ BudgetOK' /\ TurnsOK'
  BY <1>1 DEF IInv, OpenOK, BudgetOK, BudgetExceeded, TurnsOK, Carried
<1>6. QED
  BY <1>2, <1>3, <1>4, <1>5 DEF IInv

(* The end of a turn puts its task on record: answered, kept aside, or     *)
(* neither.                                                                *)
LEMMA EndTurnRecords == ASSUME IInv, EndTurn PROVE TurnsOK'
<1> DEFINE n == Len(outcomes)
           m == Len(history)
           U == unanswered \cup {turn}
<1> USE DEF IInv
<1>1. /\ n \in Nat /\ m \in Nat /\ turn = n + 1 /\ ~inTurn' /\ turn' = turn
      /\ history \in Seq(SUBSET (1..MaxTurns)) /\ outcomes \in Seq(Verdicts) /\ ret \in Verdicts
      /\ unanswered \subseteq 1..n /\ turn \in 1..MaxTurns /\ 1..n \subseteq 1..(n + 1)
  BY DEF TypeOK, EndTurn, TurnsOK
<1>2. /\ outcomes' = Append(outcomes, ret) /\ Len(outcomes') = n + 1 /\ outcomes'[n + 1] = ret
      /\ \A t \in 1..n : outcomes'[t] = outcomes[t]
  BY <1>1 DEF EndTurn
<1>3. CASE ret = "answer"
  <2>1. /\ Len(history') = m + 1 /\ history'[m + 1] = U /\ unanswered' = {}
        /\ \A i \in 1..m : history'[i] = history[i]
    <3>1. U \in SUBSET (1..MaxTurns) /\ history' = Append(history, U) /\ unanswered' = {}
      BY <1>1, <1>3 DEF EndTurn, withUnanswered, keepUnanswered, TypeOK
    <3>2. QED
      BY <1>1, <3>1, AppendProperties
  <2>2. \A t : Carried(t)' = IF t \in U THEN Carried(t) \cup {m + 1} ELSE Carried(t)
    BY <1>1, <2>1 DEF Carried
  <2>3. ASSUME NEW i \in 1..Len(history') PROVE history'[i] \subseteq 1..Len(outcomes')
    <3>1. CASE i \in 1..m
      BY <1>1, <1>2, <2>1, <3>1 DEF TurnsOK
    <3>2. CASE i = m + 1
      BY <1>1, <1>2, <2>1, <3>2, turn \in 1..(n + 1), U \subseteq 1..(n + 1)
    <3>3. QED
      BY <1>1, <2>1, <3>1, <3>2
  <2>4. ASSUME NEW t \in 1..n PROVE
          \/ /\ outcomes'[t] \in {"answer", "notice"} /\ \E i \in 1..Len(history') : Carried(t)' = {i}
          \/ /\ outcomes'[t] \notin {"answer", "notice"} /\ Carried(t)' = {}
    <3>1. CASE t \in unanswered
      <4>1. Carried(t)' = {m + 1} /\ m + 1 \in 1..Len(history') /\ outcomes'[t] \in {"answer", "notice"}
        BY <1>1, <1>2, <2>1, <2>2, <3>1 DEF TurnsOK
      <4>2. QED
        BY <4>1
    <3>2. CASE t \notin unanswered
      <4>1. Carried(t)' = Carried(t) /\ 1..m \subseteq 1..Len(history')
        BY <1>1, <2>1, <2>2, <3>2
      <4>2. QED
        BY <1>2, <3>2, <4>1 DEF TurnsOK
    <3>3. QED
      BY <3>1, <3>2
  <2>5. ASSUME NEW t, t = n + 1 PROVE Carried(t)' = {m + 1}
    <3>1. t \in U /\ t \notin 1..n
      BY <1>1, <2>5
    <3>2. Carried(t) = {}
      BY <3>1 DEF TurnsOK, Carried
    <3>3. QED
      BY <2>2, <3>1, <3>2
  <2>6. ASSUME NEW t \in 1..Len(outcomes') PROVE
          \/ /\ outcomes'[t] \in {"answer", "notice"} /\ \E i \in 1..Len(history') : Carried(t)' = {i}
          \/ /\ outcomes'[t] \notin {"answer", "notice"} /\ Carried(t)' = {}
    <3>1. CASE t \in 1..n
      BY <2>4, <3>1
    <3>2. CASE t = n + 1
      BY <1>2, <1>3, <2>1, <2>5, <3>2, <1>1, SMTT(30)
    <3>3. QED
      BY <1>1, <1>2, <3>1, <3>2
  <2>7. QED
    BY <1>1, <1>2, <2>1, <2>3, <2>6 DEF TurnsOK
<1>4. CASE ret # "answer"
  <2>1. history' = history /\ unanswered' = IF ret = "notice" THEN U ELSE unanswered
    BY <1>4 DEF EndTurn, keepUnanswered
  <2>2. \A t : Carried(t)' = Carried(t)
    BY <2>1 DEF Carried
  <2>3. \A t : t = n + 1 => Carried(t) = {}
    BY <1>1 DEF TurnsOK, Carried
  <2>4. unanswered' \subseteq 1..Len(outcomes')
    BY <1>1, <1>2, <2>1, turn \in 1..(n + 1)
  <2>5. \A i \in 1..Len(history') : history'[i] \subseteq 1..Len(outcomes')
    BY <1>1, <1>2, <2>1 DEF TurnsOK
  <2>6. ASSUME NEW t \in 1..Len(outcomes') PROVE
          \/ /\ outcomes'[t] \in {"answer", "notice"} /\ t \in unanswered' /\ Carried(t)' = {}
          \/ /\ outcomes'[t] \in {"answer", "notice"} /\ t \notin unanswered'
             /\ \E i \in 1..Len(history') : Carried(t)' = {i}
          \/ /\ outcomes'[t] \notin {"answer", "notice"} /\ t \notin unanswered' /\ Carried(t)' = {}
    <3>1. CASE t \in 1..n
      BY <1>1, <1>2, <2>1, <2>2, <3>1 DEF TurnsOK
    <3>2. CASE t = n + 1
      BY <1>1, <1>2, <1>4, <2>1, <2>2, <2>3, <3>2
    <3>3. QED
      BY <1>1, <1>2, <3>1, <3>2
  <2>7. QED
    BY <1>1, <1>2, <2>4, <2>5, <2>6 DEF TurnsOK
<1>5. QED
  BY <1>3, <1>4

LEMMA EndTurnKeeps == ASSUME IInv, EndTurn PROVE IInv'
<1> USE DEF IInv
<1>1. f' = f /\ depth = 0 /\ rs[0] = Idle /\ ret' = "none" /\ ~inTurn'
  BY DEF f, EndTurn, NestOK
<1>2. TypeOK'
  <2>1. turn \in 1..MaxTurns /\ ret \in Verdicts
    BY DEF TypeOK, EndTurn, TurnsOK
  <2>2. history' \in Seq(SUBSET (1..MaxTurns)) /\ unanswered' \in SUBSET (1..MaxTurns)
    BY <2>1 DEF TypeOK, EndTurn, withUnanswered, keepUnanswered
  <2>3. outcomes' \in Seq(Verdicts)
    BY <2>1 DEF TypeOK, EndTurn
  <2>4. QED
    BY <1>1, <2>2, <2>3, Zenon DEF TypeOK, EndTurn
<1>3. RunsOK' /\ OpenOK' /\ BudgetOK'
  BY <1>1 DEF EndTurn, RunsOK, OpenOK, BudgetOK, BudgetExceeded
<1>4. NestOK'
  BY <1>1 DEF EndTurn, NestOK
<1>5. LateOK'
  BY <1>1 DEF EndTurn, LateOK, NoLateCall
<1>6. QED
  BY <1>2, <1>3, <1>4, <1>5, EndTurnRecords
-----------------------------------------------------------------------------
(* The ways a run's state is updated: a move to another pc, and the count  *)
(* of futile turns, which the two retry counters bound.                    *)
LEMMA Moved ==
  ASSUME NEW r \in RunState, NEW pc \in Pcs
  PROVE  /\ [r EXCEPT !.pc = pc] \in RunState /\ [r EXCEPT !.pc = pc].pc = pc
         /\ \A d : /\ RunOK(d, r)
                   /\ pc \in Settled => r.calls = <<>>
                   /\ pc \in Attempted \cup {"dispatch"} => r.calls # <<>>
                   /\ pc \in {"pass", "passing", "verifying"} => r.pass \in 1..3
                   /\ pc \in {"passing", "verifying"} => r.pass <= 2
                   => RunOK(d, [r EXCEPT !.pc = pc])
<1> DEFINE g == [r EXCEPT !.pc = pc]
<1>1. /\ g \in RunState /\ g.pc = pc /\ g.iter = r.iter /\ g.calls = r.calls /\ g.pass = r.pass
      /\ g.unpaired = r.unpaired /\ g.futile = r.futile /\ g.truncated = r.truncated /\ g.empty = r.empty
  BY DEF RunState
<1>2. QED
  BY <1>1 DEF RunOK

LEMMA FutileStep ==
  ASSUME NEW x \in Nat, NEW t \in Nat, NEW M \in Nat, NEW e \in 0..(M - 1), x <= t * M + e
  PROVE  x + 1 <= (t + 1) * M + 0
<1>1. (t + 1) * M = t * M + M /\ t * M \in Nat
  OBVIOUS
<1>2. QED
  BY <1>1

LEMMA UsageBounded ==
  ASSUME TypeOK, NEW u \in 0..MaxUsage PROVE AddUsage(u) \in 0..MaxTokens
  BY BudgetsAssumption DEF AddUsage, TypeOK

(* A step within a run leaves tokens, records and calls alone. *)
quiet == UNCHANGED <<billed, latched, late, open>>

LEMMA QuietContinue ==
  ASSUME IInv, inTurn, f.pc # "idle", NEW g \in RunState, RunOK(depth, g),
         g.pc \notin {"idle", "task"}, Continue(g), quiet,
         Pending(g) = Pending(f), g.pc \in Ready => ~tripped,
         g.pc \notin Unchecked => ~BudgetExceeded
  PROVE  IInv'
<1>1. billed' \in 0..MaxTokens /\ latched' \in BOOLEAN /\ late' = late /\ open' = open /\ open \in Nat /\ late' \in Nat
      /\ Pending(g) \in Nat
  BY DEF IInv, TypeOK, quiet, Pending
<1>2. ~latched' => ~latched /\ open' = open + Pending(g) - Pending(f)
  BY <1>1 DEF quiet
<1>3. g.pc \notin Unchecked => ~BudgetExceeded'
  BY DEF quiet, BudgetExceeded
<1>4. QED
  BY <1>1, <1>2, <1>3, Continues

LEMMA QuietReturn ==
  ASSUME IInv, inTurn, f.pc \notin {"idle"} \cup Attempted, NEW k \in Verdicts, k # "audit", Return(k), quiet
  PROVE  IInv'
<1>1. billed' \in 0..MaxTokens /\ latched' \in BOOLEAN /\ late' = late /\ open' = open /\ open \in Nat /\ Pending(f) = 0
  BY DEF IInv, TypeOK, quiet, Pending
<1>2. ~latched' => ~latched /\ k # "audit" /\ open' = open - Pending(f)
  BY <1>1 DEF quiet
<1>3. QED
  BY <1>1, <1>2, Returns

LEMMA IterateKeeps == ASSUME IInv, Iterate PROVE IInv'
<1> DEFINE halt == haltOr(IF f.iter = maxIter(depth) THEN "iterations" ELSE "none")
           g == [f EXCEPT !.pc = "calling", !.iter = @ + 1]
<1>1. inTurn /\ f.pc = "top" /\ quiet
  BY DEF Iterate, At, quiet
<1>2. f \in RunState /\ RunOK(depth, f) /\ depth \in Depths
  BY <1>1, Executing
<1>3. CASE halt # "none" /\ Return(halt)
  <2>1. halt \in Verdicts /\ halt # "audit"
    BY <1>3 DEF haltOr, Verdicts, stopNotices
  <2>2. QED
    BY <1>1, <1>3, <2>1, QuietReturn DEF Attempted
<1>4. CASE halt = "none" /\ Continue(g)
  <2>1. f.iter # maxIter(depth) /\ ~tripped /\ ~BudgetExceeded
    BY <1>4 DEF haltOr
  <2>2. f.iter + 1 <= maxIter(depth) /\ f.iter + 1 \in 0..(MaxIter + MaxSubagentIter)
    <3>1. f.iter \in 0..(MaxIter + MaxSubagentIter)
      BY <1>2 DEF RunState
    <3>2. maxIter(depth) \in Nat /\ maxIter(depth) <= MaxIter + MaxSubagentIter
      BY BudgetsAssumption DEF maxIter
    <3>3. f.iter <= maxIter(depth)
      BY <1>2 DEF RunOK
    <3>4. QED
      BY <2>1, <3>1, <3>2, <3>3, BudgetsAssumption
  <2>3. /\ g \in RunState /\ g.pc = "calling" /\ g.iter = f.iter + 1 /\ g.calls = f.calls
        /\ g.unpaired = f.unpaired /\ g.futile = f.futile /\ g.truncated = f.truncated /\ g.empty = f.empty
    BY <1>2, <2>2, "calling" \in Pcs DEF RunState, Pcs, Ready
  <2>4. RunOK(depth, g) /\ Pending(g) = Pending(f)
    BY <1>1, <1>2, <2>2, <2>3 DEF RunOK, Settled, Attempted, Pending
  <2> HIDE DEF g
  <2>5. QED
    BY <1>1, <1>4, <2>1, <2>3, <2>4, QuietContinue
<1>5. QED
  BY <1>3, <1>4 DEF Iterate

LEMMA LaunchKeeps == ASSUME IInv, Launch PROVE IInv'
<1> DEFINE g == [f EXCEPT !.pc = Launched(f.pc)]
<1>1. /\ inTurn /\ f.pc \in Ready /\ f.pc # "idle" /\ Continue(g) /\ UNCHANGED <<billed, latched, open>>
      /\ late' = IF tripped THEN late + 1 ELSE late
  BY DEF Launch, Goto, Ready
<1>2. f \in RunState /\ RunOK(depth, f)
  BY <1>1, Executing
<1>3. /\ Launched(f.pc) \in InFlight /\ Launched(f.pc) \in Pcs /\ Launched(f.pc) \notin Ready
      /\ f.pc = "calling" => Launched(f.pc) = "generating"
      /\ f.pc = "armed" => Launched(f.pc) = "running"
      /\ f.pc = "passing" => Launched(f.pc) = "verifying"
      /\ f.pc = "concluding" => Launched(f.pc) = "summarizing"
      /\ f.pc \in {"calling", "armed", "passing", "concluding"}
  BY <1>1 DEF Launched, InFlight, Ready, Pcs
<1>4. g \in RunState /\ g.pc = Launched(f.pc) /\ RunOK(depth, g)
  BY <1>2, <1>3, Moved DEF RunOK, Settled, Attempted
<1>5. Pending(g) = Pending(f) /\ Pending(f) \in Nat
  BY <1>3, <1>4 DEF Pending, Attempted
<1>6. ~BudgetExceeded'
  BY <1>1, <1>3 DEF IInv, BudgetOK, Unchecked, BudgetExceeded
<1>7. /\ billed' \in 0..MaxTokens /\ latched' \in BOOLEAN /\ late' \in Nat /\ open' \in Nat
      /\ ~latched' => ~latched /\ open' = open + Pending(g) - Pending(f)
  BY <1>1, <1>5 DEF IInv, TypeOK
<1>8. g.pc \notin {"idle", "task"} /\ g.pc \notin Ready
  BY <1>3, <1>4 DEF InFlight
<1> HIDE DEF g
<1>9. QED
  BY <1>1, <1>4, <1>6, <1>7, <1>8, Continues

LEMMA GeneratedKeeps ==
  ASSUME IInv, NEW r \in Replies \cup {Failure}, NEW u \in 0..MaxUsage, Generated(r, u) PROVE IInv'
<1> DEFINE g == [f EXCEPT !.pc = "accept", !.reply = r]
<1>1. inTurn /\ f.pc = "generating" /\ UNCHANGED <<tripped, latched, late, open>> /\ billed' = AddUsage(u)
  BY DEF Generated, At
<1>2. f \in RunState /\ RunOK(depth, f)
  BY <1>1, Executing
<1>3. /\ billed' \in 0..MaxTokens /\ latched' \in BOOLEAN /\ late' = late /\ late' \in Nat /\ open' \in Nat
      /\ open' = open /\ open \in Nat /\ Pending(f) = 0
  BY <1>1, UsageBounded DEF IInv, TypeOK, Pending, Attempted
<1>4. ASSUME NEW k \in Verdicts \ {"audit"}, Return(k) PROVE IInv'
  <2>1. ~latched' => ~latched /\ k # "audit" /\ open' = open - Pending(f)
    BY <1>1, <1>3
  <2>2. QED
    BY <1>1, <1>3, <1>4, <2>1, Returns
<1>5. CASE haltErr' # "none" /\ Return(haltErr')
  <2>1. haltErr' \in Verdicts \ {"audit"}
    BY <1>5 DEF haltErr, haltOr, Verdicts, stopNotices
  <2>2. QED
    BY <1>4, <1>5, <2>1
<1>6. CASE Return("model")
  BY <1>4, <1>6, "model" \in Verdicts \ {"audit"} DEF Verdicts
<1>7. CASE haltErr' = "none" /\ ~r.err /\ Continue(g)
  <2>1. r \in [err : {FALSE}, text : BOOLEAN, calls : Seq(Tools), stop : StopReasons]
    <3>1. r \in Replies
      BY <1>7 DEF Failure
    <3>2. \A b \in Batches : b \in Seq(Tools)
      BY BudgetsAssumption DEF Batches
    <3>3. QED
      BY <3>1, <3>2 DEF Replies
  <2>2. /\ g \in RunState /\ g.pc = "accept" /\ g.iter = f.iter /\ g.calls = f.calls
        /\ g.unpaired = f.unpaired /\ g.futile = f.futile /\ g.truncated = f.truncated /\ g.empty = f.empty
    BY <1>2, <2>1, "accept" \in Pcs DEF RunState, Pcs
  <2>3. RunOK(depth, g) /\ Pending(g) = 0
    BY <1>1, <1>2, <2>2 DEF RunOK, Settled, Attempted, Pending
  <2>4. ~BudgetExceeded' /\ g.pc \notin Ready /\ g.pc \notin {"idle", "task"}
    BY <1>7, <2>2 DEF haltErr, haltOr, Ready
  <2>5. ~latched' => ~latched /\ open' = open + Pending(g) - Pending(f)
    BY <1>1, <1>3, <2>3
  <2> HIDE DEF g
  <2>6. QED
    BY <1>1, <1>3, <1>7, <2>2, <2>3, <2>4, <2>5, Continues
<1>8. QED
  BY <1>5, <1>6, <1>7 DEF Generated

(* A blank turn and a turn of truncated calls are retried below their      *)
(* ceilings; a usable turn starts both counters afresh.                    *)
LEMMA AcceptKeeps == ASSUME IInv, acceptTurn PROVE IInv'
<1>1. inTurn /\ f.pc = "accept" /\ quiet
  BY DEF acceptTurn, At, quiet
<1>2. f \in RunState /\ RunOK(depth, f) /\ f.calls = <<>> /\ f.unpaired = 0
  <2>1. f \in RunState /\ RunOK(depth, f)
    BY <1>1, Executing
  <2>2. QED
    BY <1>1, <2>1 DEF RunOK, Settled
<1>3. ~BudgetExceeded
  BY <1>1 DEF IInv, BudgetOK, Unchecked
<1>4. ASSUME NEW k \in Verdicts \ {"audit"}, Return(haltOr(k)) PROVE IInv'
  <2>1. haltOr(k) \in Verdicts /\ haltOr(k) # "audit"
    BY DEF haltOr, Verdicts, stopNotices
  <2>2. QED
    BY <1>1, <1>4, <2>1, QuietReturn DEF Attempted
<1>5. ASSUME NEW g \in RunState, Continue(g), RunOK(depth, g), g.pc \in {"top", "rendered", "dispatch"}
      PROVE  IInv'
  <2>1. Pending(g) = Pending(f) /\ g.pc \notin Ready /\ g.pc \notin {"idle", "task"}
    BY <1>1, <1>5 DEF Pending, Attempted, Ready
  <2>2. QED
    BY <1>1, <1>3, <1>5, <2>1, QuietContinue
<1>6. NoReply \in [err : {FALSE}, text : BOOLEAN, calls : Seq(Tools), stop : StopReasons]
  BY DEF NoReply, StopReasons
<1>7. /\ f.futile \in Nat /\ f.empty \in 0..(MaxEmpty - 1) /\ f.truncated \in 0..(MaxTruncated - 1)
      /\ f.futile <= f.truncated * MaxEmpty + f.empty /\ MaxEmpty \in Nat \ {0} /\ MaxTruncated \in Nat \ {0}
      /\ f.reply \in [err : {FALSE}, text : BOOLEAN, calls : Seq(Tools), stop : StopReasons]
  BY <1>2, BudgetsAssumption DEF RunState, RunOK
<1>8. CASE handleBlankTurn
  <2> DEFINE g == retryBlank(f)
  <2>1. ASSUME f.empty + 1 < MaxEmpty, Continue(g) PROVE IInv'
    <3>1. f.empty + 1 \in 0..(MaxEmpty - 1) /\ f.futile + 1 \in Nat
      BY <1>7, <2>1, SMTT(30)
    <3>2. /\ g \in RunState /\ g.pc = "top" /\ g.iter = f.iter /\ g.calls = f.calls /\ g.unpaired = f.unpaired
          /\ g.futile = f.futile + 1 /\ g.truncated = f.truncated /\ g.empty = f.empty + 1
      BY <1>2, <1>6, <3>1, "top" \in Pcs, ZenonT(60) DEF RunState, retryBlank, Pcs
    <3>3. f.futile + 1 <= f.truncated * MaxEmpty + (f.empty + 1)
      <4>1. f.truncated * MaxEmpty \in Nat
        BY <1>7
      <4>2. QED
        BY <1>7, <4>1, SMTT(30)
    <3>4. RunOK(depth, g)
      BY <1>2, <3>2, <3>3 DEF RunOK, Settled, Attempted
    <3> HIDE DEF g
    <3>5. QED
      BY <1>5, <2>1, <3>2, <3>4
  <2>2. futileStop(f.reply.stop) # "none" => futileStop(f.reply.stop) \in Verdicts \ {"audit"}
    BY DEF futileStop, Verdicts, stopNotices
  <2>3. "empty" \in Verdicts \ {"audit"}
    BY DEF Verdicts, stopNotices
  <2>4. QED
    BY <1>4, <1>8, <2>1, <2>2, <2>3 DEF handleBlankTurn
<1>9. CASE refuseTruncatedCalls
  <2> DEFINE g == [f EXCEPT !.pc = "top", !.empty = 0, !.truncated = @ + 1, !.futile = @ + 1, !.reply = NoReply]
  <2>1. ASSUME f.truncated + 1 < MaxTruncated, Continue(g) PROVE IInv'
    <3>1. f.truncated + 1 \in 0..(MaxTruncated - 1) /\ f.futile + 1 \in Nat /\ 0 \in 0..(MaxEmpty - 1)
      BY <1>7, <2>1, SMTT(30)
    <3>2. /\ g \in RunState /\ g.pc = "top" /\ g.iter = f.iter /\ g.calls = f.calls /\ g.unpaired = f.unpaired
          /\ g.futile = f.futile + 1 /\ g.truncated = f.truncated + 1 /\ g.empty = 0
      <4>1. "top" \in Pcs
        BY DEF Pcs
      <4>2. g \in RunState
        BY <1>2, <1>6, <3>1, <4>1 DEF RunState
      <4>3. QED
        BY <1>2, <4>2 DEF RunState
    <3>3. f.futile + 1 <= (f.truncated + 1) * MaxEmpty + 0
      BY <1>7, FutileStep, SMTT(30)
    <3>4. RunOK(depth, g)
      BY <1>2, <3>2, <3>3 DEF RunOK, Settled, Attempted
    <3> HIDE DEF g
    <3>5. QED
      BY <1>5, <2>1, <3>2, <3>4
  <2>2. "output" \in Verdicts \ {"audit"}
    BY DEF Verdicts, stopNotices
  <2>3. QED
    BY <1>4, <1>9, <2>1, <2>2 DEF refuseTruncatedCalls
<1>10. CASE useTurn
  <2> DEFINE pc == IF f.reply.calls = <<>> THEN "rendered" ELSE "dispatch"
             g == [f EXCEPT !.pc = pc, !.empty = 0, !.truncated = 0, !.futile = 0,
                            !.calls = f.reply.calls, !.unpaired = @ + Len(f.reply.calls), !.reply = NoReply]
  <2>1. /\ f.reply.calls \in Seq(Tools) /\ Len(f.reply.calls) \in Nat /\ pc \in Pcs
        /\ f.unpaired + Len(f.reply.calls) = Len(f.reply.calls)
        /\ 0 \in 0..(MaxEmpty - 1) /\ 0 \in 0..(MaxTruncated - 1)
    <3>1. f.reply.calls \in Seq(Tools) /\ pc \in Pcs
      BY <1>7 DEF Pcs
    <3>2. QED
      BY <1>2, <1>7, <3>1, LenProperties
  <2>2. /\ g \in RunState /\ g.pc = pc /\ g.iter = f.iter /\ g.calls = f.reply.calls
        /\ g.unpaired = Len(f.reply.calls) /\ g.futile = 0 /\ g.truncated = 0 /\ g.empty = 0
    <3>1. f.unpaired + Len(f.reply.calls) \in Nat
      BY <2>1
    <3>2. g \in RunState
      BY <1>2, <1>6, <2>1, <3>1, ZenonT(60) DEF RunState
    <3>3. QED
      BY <1>2, <2>1, <3>2, ZenonT(60) DEF RunState
  <2>3. 0 <= 0 * MaxEmpty + 0
    BY <1>7
  <2>4. RunOK(depth, g)
    BY <1>2, <2>2, <2>3 DEF RunOK, Settled, Attempted
  <2>5. Continue(g)
    BY <1>10 DEF useTurn
  <2>6. g.pc \in {"top", "rendered", "dispatch"}
    BY <2>2
  <2> HIDE DEF g
  <2>7. QED
    BY <1>5, <2>2, <2>4, <2>5, <2>6
<1>11. QED
  BY <1>8, <1>9, <1>10 DEF acceptTurn

LEMMA AnswerKeeps == ASSUME IInv, Answer PROVE IInv'
<1>1. inTurn /\ f.pc = "rendered" /\ quiet
  BY DEF Answer, At, quiet
<1>2. haltOr("answer") \in Verdicts /\ haltOr("answer") # "audit"
  BY DEF haltOr, Verdicts, stopNotices
<1>3. QED
  BY <1>1, <1>2, QuietReturn DEF Answer, Attempted
-----------------------------------------------------------------------------
(* Dispatch of a call: its attempt record, the call, its result record.    *)
LEMMA LogFailsKeeps ==
  ASSUME IInv, inTurn, f.pc # "idle", LogFails, UNCHANGED <<billed, late>> PROVE IInv'
<1>1. /\ billed' \in 0..MaxTokens /\ latched' \in BOOLEAN /\ late' = late /\ open' \in Nat /\ latched'
      /\ Return("audit") /\ "audit" \in Verdicts
  BY DEF IInv, TypeOK, LogFails, Verdicts
<1>2. QED
  BY <1>1, Returns

LEMMA AttemptKeeps == ASSUME IInv, Attempt PROVE IInv'
<1> DEFINE g == [f EXCEPT !.pc = "invoke"]
<1>1. inTurn /\ f.pc = "dispatch" /\ UNCHANGED <<billed, late>>
  BY DEF Attempt, At
<1>2. CASE LogFails
  BY <1>1, <1>2, LogFailsKeeps
<1>3. CASE Logged /\ open' = open + 1 /\ Goto("invoke")
  <2>1. f \in RunState /\ RunOK(depth, f) /\ "invoke" \in Pcs
    BY <1>1, Executing DEF Pcs
  <2>2. g \in RunState /\ g.pc = "invoke" /\ RunOK(depth, g)
    BY <1>1, <2>1, Moved DEF RunOK, Settled, Attempted
  <2>3. /\ billed' \in 0..MaxTokens /\ latched' \in BOOLEAN /\ late' = late /\ late' \in Nat /\ open' \in Nat
        /\ ~latched' => ~latched /\ open' = open + Pending(g) - Pending(f)
    BY <1>1, <1>3, <2>2 DEF IInv, TypeOK, Logged, Pending, Attempted
  <2>4. ~BudgetExceeded' /\ Continue(g)
    BY <1>1, <1>3 DEF IInv, BudgetOK, Unchecked, BudgetExceeded, Goto
  <2>5. g.pc \notin Ready /\ g.pc \notin {"idle", "task"}
    BY <2>2 DEF Ready
  <2> HIDE DEF g
  <2>6. QED
    BY <1>1, <2>2, <2>3, <2>4, <2>5, Continues
<1>4. QED
  BY <1>2, <1>3 DEF Attempt

LEMMA ResultKeeps ==
  ASSUME IInv, inTurn, f.pc \in Attempted, NEW n \in Nat, Result(n), quiet PROVE IInv'
<1> DEFINE g == [f EXCEPT !.pc = "result", !.credit = n]
<1>1. f.pc # "idle" /\ f \in RunState /\ RunOK(depth, f) /\ "result" \in Pcs
  BY Executing DEF Attempted, Pcs
<1>2. /\ g \in RunState /\ g.pc = "result" /\ g.iter = f.iter /\ g.calls = f.calls
      /\ g.unpaired = f.unpaired /\ g.futile = f.futile /\ g.truncated = f.truncated /\ g.empty = f.empty
  BY <1>1 DEF RunState
<1>3. RunOK(depth, g) /\ Pending(g) = Pending(f)
  BY <1>1, <1>2 DEF RunOK, Settled, Attempted, Pending
<1>4. g.pc \notin Ready /\ g.pc \in Unchecked /\ g.pc \notin {"idle", "task"}
  BY <1>2 DEF Ready, Unchecked
<1>5. Continue(g)
  BY DEF Result
<1> HIDE DEF g
<1>6. QED
  BY <1>1, <1>2, <1>3, <1>4, <1>5, QuietContinue

(* A task starts a run of its own below; the attempt stays open meanwhile. *)
LEMMA TaskKeeps ==
  ASSUME IInv, inTurn, f.pc = "invoke", runTask, ~Result(0), quiet PROVE IInv'
<1> USE DepthsAre, IdleIsRun
<1> DEFINE g == [f EXCEPT !.pc = "task"]
<1>1. depth \in Depths /\ f \in RunState /\ RunOK(depth, f) /\ ret = "none" /\ "task" \in Pcs /\ rs \in [Depths -> RunState]
  BY Executing DEF Pcs
<1>2. depth = 0 /\ depth' = 1 /\ ret' = "none" /\ inTurn' /\ rs' = [rs EXCEPT ![depth].pc = "task", ![depth + 1] = NewRun]
  <2>1. /\ depth < 1 /\ depth' = depth + 1 /\ rs' = [rs EXCEPT ![depth].pc = "task", ![depth + 1] = NewRun]
        /\ ret' = ret /\ inTurn' = inTurn
    BY Zenon DEF runTask, maxTaskDepth, interrupter
  <2>2. depth = 0
    BY <1>1, <2>1
  <2>3. QED
    BY <1>1, <2>1, <2>2
<1>3. /\ rs[1] = Idle /\ f = rs[0] /\ rs'[0] = g /\ rs'[1] = NewRun /\ f' = NewRun
      /\ DOMAIN rs' = Depths /\ rs' \in [Depths -> {g, NewRun}]
  BY <1>1, <1>2 DEF IInv, NestOK, f
<1>4. g \in RunState /\ g.pc = "task" /\ RunOK(0, g)
  BY <1>1, <1>2, Moved DEF RunOK, Settled, Attempted
<1>5. rs' \in [Depths -> RunState] /\ RunsOK'
  BY <1>3, <1>4 DEF RunsOK
<1> HIDE DEF g
<1>6. TypeOK'
  <2>1. depth' \in 0..maxTaskDepth
    BY <1>2
  <2>2. QED
    BY <1>2, <1>5, <2>1, Zenon DEF IInv, TypeOK, runTask, Result, Continue, interrupter, session, quiet, Depths
<1>7. NestOK'
  BY <1>2, <1>3, <1>4 DEF NestOK
<1>8. LateOK'
  BY <1>2, <1>3 DEF IInv, LateOK, NoLateCall, runTask, interrupter, quiet, Ready
<1>9. OpenOK'
  BY <1>3, <1>4 DEF IInv, OpenOK, Pending, Attempted, quiet
<1>10. BudgetOK'
  BY <1>3 DEF BudgetOK, Unchecked
<1>11. TurnsOK'
  BY <1>2 DEF IInv, TurnsOK, Carried, runTask, session, interrupter
<1>12. QED
  BY <1>5, <1>6, <1>7, <1>8, <1>9, <1>10, <1>11 DEF IInv

LEMMA InvokeKeeps == ASSUME IInv, Invoke PROVE IInv'
<1> DEFINE pass == [f EXCEPT !.pc = "pass", !.pass = 1]
           armed == [f EXCEPT !.pc = "armed"]
<1>1. inTurn /\ f.pc = "invoke" /\ quiet /\ f.pc \in Attempted
  BY DEF Invoke, At, quiet, Attempted
<1>2. f \in RunState /\ RunOK(depth, f) /\ "pass" \in Pcs /\ "armed" \in Pcs
  BY <1>1, Executing DEF Pcs, Ready
<1>3. ~BudgetExceeded
  BY <1>1 DEF IInv, BudgetOK, Unchecked
<1>4. ASSUME Result(0) \/ Result(1) PROVE IInv'
  BY <1>1, <1>4, ResultKeeps
<1>5. CASE runTask
  BY <1>1, <1>4, <1>5, TaskKeeps
<1>6. CASE Continue(pass)
  <2>1. /\ pass \in RunState /\ pass.pc = "pass" /\ pass.iter = f.iter /\ pass.calls = f.calls /\ pass.pass = 1
        /\ pass.unpaired = f.unpaired /\ pass.futile = f.futile /\ pass.truncated = f.truncated /\ pass.empty = f.empty
    <3>1. 1 \in 0..3
      OBVIOUS
    <3>2. pass \in RunState
      BY <1>2, <3>1 DEF RunState
    <3>3. QED
      BY <1>2, <3>2 DEF RunState
  <2>2. RunOK(depth, pass) /\ Pending(pass) = Pending(f)
    BY <1>1, <1>2, <2>1 DEF RunOK, Settled, Attempted, Pending
  <2>3. pass.pc \notin Ready /\ pass.pc \notin {"idle", "task"}
    BY <2>1 DEF Ready
  <2> HIDE DEF pass
  <2>4. QED
    BY <1>1, <1>3, <1>6, <2>1, <2>2, <2>3, QuietContinue
<1>7. CASE ~tripped /\ Goto("armed")
  <2>1. armed \in RunState /\ armed.pc = "armed" /\ RunOK(depth, armed)
    BY <1>1, <1>2, Moved DEF RunOK, Settled, Attempted
  <2>2. Pending(armed) = Pending(f) /\ Continue(armed) /\ armed.pc \notin {"idle", "task"}
    BY <1>1, <1>7, <2>1 DEF Pending, Attempted, Goto
  <2> HIDE DEF armed
  <2>3. QED
    BY <1>1, <1>3, <1>7, <2>1, <2>2, QuietContinue
<1>8. QED
  BY <1>4, <1>5, <1>6, <1>7 DEF Invoke, runVerify, invokeIO

LEMMA IOReturnedKeeps == ASSUME IInv, IOReturned PROVE IInv'
<1>1. inTurn /\ f.pc = "running" /\ UNCHANGED <<billed, late>>
  BY DEF IOReturned, At
<1>2. CASE LogFails
  BY <1>1, <1>2, LogFailsKeeps
<1>3. CASE /\ UNCHANGED <<latched, open>>
           /\ \E progress, ok \in BOOLEAN, failed \in 0..MaxInner :
                Result(creditedFailures(progress, failed, ok))
  <2>1. PICK n : n \in Nat /\ Result(n)
    BY <1>3, BudgetsAssumption DEF creditedFailures
  <2>2. QED
    BY <1>1, <1>3, <2>1, ResultKeeps DEF quiet, Attempted
<1>4. QED
  BY <1>2, <1>3 DEF IOReturned

(* The two passes of verify_findings. *)
LEMMA VerifyPassKeeps == ASSUME IInv, VerifyPass PROVE IInv'
<1> DEFINE skipped == [f EXCEPT !.pass = @ + 1]
           passing == [f EXCEPT !.pc = "passing"]
<1>1. inTurn /\ f.pc = "pass" /\ quiet /\ f.pc \in Attempted
  BY DEF VerifyPass, At, quiet, Attempted
<1>2. f \in RunState /\ RunOK(depth, f) /\ "passing" \in Pcs
  BY <1>1, Executing DEF Pcs, Ready
<1>3. f.pass \in 1..3
  BY <1>1, <1>2 DEF RunOK
<1>4. CASE Result(0)
  BY <1>1, <1>4, ResultKeeps
<1>5. CASE f.pass <= 2 /\ Continue(skipped)
  <2>1. /\ skipped \in RunState /\ skipped.pc = f.pc /\ skipped.iter = f.iter /\ skipped.calls = f.calls
        /\ skipped.pass = f.pass + 1 /\ skipped.unpaired = f.unpaired /\ skipped.futile = f.futile
        /\ skipped.truncated = f.truncated /\ skipped.empty = f.empty
    BY <1>2, <1>3, <1>5, f.pass + 1 \in 0..3 DEF RunState
  <2>2. RunOK(depth, skipped) /\ Pending(skipped) = Pending(f)
    BY <1>1, <1>2, <1>3, <1>5, <2>1 DEF RunOK, Settled, Attempted, Pending
  <2>3. skipped.pc \notin Ready /\ skipped.pc \notin {"idle", "task"} /\ skipped.pc \in Unchecked
    BY <1>1, <2>1 DEF Ready, Unchecked
  <2> HIDE DEF skipped
  <2>4. QED
    BY <1>1, <1>5, <2>1, <2>2, <2>3, QuietContinue
<1>6. CASE f.pass <= 2 /\ ~passSkipped /\ Goto("passing")
  <2>1. passing \in RunState /\ passing.pc = "passing" /\ RunOK(depth, passing)
    BY <1>1, <1>2, <1>3, <1>6, Moved DEF RunOK, Settled, Attempted
  <2>2. Pending(passing) = Pending(f) /\ Continue(passing) /\ passing.pc \notin {"idle", "task"}
    BY <1>1, <1>6, <2>1 DEF Pending, Attempted, Goto
  <2>3. ~tripped /\ ~BudgetExceeded
    BY <1>6 DEF passSkipped, haltErr, haltOr
  <2> HIDE DEF passing
  <2>4. QED
    BY <1>1, <2>1, <2>2, <2>3, QuietContinue
<1>7. QED
  BY <1>4, <1>5, <1>6 DEF VerifyPass

LEMMA VerifiedKeeps ==
  ASSUME IInv, NEW u \in 0..MaxUsage, Verified(u) PROVE IInv'
<1> DEFINE g == [f EXCEPT !.pc = "pass", !.pass = @ + 1]
<1>1. inTurn /\ f.pc = "verifying" /\ UNCHANGED <<latched, late, open>> /\ billed' = AddUsage(u) /\ Continue(g)
  BY DEF Verified, At
<1>2. f \in RunState /\ RunOK(depth, f) /\ "pass" \in Pcs
  BY <1>1, Executing DEF Pcs
<1>3. f.pass \in 1..3 /\ f.pass <= 2 /\ f.pass + 1 \in 0..3
  BY <1>1, <1>2 DEF RunOK
<1>4. /\ g \in RunState /\ g.pc = "pass" /\ g.iter = f.iter /\ g.calls = f.calls /\ g.pass = f.pass + 1
      /\ g.unpaired = f.unpaired /\ g.futile = f.futile /\ g.truncated = f.truncated /\ g.empty = f.empty
  BY <1>2, <1>3 DEF RunState
<1>5. RunOK(depth, g) /\ Pending(g) = 1 /\ Pending(f) = 1
  BY <1>1, <1>2, <1>3, <1>4 DEF RunOK, Settled, Attempted, Pending
<1>6. /\ billed' \in 0..MaxTokens /\ latched' \in BOOLEAN /\ late' = late /\ late' \in Nat /\ open' \in Nat
      /\ ~latched' => ~latched /\ open' = open + Pending(g) - Pending(f)
  BY <1>1, <1>5, UsageBounded DEF IInv, TypeOK
<1>7. g.pc \notin Ready /\ g.pc \notin {"idle", "task"} /\ g.pc \in Unchecked
  BY <1>4 DEF Ready, Unchecked
<1> HIDE DEF g
<1>8. QED
  BY <1>1, <1>4, <1>5, <1>6, <1>7, Continues

(* The result record closes the attempt, whatever the call came to. *)
LEMMA RecordKeeps == ASSUME IInv, Record PROVE IInv'
<1> DEFINE streak == IF f.credit > 0 THEN f.failures + f.credit ELSE 0
           rest == Tail(f.calls)
           next == IF failuresExhausted(streak) THEN "summary" ELSE IF rest = <<>> THEN "top" ELSE "dispatch"
           g == [f EXCEPT !.pc = next, !.failures = streak, !.credit = 0, !.pass = 0, !.calls = rest, !.unpaired = @ - 1]
<1>1. inTurn /\ f.pc = "result" /\ UNCHANGED <<billed, late>>
  BY DEF Record, At
<1>2. f \in RunState /\ RunOK(depth, f) /\ depth \in Depths
  BY <1>1, Executing
<1>3. CASE LogFails
  BY <1>1, <1>3, LogFailsKeeps
<1>4. CASE Logged /\ open' = open - 1
  <2>1. Pending(f) = 1 /\ ~latched /\ ~latched' /\ open \in Nat /\ open > 0
    <3>1. Pending(f) = 1 /\ Pending(rs[0]) \in {0, 1} /\ Pending(rs[1]) \in {0, 1}
      BY <1>1 DEF Pending, Attempted
    <3>2. open = Pending(rs[0]) + Pending(rs[1]) /\ open \in Nat /\ ~latched /\ ~latched'
      BY <1>4 DEF IInv, OpenOK, TypeOK, Logged
    <3>3. f = rs[0] \/ f = rs[1]
      BY <1>2, DepthsAre DEF f
    <3>4. QED
      BY <3>1, <3>2, <3>3
  <2>2. /\ billed' \in 0..MaxTokens /\ latched' \in BOOLEAN /\ late' = late /\ late' \in Nat
        /\ open' \in Nat /\ open' = open - Pending(f)
    BY <1>1, <1>4, <2>1 DEF IInv, TypeOK, Logged
  <2>3. CASE haltErr # "none" /\ Return(haltErr)
    <3>1. haltErr \in Verdicts /\ haltErr # "audit"
      BY <2>3 DEF haltErr, haltOr, Verdicts, stopNotices
    <3>2. QED
      BY <1>1, <2>1, <2>2, <2>3, <3>1, Returns
  <2>4. CASE haltErr = "none" /\ Continue(g)
    <3>1. /\ f.calls \in Seq(Tools) /\ f.calls # <<>> /\ f.unpaired = Len(f.calls) /\ f.failures \in Nat /\ f.credit \in Nat
      BY <1>1, <1>2 DEF RunState, RunOK, Attempted
    <3>2. rest \in Seq(Tools) /\ Len(rest) = Len(f.calls) - 1 /\ Len(f.calls) - 1 \in Nat
      BY <3>1, HeadTailProperties, LenProperties, EmptySeq
    <3>3. streak \in Nat /\ next \in Pcs /\ 0 \in 0..3 /\ 0 \in Nat /\ f.unpaired - 1 \in Nat
      BY <3>1, <3>2 DEF Pcs
    <3>4. g \in RunState
      BY <1>2, <3>2, <3>3 DEF RunState
    <3>5. /\ g.pc = next /\ g.iter = f.iter /\ g.calls = rest /\ g.pass = 0
          /\ g.unpaired = f.unpaired - 1 /\ g.futile = f.futile /\ g.truncated = f.truncated /\ g.empty = f.empty
      BY <1>2, <3>4 DEF RunState
    <3>6. /\ next \in Settled => rest = <<>> 
          /\ next \in Attempted \cup {"dispatch"} => rest # <<>>
          /\ next \in {"summary", "top", "dispatch"}
      BY DEF Settled, Attempted
    <3> HIDE DEF g, next, rest, streak
    <3>7. RunOK(depth, g)
      BY <1>2, <3>1, <3>2, <3>5, <3>6 DEF RunOK
    <3>8. Pending(g) = 0 /\ g.pc \notin Ready /\ g.pc \notin {"idle", "task"}
      BY <3>5, <3>6 DEF Pending, Attempted, Ready
    <3>9. ~BudgetExceeded'
      BY <1>1, <2>4 DEF haltErr, haltOr, BudgetExceeded
    <3>10. open' = open + Pending(g) - Pending(f)
      BY <2>1, <2>2, <3>8
    <3>11. QED
      BY <1>1, <2>1, <2>2, <2>4, <3>4, <3>7, <3>8, <3>9, <3>10, Continues
  <2>5. QED
    BY <1>3, <1>4, <2>3, <2>4, Zenon DEF Record
<1>5. QED
  BY <1>3, <1>4 DEF Record
-----------------------------------------------------------------------------
(* The failure summary: its request has a result for every call. *)
LEMMA SummarizeKeeps == ASSUME IInv, Summarize PROVE IInv'
<1> DEFINE h == [f EXCEPT !.calls = <<>>, !.unpaired = 0]
           g == [h EXCEPT !.pc = "concluding"]
<1>1. inTurn /\ f.pc = "summary" /\ quiet
  BY DEF Summarize, At, quiet
<1>2. f \in RunState /\ RunOK(depth, f) /\ "concluding" \in Pcs
  BY <1>1, Executing DEF Pcs, Ready
<1>3. CASE Return("interrupted")
  BY <1>1, <1>3, QuietReturn, "interrupted" \in Verdicts DEF Verdicts, Attempted
<1>4. CASE ~tripped /\ Continue(g)
  <2>1. h \in RunState
    BY <1>2, <<>> \in Seq(Tools) DEF RunState
  <2>2. /\ h.pc = f.pc /\ h.iter = f.iter /\ h.calls = <<>> /\ h.pass = f.pass
        /\ h.unpaired = 0 /\ h.futile = f.futile /\ h.truncated = f.truncated /\ h.empty = f.empty
    BY <1>2, <2>1 DEF RunState
  <2>3. RunOK(depth, h)
    BY <1>1, <1>2, <2>2, Len(<<>>) = 0 DEF RunOK, Settled, Attempted
  <2> HIDE DEF h
  <2>4. g \in RunState /\ g.pc = "concluding" /\ RunOK(depth, g)
    BY <1>2, <2>1, <2>2, <2>3, Moved DEF RunOK, Settled, Attempted
  <2>5. Pending(g) = Pending(f) /\ g.pc \notin {"idle", "task"}
    BY <1>1, <2>4 DEF Pending, Attempted
  <2>6. ~BudgetExceeded
    BY <1>1 DEF IInv, BudgetOK, Unchecked
  <2> HIDE DEF g
  <2>7. QED
    BY <1>1, <1>4, <2>4, <2>5, <2>6, QuietContinue
<1>5. QED
  BY <1>3, <1>4 DEF Summarize, completePendingToolResults

LEMMA SummarizedKeeps ==
  ASSUME IInv, NEW r, NEW u \in 0..MaxUsage, Summarized(r, u) PROVE IInv'
<1> DEFINE g == [f EXCEPT !.pc = "rendered"]
<1>1. inTurn /\ f.pc = "summarizing" /\ UNCHANGED <<tripped, latched, late, open>> /\ billed' = AddUsage(u)
  BY DEF Summarized, At
<1>2. f \in RunState /\ RunOK(depth, f) /\ "rendered" \in Pcs
  BY <1>1, Executing DEF Pcs
<1>3. /\ billed' \in 0..MaxTokens /\ latched' \in BOOLEAN /\ late' = late /\ late' \in Nat /\ open' \in Nat
      /\ open' = open /\ open \in Nat /\ Pending(f) = 0
  BY <1>1, UsageBounded DEF IInv, TypeOK, Pending, Attempted
<1>4. ASSUME NEW k \in Verdicts \ {"audit"}, Return(k) PROVE IInv'
  <2>1. ~latched' => ~latched /\ k # "audit" /\ open' = open - Pending(f)
    BY <1>1, <1>3
  <2>2. QED
    BY <1>1, <1>3, <1>4, <2>1, Returns
<1>5. CASE haltErr' # "none" /\ Return(haltErr')
  <2>1. haltErr' \in Verdicts \ {"audit"}
    BY <1>5 DEF haltErr, haltOr, Verdicts, stopNotices
  <2>2. QED
    BY <1>4, <1>5, <2>1
<1>6. CASE Return("notice")
  BY <1>4, <1>6, "notice" \in Verdicts \ {"audit"} DEF Verdicts
<1>7. CASE haltErr' = "none" /\ Goto("rendered")
  <2>1. g \in RunState /\ g.pc = "rendered" /\ RunOK(depth, g)
    BY <1>1, <1>2, Moved DEF RunOK, Settled, Attempted
  <2>2. ~BudgetExceeded' /\ g.pc \notin Ready /\ g.pc \notin {"idle", "task"} /\ Continue(g)
    BY <1>7, <2>1 DEF haltErr, haltOr, Ready, Goto
  <2>3. ~latched' => ~latched /\ open' = open + Pending(g) - Pending(f)
    BY <1>1, <1>3, <2>1 DEF Pending, Attempted
  <2> HIDE DEF g
  <2>4. QED
    BY <1>1, <1>3, <2>1, <2>2, <2>3, Continues
<1>8. QED
  BY <1>5, <1>6, <1>7 DEF Summarized
-----------------------------------------------------------------------------
LEMMA StutterKeeps == ASSUME IInv, UNCHANGED vars PROVE IInv'
<1>1. f' = f
  BY DEF vars, f
<1>2. TypeOK'
  BY DEF IInv, TypeOK, vars
<1>3. RunsOK' /\ NestOK' /\ LateOK' /\ OpenOK' /\ BudgetOK' /\ TurnsOK'
  BY <1>1 DEF IInv, RunsOK, NestOK, LateOK, NoLateCall, OpenOK, BudgetOK, BudgetExceeded, TurnsOK, Carried, vars
<1>4. QED
  BY <1>2, <1>3 DEF IInv

LEMMA StepKeeps == IInv /\ [Next]_vars => IInv'
<1> SUFFICES ASSUME IInv, [Next]_vars PROVE IInv'
  OBVIOUS
<1>1. CASE Run \/ Trip
  BY <1>1, RunKeeps, TripKeeps
<1>2. CASE Step
  BY <1>2, IterateKeeps, LaunchKeeps, AcceptKeeps, AnswerKeeps, AttemptKeeps, InvokeKeeps,
     VerifyPassKeeps, RecordKeeps, SummarizeKeeps, EndTurnKeeps DEF Step
<1>3. CASE CallReturns
  BY <1>3, VerifiedKeeps, GeneratedKeeps, SummarizedKeeps, IOReturnedKeeps DEF CallReturns, Reply
<1>4. CASE Over \/ UNCHANGED vars
  BY <1>4, StutterKeeps DEF Over
<1>5. QED
  BY <1>1, <1>2, <1>3, <1>4 DEF Next

LEMMA Inductive == Spec => []IInv
  BY InitEstablishes, StepKeeps, PTL DEF Spec

(* The state keeps its types for any budgets: a run nests one level deep   *)
(* at most (the depth guard of task.go) and no retry counter reaches its   *)
(* ceiling (handleBlankTurn, refuseTruncatedCalls).                        *)
THEOREM TypeCorrect == Spec => []TypeOK
<1>1. IInv => TypeOK
  BY DEF IInv
<1>2. QED
  BY <1>1, Inductive, PTL

(* A press stops every call that had not passed its check when it landed,  *)
(* in a run, its sub-run or a verification pass (interrupt.State and the   *)
(* checks of loop.go).                                                     *)
THEOREM PressStopsCalls == Spec => []NoLateCall
<1>1. IInv => NoLateCall
  BY DEF IInv, LateOK
<1>2. QED
  BY <1>1, Inductive, PTL

(* No request leaves with a tool call unanswered in its transcript, however*)
(* a batch was cut short (completePendingToolResults).                     *)
THEOREM TranscriptPaired == Spec => []RequestsPaired
<1>1. ASSUME IInv PROVE RequestsPaired
  <2> SUFFICES ASSUME f.pc \in {"generating", "summarizing"} PROVE f.unpaired = 0
    BY DEF RequestsPaired
  <2>1. RunOK(depth, f)
    BY <1>1 DEF IInv, TypeOK, RunsOK, Depths, f
  <2>2. QED
    BY <2>1, Len(<<>>) = 0 DEF RunOK, Settled
<1>2. QED
  BY <1>1, Inductive, PTL

(* However blank and truncated turns alternate, the two counters of        *)
(* runState bound how many of them are retried in a row.                   *)
THEOREM RetriesBounded == Spec => []FutileTurnsBounded
<1>1. ASSUME IInv PROVE FutileTurnsBounded
  <2> SUFFICES ASSUME NEW d \in 0..maxTaskDepth PROVE rs[d].futile < MaxTruncated * MaxEmpty
    BY DEF FutileTurnsBounded
  <2> DEFINE t == rs[d].truncated
             e == rs[d].empty
             x == rs[d].futile
  <2>1. /\ t \in 0..(MaxTruncated - 1) /\ e \in 0..(MaxEmpty - 1) /\ x \in Nat /\ x <= t * MaxEmpty + e
        /\ MaxEmpty \in Nat \ {0} /\ MaxTruncated \in Nat \ {0}
    BY <1>1, BudgetsAssumption DEF IInv, TypeOK, RunsOK, RunOK, RunState, Depths
  <2> HIDE DEF t, e, x
  <2>2. t * MaxEmpty + MaxEmpty <= MaxTruncated * MaxEmpty
    <3>1. (t + 1) * MaxEmpty = t * MaxEmpty + MaxEmpty /\ t + 1 <= MaxTruncated /\ t \in Nat
      BY <2>1
    <3>2. \A a, b, c \in Nat : a <= b => a * c <= b * c
      OBVIOUS
    <3>3. (t + 1) * MaxEmpty <= MaxTruncated * MaxEmpty
      BY <2>1, <3>1, <3>2
    <3>4. QED
      BY <3>1, <3>3
  <2>3. t * MaxEmpty \in Nat /\ MaxTruncated * MaxEmpty \in Nat
    BY <2>1
  <2>4. x < MaxTruncated * MaxEmpty
    BY <2>1, <2>2, <2>3
  <2>5. QED
    BY <2>4 DEF x
<1>2. QED
  BY <1>1, Inductive, PTL

(* Every attempt record of a turn has its result record when the turn is   *)
(* over, unless a write failed (dispatchAndTrack).                         *)
THEOREM RecordsClosed == Spec => []AttemptsClosed
<1>1. IInv => AttemptsClosed
  BY IdleIsRun DEF IInv, AttemptsClosed, NestOK, OpenOK, Pending, Attempted
<1>2. QED
  BY <1>1, Inductive, PTL

(* No task is lost from the history or in it twice (Agent.Run,             *)
(* withUnanswered).                                                        *)
THEOREM TasksAccounted == Spec => []HistoryAccounted
<1>1. ASSUME IInv PROVE HistoryAccounted
  <2>1. \A i : Cardinality({i}) = 1
    BY FS_Singleton
  <2>2. QED
    BY <1>1, <2>1, FS_EmptySet DEF IInv, TurnsOK, Carried, HistoryAccounted
<1>2. QED
  BY <1>1, Inductive, PTL
-----------------------------------------------------------------------------
LEMMA ReturnHands ==
  ASSUME NEW k, Return(k) PROVE ret' \in {k, ret}
  BY DEF Return, invokeScopedReturn

(* A press that lands before a run's last checkpoint decides how the turn  *)
(* ends: haltOr wins over an answer, a notice, a stop and a model error.   *)
THEOREM PressPreempts == Spec => StopPreempts
<1>1. ASSUME [Next]_vars, ret = "none", ret' \notin {"none", "interrupted", "audit"} PROVE ~tripped
  <2>1. ASSUME NEW k, Return(haltOr(k)) PROVE ~tripped
    BY <1>1, <2>1, ReturnHands DEF haltOr
  <2>2. ~Return("audit") /\ ~Return("interrupted") /\ ret' # ret
    BY <1>1, ReturnHands
  <2>3. ASSUME NEW g, Continue(g) PROVE FALSE
    BY <2>2, <2>3 DEF Continue
  <2>4. CASE Run \/ Trip \/ EndTurn \/ Over \/ UNCHANGED vars
    BY <1>1, <2>2, <2>4 DEF Run, Trip, EndTurn, Over, vars
  <2>5. CASE Iterate \/ Answer \/ acceptTurn
    BY <2>1, <2>3, <2>5 DEF Iterate, Answer, acceptTurn, handleBlankTurn, refuseTruncatedCalls, useTurn
  <2>6. CASE Launch \/ Attempt \/ Invoke \/ VerifyPass \/ Summarize
    BY <2>2, <2>3, <2>6 DEF Launch, Attempt, Invoke, VerifyPass, Summarize, Goto, LogFails, Result,
       runTask, runVerify, invokeIO
  <2>7. CASE Record
    BY <2>1, <2>2, <2>3, <2>7 DEF Record, LogFails, haltErr
  <2>8. ASSUME NEW u, Verified(u) PROVE FALSE
    BY <2>3, <2>8 DEF Verified
  <2>9. ASSUME NEW r, NEW u, Generated(r, u) \/ Summarized(r, u) PROVE ~tripped
    <3>1. UNCHANGED tripped
      BY <2>9 DEF Generated, Summarized
    <3>2. haltErr' = "none" => ~tripped
      BY <3>1 DEF haltErr, haltOr
    <3>3. CASE haltErr' # "none" /\ Return(haltErr')
      BY <1>1, <3>1, <3>3, ReturnHands DEF haltErr, haltOr
    <3>4. QED
      BY <2>3, <2>9, <3>2, <3>3 DEF Generated, Summarized, Goto
  <2>10. CASE IOReturned
    BY <2>2, <2>3, <2>10 DEF IOReturned, LogFails, Result
  <2>11. QED
    BY <1>1, <2>4, <2>5, <2>6, <2>7, <2>8, <2>9, <2>10 DEF Next, Step, CallReturns, Reply
<1>2. QED
  BY <1>1, PTL DEF Spec, StopPreempts

(* No run begins a call in this step. *)
StartsNothing == \A d \in 0..maxTaskDepth : rs'[d].pc \in InFlight => rs[d].pc \in InFlight

LEMMA ContinueStartsNothing ==
  ASSUME IInv, NEW g, Continue(g), g.pc \notin InFlight PROVE StartsNothing
  BY DEF IInv, TypeOK, Continue, StartsNothing

LEMMA ReturnStartsNothing == ASSUME IInv, NEW k, Return(k) PROVE StartsNothing
<1>1. CASE rs' = [d \in 0..maxTaskDepth |-> Idle]
  BY <1>1, IdleIsRun DEF StartsNothing, InFlight
<1>2. CASE invokeScopedReturn(k) /\ depth > 0
  <2>1. depth = 1 /\ rs \in [{0, 1} -> RunState]
    BY <1>2, DepthsAre DEF IInv, TypeOK
  <2>2. rs'[1] = Idle /\ rs'[0].pc = "result"
    <3> DEFINE n == IF k \in subagentStop \cup {"answer", "notice"} THEN 0 ELSE 1
    <3>1. rs' = [rs EXCEPT ![0].pc = "result", ![0].credit = n, ![1] = Idle]
      BY <1>2, <2>1, depth - 1 = 0 DEF invokeScopedReturn
    <3> HIDE DEF n
    <3>2. rs'[1] = Idle /\ rs'[0] = [[rs[0] EXCEPT !.pc = "result"] EXCEPT !.credit = n]
      BY <2>1, <3>1
    <3>3. QED
      BY <2>1, <3>2 DEF RunState
  <2>3. QED
    BY <2>2, DepthsAre, IdleIsRun DEF StartsNothing, InFlight
<1>3. QED
  BY <1>1, <1>2 DEF Return

(* Once the budget is spent no model or tool call is begun, in the run that*)
(* spent it, in its parent or in a later turn: every way to a call passes a*)
(* checkpoint after the last call that was billed (haltErr).               *)
THEOREM BudgetStops == Spec => OverBudgetStartsNothing
<1>1. ASSUME IInv, [Next]_vars, BudgetExceeded PROVE StartsNothing
  <2> USE <1>1
  <2>1. ASSUME NEW g, Continue(g), g.pc \notin InFlight PROVE StartsNothing
    BY <2>1, ContinueStartsNothing
  <2>2. ASSUME NEW k, Return(k) PROVE StartsNothing
    BY <2>2, ReturnStartsNothing
  <2>3. ASSUME UNCHANGED rs PROVE StartsNothing
    BY <2>3 DEF StartsNothing
  <2>4. rs \in [{0, 1} -> RunState] /\ depth \in {0, 1} /\ f \in RunState
    BY DepthsAre DEF IInv, TypeOK, f
  <2>5. ASSUME NEW pc \in {"invoke", "armed", "passing", "rendered"}, Goto(pc) PROVE StartsNothing
    BY <2>1, <2>4, <2>5 DEF Goto, InFlight, RunState
  <2>6. ASSUME NEW n, Result(n) PROVE StartsNothing
    BY <2>1, <2>4, <2>6 DEF Result, InFlight, RunState
  <2>7. CASE Run
    BY <2>4, <2>7, DepthsAre, IdleIsRun DEF Run, StartsNothing, InFlight
  <2>8. CASE Trip \/ EndTurn \/ Over \/ UNCHANGED vars
    BY <2>3, <2>8 DEF Trip, EndTurn, Over, vars
  <2>9. CASE Launch
    <3>1. f.pc \in Ready /\ f.pc \notin Unchecked
      BY <2>9 DEF Launch, Ready, Unchecked
    <3>2. QED
      BY <3>1 DEF IInv, BudgetOK
  <2>10. CASE Iterate \/ Answer
    BY <2>1, <2>2, <2>4, <2>10 DEF Iterate, Answer, InFlight, RunState
  <2>11. CASE acceptTurn
    <3>1. CASE useTurn
      BY <2>1, <2>4, <3>1 DEF useTurn, InFlight, RunState
    <3>2. CASE handleBlankTurn
      BY <2>1, <2>2, <2>4, <3>2 DEF handleBlankTurn, retryBlank, InFlight, RunState
    <3>3. CASE refuseTruncatedCalls
      BY <2>1, <2>2, <2>4, <3>3 DEF refuseTruncatedCalls, InFlight, RunState
    <3>4. QED
      BY <2>11, <3>1, <3>2, <3>3 DEF acceptTurn
  <2>12. CASE Attempt
    BY <2>2, <2>5, <2>12 DEF Attempt, LogFails
  <2>13. CASE Invoke
    <3>1. CASE runTask /\ ~Result(0)
      <4>1. rs' = [rs EXCEPT ![depth].pc = "task", ![depth + 1] = NewRun] /\ depth = 0
        BY <2>4, <3>1 DEF runTask, maxTaskDepth
      <4>2. rs'[0].pc = "task" /\ rs'[1] = NewRun
        <5>1. rs'[1] = NewRun /\ rs'[0] = [rs[0] EXCEPT !.pc = "task"]
          BY <2>4, <4>1
        <5>2. QED
          BY <2>4, <5>1 DEF RunState
      <4>3. QED
        BY <4>2, DepthsAre, IdleIsRun DEF StartsNothing, InFlight
    <3>2. CASE depth = 0 /\ Continue([f EXCEPT !.pc = "pass", !.pass = 1])
      BY <2>1, <2>4, <3>2 DEF InFlight, RunState
    <3>3. QED
      BY <2>5, <2>6, <2>13, <3>1, <3>2 DEF Invoke, runVerify, invokeIO
  <2>14. CASE VerifyPass
    <3>1. CASE At("pass") /\ Continue([f EXCEPT !.pass = @ + 1])
      BY <2>1, <2>4, <3>1 DEF At, InFlight, RunState
    <3>2. QED
      BY <2>5, <2>6, <2>14, <3>1 DEF VerifyPass
  <2>15. CASE Record
    BY <2>1, <2>2, <2>4, <2>15 DEF Record, LogFails, haltErr, haltOr
  <2>16. CASE Summarize
    <3>1. f.pc = "summary" /\ f.pc \notin Unchecked
      BY <2>16 DEF Summarize, At, Unchecked
    <3>2. QED
      BY <3>1 DEF IInv, BudgetOK
  <2>17. ASSUME NEW u, Verified(u) PROVE StartsNothing
    BY <2>1, <2>4, <2>17 DEF Verified, InFlight, RunState
  <2>18. ASSUME NEW r, NEW u, Generated(r, u) \/ Summarized(r, u) PROVE StartsNothing
    <3>1. CASE Continue([f EXCEPT !.pc = "accept", !.reply = r])
      BY <2>1, <2>4, <3>1 DEF InFlight, RunState
    <3>2. QED
      BY <2>2, <2>5, <2>18, <3>1 DEF Generated, Summarized
  <2>19. CASE IOReturned
    BY <2>2, <2>6, <2>19 DEF IOReturned, LogFails
  <2>20. QED
    BY <2>7, <2>8, <2>9, <2>10, <2>11, <2>12, <2>13, <2>14, <2>15, <2>16, <2>17, <2>18, <2>19
       DEF Next, Step, CallReturns, Reply
<1>2. ASSUME IInv, [Next]_vars PROVE [BudgetExceeded => StartsNothing]_vars
  BY <1>1, <1>2
<1>3. QED
  BY <1>2, Inductive, PTL DEF Spec, OverBudgetStartsNothing, StartsNothing
=============================================================================
