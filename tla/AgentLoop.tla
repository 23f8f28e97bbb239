----------------------------- MODULE AgentLoop -----------------------------
(***************************************************************************)
(* The research loop of cynative: Agent.Run over a session of turns        *)
(* (internal/agent/agent.go), the tool-calling loop `run` with its blank   *)
(* and truncated turns, dispatch of the tool calls of a turn               *)
(* (internal/agent/loop.go), the failure summary, the `task` sub-agent,    *)
(* the two passes of verify_findings, the session token budget             *)
(* (internal/metrics) and the two-stage interrupt machine the operator     *)
(* presses against (internal/interrupt).                                   *)
(*                                                                         *)
(* The loop is one goroutine.  The operator presses Ctrl-C between any two *)
(* of its steps, in particular between a check of the interrupt and the    *)
(* start of the call the check allowed: every such check-then-act window   *)
(* is a pc of its own ("calling", "armed", "passing", "concluding"), and   *)
(* so are the gaps between two checks ("accept", "rendered", ret # "none").*)
(* Message text, tool arguments and verdicts are abstracted; a reply of    *)
(* the model is whether it has text, its calls by tool kind, and its stop  *)
(* reason.  An audit write may fail at any record.                         *)
(***************************************************************************)
EXTENDS Integers, Sequences, FiniteSets

CONSTANTS
  MaxIter,          \* agent's iteration budget of a top-level run
  MaxSubagentIter,  \* iteration budget of a task sub-run
  MaxEmpty,         \* maxConsecutiveEmpty
  MaxTruncated,     \* maxConsecutiveTruncated
  MaxFailures,      \* maxConsecutiveFailures; 0 disables the ceiling
  MaxTokens,        \* the session's token budget; 0 is unbounded
  MaxBatch,         \* bound: tool calls of one assistant turn
  MaxInner,         \* bound: failed inner calls one I/O call reports
  MaxUsage,         \* bound: tokens one model call bills
  MaxTurns,         \* bound: turns of the session
  Tools             \* the tool kinds the model may call, a subset of ToolKinds

ToolKinds == {"io", "task", "verify", "todos", "unknown"}

ASSUME BudgetsAssumption ==
  /\ MaxIter \in Nat /\ MaxSubagentIter \in Nat
  /\ MaxEmpty \in Nat \ {0} /\ MaxTruncated \in Nat \ {0}
  /\ MaxFailures \in Nat /\ MaxTokens \in Nat
  /\ MaxBatch \in Nat /\ MaxInner \in Nat /\ MaxUsage \in Nat
  /\ MaxTurns \in Nat
  /\ Tools \subseteq ToolKinds

VARIABLES
  inTurn, tripped, \* interrupt.State
  killed,          \* the process was hard-killed by a press
  billed,          \* metrics.Accumulator.billedTokens, saturated at MaxTokens
  depth,           \* depth of the run that is executing: 0, or 1 in a sub-run
  rs,              \* rs[d]: the runState of depth d and where its run is
  turn,            \* turns begun so far; also the name of the current task
  history,         \* Agent.history: per answered turn, the tasks its question carried
  unanswered,      \* Agent.unanswered: tasks that ended in a host-written notice
  outcomes,        \* outcomes[t]: how the run of turn t ended
  ret,             \* what the top-level run has returned to Run; "none" before
  latched,         \* audit.Logger.err: a record could not be written
  pressedAt,       \* history variable: where the loop was at the press, or "none"
  late,            \* history variable: external calls begun since the press
  open             \* history variable: attempt records without a result record

vars == <<inTurn, tripped, killed, billed, depth, rs, turn, history,
          unanswered, outcomes, ret, latched, pressedAt, late, open>>

interrupter == <<inTurn, tripped, killed, pressedAt>>
session == <<turn, history, unanswered, outcomes>>
-----------------------------------------------------------------------------
(* The stop reasons the loop tells apart; unspecified, normal and          *)
(* tool_calls behave alike.                                                *)
StopReasons == {"normal", "length", "filter", "other"}

Batches == UNION {[1..n -> Tools] : n \in 0..MaxBatch}

(* What Generate may return: a message, or an error. *)
Replies == [err : {FALSE}, text : BOOLEAN, calls : Batches, stop : StopReasons]
Failure == [err |-> TRUE, text |-> FALSE, calls |-> <<>>, stop |-> "normal"]

NoReply == [err |-> FALSE, text |-> FALSE, calls |-> <<>>, stop |-> "normal"]

blankTurn(r) == r.calls = <<>> /\ ~r.text

maxTaskDepth == 1

maxIter(d) == IF d = 0 THEN MaxIter ELSE MaxSubagentIter

(* A fresh runState.  reply is the message being classified, credit *)
(* the failure count of the call in progress, pass the verification pass,  *)
(* unpaired the tool calls in the transcript that have no tool result yet, *)
(* and futile (a history variable) the turns since the last accepted one.  *)
NewRun == [pc |-> "top", iter |-> 0, empty |-> 0, truncated |-> 0,
           failures |-> 0, calls |-> <<>>, credit |-> 0, pass |-> 0,
           unpaired |-> 0, reply |-> NoReply, futile |-> 0]

Idle == [NewRun EXCEPT !.pc = "idle"]

(* pcs at which a call outside the process has been allowed, and is made.  *)
Ready == {"calling", "armed", "passing", "concluding"}
InFlight == {"generating", "running", "verifying", "summarizing"}

Launched(pc) == CASE pc = "calling"    -> "generating"
                  [] pc = "armed"      -> "running"
                  [] pc = "passing"    -> "verifying"
                  [] pc = "concluding" -> "summarizing"

(* Mutant: the summary call is not polled. *)
cancelOnInterrupt_NotSummary == {"generating", "running", "verifying"}

(* The calls whose context cancelOnInterrupt cancels when it sees a press. *)
cancelOnInterrupt == {"generating", "running", "verifying", "summarizing"}

f == rs[depth]
At(pc) == inTurn /\ ~killed /\ f.pc = pc
-----------------------------------------------------------------------------
(* metrics.AddUsage and metrics.BudgetExceeded, over a saturated total.    *)
AddUsage(u) == IF billed + u < MaxTokens THEN billed + u ELSE MaxTokens

BudgetExceeded == MaxTokens > 0 /\ billed >= MaxTokens

(* Mutant: a terminal stop is reported without looking for a halt. *)
haltOr_Unchecked(fallback) == IF fallback # "none" THEN fallback
                              ELSE IF tripped THEN "interrupted"
                              ELSE IF BudgetExceeded THEN "budget" ELSE "none"

(* haltOr: an interrupt, then the budget, wins over the stop the run was   *)
(* about to report; haltErr reports only those two.                        *)
haltOr(fallback) == IF tripped THEN "interrupted"
                    ELSE IF BudgetExceeded THEN "budget"
                    ELSE fallback

haltErr == haltOr("none")
-----------------------------------------------------------------------------
(* How a run ends.  The top-level run hands its verdict to Run, which maps *)
(* the sentinel, records an answer in the history or keeps the task aside  *)
(* when the answer is a host-written notice, and disarms the interrupter.  *)
stopNotices == {"budget", "iterations", "empty", "output", "filtered", "early"}

runOutcome(k) == CASE k \in {"answer", "notice"} -> "nil"
                   [] k = "interrupted"          -> "ErrInterrupted"
                   [] k \in stopNotices          -> "ErrNoAnswer"
                   [] k = "model"                -> "ErrGenerate"
                   [] k = "audit"                -> "ErrLog"

(* The question of a turn carries the unanswered tasks with its own. *)
withUnanswered == unanswered \cup {turn}

(* Mutant: a host-written notice also clears the tasks set aside. *)
keepUnanswered_Cleared(k) == IF k \in {"answer", "notice"} THEN {} ELSE unanswered

keepUnanswered(k) == CASE k = "answer" -> {}
                       [] k = "notice" -> unanswered \cup {turn}
                       [] OTHER        -> unanswered

EndTurn ==
  /\ inTurn /\ ~killed /\ ret # "none"
  /\ inTurn' = FALSE
  /\ outcomes' = Append(outcomes, ret)
  /\ history' = IF ret = "answer" THEN Append(history, withUnanswered) ELSE history
  /\ unanswered' = keepUnanswered(ret)
  /\ ret' = "none"
  /\ UNCHANGED <<tripped, killed, billed, depth, rs, turn, latched, pressedAt, late, open>>

(* subagentStop: what a sub-run may report as a result of the task call.   *)
(* An audit failure is fatal to the parent too; an interrupt, a budget     *)
(* crossing or a model error comes back as the text of a failed call.      *)
subagentStop == {"iterations", "empty", "output", "filtered", "early"}

invokeScopedReturn(k) ==
  /\ depth' = depth - 1
  /\ rs' = [rs EXCEPT ![depth - 1].pc = "result",
                      ![depth - 1].credit =
                         IF k \in subagentStop \cup {"answer", "notice"} THEN 0 ELSE 1,
                      ![depth] = Idle]
  /\ UNCHANGED ret

(* The executing run returns k: "answer" with a text of the model,         *)
(* "notice" with a host-written one, any other k with an error.            *)
Return(k) ==
  /\ UNCHANGED <<interrupter, session>>
  /\ \/ /\ depth = 0 \/ k = "audit"
        /\ ret' = k
        /\ depth' = 0
        /\ rs' = [d \in 0..maxTaskDepth |-> Idle]
     \/ /\ depth > 0 /\ k # "audit"
        /\ invokeScopedReturn(k)

(* The executing run goes on as g. *)
Continue(g) ==
  /\ rs' = [rs EXCEPT ![depth] = g]
  /\ UNCHANGED <<depth, ret, interrupter, session>>

Goto(pc) == Continue([f EXCEPT !.pc = pc])
-----------------------------------------------------------------------------
(* classifyTurnError: an audit failure ends the session, any other error of *)
(* a turn leads back to the prompt.                                        *)
SessionFailed == outcomes # <<>> /\ runOutcome(outcomes[Len(outcomes)]) = "ErrLog"

(* Agent.Run: BeginTurn clears a stale trip and arms the interrupter, and  *)
(* the loop is seeded from the history and the unanswered tasks.           *)
Run ==
  /\ ~inTurn /\ ~killed /\ turn < MaxTurns /\ ~SessionFailed
  /\ inTurn' = TRUE /\ tripped' = FALSE /\ pressedAt' = "none"
  /\ turn' = turn + 1
  /\ rs' = [rs EXCEPT ![0] = NewRun]
  /\ late' = 0
  /\ UNCHANGED <<killed, billed, depth, history, unanswered, outcomes, ret, latched, open>>

(* interrupt.State.Trip: the first press of a turn is graceful, the second *)
(* press and a press between turns kill the process.                       *)
Trip ==
  /\ ~killed
  /\ \/ /\ inTurn /\ ~tripped
        /\ tripped' = TRUE /\ pressedAt' = f.pc
        /\ UNCHANGED killed
     \/ /\ ~inTurn \/ tripped
        /\ killed' = TRUE
        /\ UNCHANGED <<tripped, pressedAt>>
  /\ UNCHANGED <<inTurn, billed, depth, rs, session, ret, latched, late, open>>

(* Head of the loop: give up at the iteration budget, stop on a halt, or   *)
(* ask the model.                                                          *)
Iterate ==
  /\ At("top")
  /\ UNCHANGED <<billed, latched, late, open>>
  /\ LET halt == haltOr(IF f.iter = maxIter(depth) THEN "iterations" ELSE "none")
     IN \/ halt # "none" /\ Return(halt)
        \/ halt = "none" /\ Continue([f EXCEPT !.pc = "calling", !.iter = @ + 1])

(* The call a check allowed is made; the operator may have pressed since.  *)
Launch ==
  /\ inTurn /\ ~killed /\ f.pc \in Ready
  /\ Goto(Launched(f.pc))
  /\ late' = IF tripped THEN late + 1 ELSE late
  /\ UNCHANGED <<billed, latched, open>>

(* Generate returns, its usage billed.  A halt wins over a model error,    *)
(* which ends the run.                                                     *)
Generated(r, u) ==
  /\ At("generating")
  /\ billed' = AddUsage(u)
  /\ UNCHANGED <<tripped, latched, late, open>>
  /\ \/ haltErr' # "none" /\ Return(haltErr')
     \/ haltErr' = "none" /\ r.err /\ Return("model")
     \/ haltErr' = "none" /\ ~r.err /\ Continue([f EXCEPT !.pc = "accept", !.reply = r])

(* Mutant: a blank turn also resets the count of truncated turns. *)
retryBlank_Resets(g) == [g EXCEPT !.pc = "top", !.empty = @ + 1, !.truncated = 0,
                                  !.futile = @ + 1, !.reply = NoReply]

(* The retry of a blank turn neither counts nor resets truncated turns.    *)
retryBlank(g) == [g EXCEPT !.pc = "top", !.empty = @ + 1, !.futile = @ + 1,
                           !.reply = NoReply]

(* handleBlankTurn: a stop reason that re-asking cannot change ends the    *)
(* run at once; a blank turn is retried with a directive, MaxEmpty at most.*)
futileStop(stop) == CASE stop = "length" -> "output"
                      [] stop = "filter" -> "filtered"
                      [] stop = "other"  -> "early"
                      [] OTHER           -> "none"

handleBlankTurn ==
  \/ /\ futileStop(f.reply.stop) # "none"
     /\ Return(haltOr(futileStop(f.reply.stop)))
  \/ /\ futileStop(f.reply.stop) = "none" /\ f.empty + 1 >= MaxEmpty
     /\ Return(haltOr("empty"))
  \/ /\ futileStop(f.reply.stop) = "none" /\ f.empty + 1 < MaxEmpty
     /\ Continue(retryBlank(f))

(* refuseTruncatedCalls: none of the calls is dispatched or replayed; the  *)
(* retry is bounded by MaxTruncated.                                       *)
refuseTruncatedCalls ==
  \/ /\ f.truncated + 1 >= MaxTruncated
     /\ Return(haltOr("output"))
  \/ /\ f.truncated + 1 < MaxTruncated
     /\ Continue([f EXCEPT !.pc = "top", !.empty = 0, !.truncated = @ + 1,
                           !.futile = @ + 1, !.reply = NoReply])

(* A usable turn joins the transcript: its calls are to be dispatched, or  *)
(* its text is rendered as the answer.                                     *)
useTurn ==
  Continue([f EXCEPT !.pc = IF f.reply.calls = <<>> THEN "rendered" ELSE "dispatch",
                     !.empty = 0, !.truncated = 0, !.futile = 0,
                     !.calls = f.reply.calls, !.unpaired = @ + Len(f.reply.calls),
                     !.reply = NoReply])

acceptTurn ==
  LET truncatedCalls == f.reply.calls # <<>> /\ f.reply.stop = "length" IN
  /\ At("accept")
  /\ UNCHANGED <<billed, latched, late, open>>
  /\ \/ blankTurn(f.reply) /\ handleBlankTurn
     \/ truncatedCalls /\ refuseTruncatedCalls
     \/ ~blankTurn(f.reply) /\ ~truncatedCalls /\ useTurn

(* The final answer has been rendered: a stop that landed meanwhile still  *)
(* surfaces, otherwise the run returns the answer.                         *)
Answer ==
  /\ At("rendered")
  /\ UNCHANGED <<billed, latched, late, open>>
  /\ Return(haltOr("answer"))
-----------------------------------------------------------------------------
(* An audit record is written, or the write fails, latches and aborts the  *)
(* run; once latched every write fails.                                    *)
Logged == ~latched /\ UNCHANGED latched
LogFails == latched' = TRUE /\ UNCHANGED open /\ Return("audit")

(* dispatch: the attempt record comes before the call.                     *)
Attempt ==
  /\ At("dispatch")
  /\ UNCHANGED <<billed, late>>
  /\ \/ Logged /\ open' = open + 1 /\ Goto("invoke")
     \/ LogFails

(* The call is over with this many failures to credit.                     *)
Result(failures) == Continue([f EXCEPT !.pc = "result", !.credit = failures])

(* task: a sub-run with a fresh runState, unless the caller is a sub-agent *)
(* or gave no description.                                                 *)
runTask ==
  \/ Result(0)
  \/ /\ depth < maxTaskDepth
     /\ depth' = depth + 1
     /\ rs' = [rs EXCEPT ![depth].pc = "task", ![depth + 1] = NewRun]
     /\ UNCHANGED <<ret, interrupter, session>>

(* verify_findings: guidance for a sub-agent or bad arguments, otherwise   *)
(* two passes.                                                             *)
runVerify ==
  \/ Result(0)
  \/ depth = 0 /\ Continue([f EXCEPT !.pc = "pass", !.pass = 1])

(* Mutant: the call runs without looking at the interrupter. *)
invokeIO_Unguarded == Goto("armed")

(* Mutant: a press returns from the run at once, without a result record. *)
invokeIO_Aborts ==
  \/ tripped /\ Return("interrupted")
  \/ ~tripped /\ Goto("armed")

(* invokeIO refuses a call when the operator has already pressed.          *)
invokeIO ==
  \/ tripped /\ Result(1)
  \/ ~tripped /\ Goto("armed")

Invoke ==
  /\ At("invoke")
  /\ UNCHANGED <<billed, latched, late, open>>
  /\ LET tool == Head(f.calls) IN
     \/ tool = "unknown" /\ Result(1)
     \/ tool = "todos" /\ Result(0)
     \/ tool = "task" /\ runTask
     \/ tool = "verify" /\ runVerify
     \/ tool = "io" /\ invokeIO

(* creditedFailures of an I/O call: nothing when any inner call made       *)
(* progress, else the tally of failed inner calls, and at least one for a  *)
(* denial or an error.                                                     *)
creditedFailures(progress, failed, ok) ==
  IF progress THEN 0 ELSE IF failed > 0 THEN failed ELSE IF ok THEN 0 ELSE 1

(* An I/O tool returns: with its tallies, with an error or a denial, or    *)
(* with the failed audit write of an inner call.                           *)
IOReturned ==
  /\ At("running")
  /\ UNCHANGED <<billed, late>>
  /\ \/ /\ UNCHANGED <<latched, open>>
        /\ \E progress, ok \in BOOLEAN, failed \in 0..MaxInner :
             Result(creditedFailures(progress, failed, ok))
     \/ LogFails

(* Mutant: a pass is skipped on an interrupt only. *)
passSkipped_BudgetIgnored == tripped

(* runPass: skipped on an interrupt or an exhausted budget; otherwise one  *)
(* tool-less model call.  After the second pass the call is over.          *)
passSkipped == haltErr # "none"

VerifyPass ==
  /\ At("pass")
  /\ UNCHANGED <<billed, latched, late, open>>
  /\ \/ f.pass > 2 /\ Result(0)
     \/ f.pass <= 2 /\ passSkipped /\ Continue([f EXCEPT !.pass = @ + 1])
     \/ f.pass <= 2 /\ ~passSkipped /\ Goto("passing")

Verified(u) ==
  /\ At("verifying")
  /\ billed' = AddUsage(u)
  /\ Continue([f EXCEPT !.pc = "pass", !.pass = @ + 1])
  /\ UNCHANGED <<latched, late, open>>

failuresExhausted(n) == MaxFailures > 0 /\ n >= MaxFailures

(* dispatchAndTrack after the call: the result record, the tool message,   *)
(* the failure streak, then a halt, the failure summary or the next call.  *)
Record ==
  LET streak == IF f.credit > 0 THEN f.failures + f.credit ELSE 0
      rest == Tail(f.calls)
      next == IF failuresExhausted(streak) THEN "summary"
              ELSE IF rest = <<>> THEN "top" ELSE "dispatch"
  IN
  /\ At("result")
  /\ UNCHANGED <<billed, late>>
  /\ \/ LogFails
     \/ /\ Logged /\ open' = open - 1
        /\ \/ haltErr # "none" /\ Return(haltErr)
           \/ /\ haltErr = "none"
              /\ Continue([f EXCEPT !.pc = next, !.failures = streak, !.credit = 0,
                                    !.pass = 0, !.calls = rest, !.unpaired = @ - 1])
-----------------------------------------------------------------------------
(* Mutant: the calls of a halted batch stay unanswered. *)
completePendingToolResults_Skipped(g) == [g EXCEPT !.calls = <<>>]

completePendingToolResults(g) == [g EXCEPT !.calls = <<>>, !.unpaired = 0]

(* failureSummary: unless the operator pressed, the calls of the batch     *)
(* that were never dispatched get synthetic results and one tool-less      *)
(* model call is made.                                                     *)
Summarize ==
  /\ At("summary")
  /\ UNCHANGED <<billed, latched, late, open>>
  /\ \/ tripped /\ Return("interrupted")
     \/ /\ ~tripped
        /\ Continue([completePendingToolResults(f) EXCEPT !.pc = "concluding"])

(* The summary call returns.  A halt wins; an error or a blank summary     *)
(* falls back to a host-written notice.  (The parent context, which        *)
(* failureSummary also checks, is never canceled by this program.)         *)
Summarized(r, u) ==
  /\ At("summarizing")
  /\ billed' = AddUsage(u)
  /\ UNCHANGED <<tripped, latched, late, open>>
  /\ \/ haltErr' # "none" /\ Return(haltErr')
     \/ haltErr' = "none" /\ (r.err \/ ~r.text) /\ Return("notice")
     \/ haltErr' = "none" /\ ~r.err /\ r.text /\ Goto("rendered")
-----------------------------------------------------------------------------
Init ==
  /\ inTurn = FALSE /\ tripped = FALSE /\ killed = FALSE
  /\ billed = 0 /\ depth = 0
  /\ rs = [d \in 0..maxTaskDepth |-> Idle]
  /\ turn = 0 /\ history = <<>> /\ unanswered = {} /\ outcomes = <<>>
  /\ ret = "none" /\ latched = FALSE /\ pressedAt = "none" /\ late = 0 /\ open = 0

(* Steps the loop takes by itself, and the return of a call it waits for.  *)
Step == \/ Iterate \/ Launch \/ acceptTurn \/ Answer \/ Attempt \/ Invoke \/ VerifyPass
        \/ Record \/ Summarize \/ EndTurn

Reply == \E u \in 0..MaxUsage :
           \/ Verified(u)
           \/ \E r \in Replies \cup {Failure} : Generated(r, u) \/ Summarized(r, u)

CallReturns == Reply \/ IOReturned

(* The session is over: killed, ended by an audit failure, or out of turns. *)
Over == /\ killed \/ (~inTurn /\ (turn = MaxTurns \/ SessionFailed))
        /\ UNCHANGED vars

Next == Run \/ Trip \/ Step \/ CallReturns \/ Over

(* The loop runs by itself.  A model or tool call may hang for as long as  *)
(* it likes; it returns once its context is canceled, which the poll of    *)
(* cancelOnInterrupt does after a press.  The operator owes nothing.       *)
Fairness ==
  /\ WF_vars(Step)
  /\ WF_vars(tripped /\ f.pc \in cancelOnInterrupt /\ CallReturns)

Spec == Init /\ [][Next]_vars /\ Fairness
-----------------------------------------------------------------------------
Pcs == {"idle", "top", "accept", "rendered", "dispatch", "invoke", "task", "pass",
        "result", "summary"} \cup Ready \cup InFlight

Verdicts == {"answer", "notice", "interrupted", "model", "audit"} \cup stopNotices

RunState ==
  [pc : Pcs, iter : 0..(MaxIter + MaxSubagentIter), empty : 0..(MaxEmpty - 1),
   truncated : 0..(MaxTruncated - 1), failures : Nat, calls : Seq(Tools), credit : Nat,
   pass : 0..3, unpaired : Nat, reply : [err : {FALSE}, text : BOOLEAN,
   calls : Seq(Tools), stop : StopReasons], futile : Nat]

(* The types of the state; in particular a run nests at most one level     *)
(* deep (task.go's depth guard), and no retry counter reaches its ceiling. *)
TypeOK ==
  /\ inTurn \in BOOLEAN /\ tripped \in BOOLEAN /\ killed \in BOOLEAN
  /\ billed \in 0..MaxTokens
  /\ depth \in 0..maxTaskDepth
  /\ rs \in [0..maxTaskDepth -> RunState]
  /\ turn \in 0..MaxTurns
  /\ history \in Seq(SUBSET (1..MaxTurns)) /\ unanswered \in SUBSET (1..MaxTurns)
  /\ outcomes \in Seq(Verdicts) /\ ret \in Verdicts \cup {"none"}
  /\ latched \in BOOLEAN /\ pressedAt \in Pcs \cup {"none"}
  /\ late \in Nat /\ open \in Nat

(* A run never returns an answer, a stop notice or a model error while a   *)
(* press is pending: wherever the press landed before the run's last       *)
(* checkpoint, in the sub-run or its parent, the turn ends as interrupted  *)
(* (or with the audit failure that beats everything).                      *)
StopPreempts ==
  [][ret = "none" /\ ret' \notin {"none", "interrupted", "audit"} => ~tripped]_vars

(* After a press no model call and no tool call is begun, except the one   *)
(* that had passed its check when the press landed.                        *)
NoLateCall == late > 0 => late = 1 /\ pressedAt \in Ready

(* Once the session has spent its token budget no further model or tool    *)
(* call is begun, in the run that spent it, in its parent, or in any later *)
(* turn.                                                                   *)
OverBudgetStartsNothing ==
  [][BudgetExceeded => \A d \in 0..maxTaskDepth :
       rs'[d].pc \in InFlight => rs[d].pc \in InFlight]_vars

(* Whenever a request is with the model, every tool call of its transcript *)
(* has its tool result: the pairing providers insist on, also after a halt *)
(* in the middle of a batch.                                               *)
RequestsPaired ==
  f.pc \in {"generating", "summarizing"} => f.unpaired = 0

(* However blank and truncated turns alternate, fewer than                 *)
(* MaxTruncated * MaxEmpty of them in a row are retried.                   *)
FutileTurnsBounded ==
  \A d \in 0..maxTaskDepth : rs[d].futile < MaxTruncated * MaxEmpty

(* When a turn is over and no audit write failed, every attempt record has *)
(* its result record, however the turn ended.                              *)
AttemptsClosed == ~inTurn /\ ~latched => open = 0

(* A task is in the history exactly when its turn ended in an answer of    *)
(* the model or it was carried over to one that did; a task that ended in  *)
(* a host-written notice is never lost, and no task is recorded twice.     *)
HistoryAccounted ==
  \A t \in 1..Len(outcomes) :
    LET entries == {i \in 1..Len(history) : t \in history[i]} IN
    \/ /\ outcomes[t] \in {"answer", "notice"}
       /\ Cardinality(entries) = IF t \in unanswered THEN 0 ELSE 1
    \/ /\ outcomes[t] \notin {"answer", "notice"}
       /\ entries = {} /\ t \notin unanswered

(* A press ends the turn even when the model or a tool hangs.              *)
StopEndsTurn == inTurn /\ tripped ~> ~inTurn \/ killed
=============================================================================
