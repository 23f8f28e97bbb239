------------------------------ MODULE Sandbox ------------------------------
(***************************************************************************)
(* The JavaScript sandbox behind code_execution (internal/sandbox): one    *)
(* persistent runtime, one Run at a time under Sandbox.mu, and three kinds *)
(* of goroutine that race during a Run:                                    *)
(*   - the loop goroutine (main), which runs the script and then applies   *)
(*     the postbacks of finished tool calls until none is in flight;       *)
(*   - one worker per inner tool call (wpc), which waits for a concurrency *)
(*     slot, runs the tool and posts the settlement back;                  *)
(*   - the watchdog (watch), which interrupts the runtime when the run     *)
(*     context ends.                                                       *)
(* A script is abstracted to what it does to the host: it issues tool      *)
(* calls, and each stretch of it (RunProgram, and the continuation of      *)
(* every settled promise) ends with its promise pending, fulfilled or      *)
(* rejected, with an error that escapes, or by being interrupted.          *)
(***************************************************************************)
EXTENDS Integers, FiniteSets

CONSTANTS
  Calls,           \* the inner tool calls a script may issue
  Slots,           \* maxConcurrency: capacity of the semaphore
  MaxRuns,         \* bound: Runs of the session
  EscapesWrapper   \* whether a script may close the async wrapper itself, so
                   \* that RunProgram's value is not the promise of the script

ASSUME SlotsAssumption == Slots \in Nat \ {0}
ASSUME RunsAssumption == MaxRuns \in Nat /\ EscapesWrapper \in BOOLEAN
ASSUME CallsAssumption == IsFiniteSet(Calls)

VARIABLES
  main,       \* where the goroutine inside Run is; "idle" between Runs
  ctxErr,     \* runCtx.Err()
  runEnd,     \* ctxErr as Run read it when the script was over
  runErr,     \* "none", "compile", or "exec" (an error of RunProgram or loop)
  value,      \* RunProgram's value: "nil", the script's "promise", or "other"
  iife,       \* state of the script's promise in the runtime, "none" without one
  runtime,    \* "clean"; "stranded" by an interrupt; "partial" after a failed build
  interrupt,  \* the runtime's interrupt flag
  dirty,      \* Sandbox.dirty
  watch,      \* the watchdog: "waiting", "firing" or "gone"
  done,       \* Sandbox.done is closed
  inFlight,   \* Sandbox.inFlight
  sem,        \* slots taken from Sandbox.sem
  wpc,        \* wpc[c]: where the worker of call c is; "gone" without one
  runs,       \* Runs begun
  result,     \* what the last Run returned, "none" while one is running
  issued,     \* history variable: calls the current Run's script issued
  settled,    \* history variable: those whose promise was settled
  lateSlot    \* history variable: those that won a slot after the context ended

vars == <<main, ctxErr, runEnd, runErr, value, iife, runtime, interrupt, dirty,
          watch, done, inFlight, sem, wpc, runs, result, issued, settled, lateSlot>>

runState == <<ctxErr, runEnd, runErr, value, result, runs>>
script == <<iife, runtime, dirty>>
calls == <<inFlight, sem, wpc, issued, settled, lateSlot>>

Holding == {"won", "starting", "calling", "posting", "leaving"}
-----------------------------------------------------------------------------
(* refresh: a runtime the last Run left unusable is rebuilt before anything*)
(* runs; dirty is cleared only once the rebuild has succeeded.             *)
refresh ==
  \/ ~dirty /\ main' = "begin" /\ UNCHANGED <<script, result>>
  \/ /\ dirty
     /\ iife' = "none" /\ runtime' = "clean" /\ dirty' = FALSE
     /\ main' = "begin" /\ UNCHANGED result
  \/ /\ dirty
     /\ iife' = "none" /\ runtime' = "partial" /\ UNCHANGED dirty
     /\ main' = "idle" /\ result' = "error"

(* Run takes the mutex and refreshes the runtime.                          *)
Run ==
  /\ main = "idle" /\ runs < MaxRuns
  /\ runs' = runs + 1
  /\ refresh
  /\ UNCHANGED <<ctxErr, runEnd, runErr, value, interrupt, watch, done, calls>>

(* The per-run fields are reset, the watchdog starts, and the script is    *)
(* compiled.                                                               *)
Start ==
  /\ main = "begin"
  /\ ctxErr' = "none" /\ runEnd' = "none" /\ value' = "nil" /\ result' = "none"
  /\ done' = FALSE /\ inFlight' = 0 /\ watch' = "waiting"
  /\ issued' = {} /\ settled' = {} /\ lateSlot' = {}
  /\ \/ main' = "script" /\ runErr' = "none" /\ iife' = "pending"
     \/ main' = "over" /\ runErr' = "compile" /\ UNCHANGED iife
  /\ UNCHANGED <<runtime, interrupt, dirty, sem, wpc, runs>>

(* The caller cancels, or the timeout passes.                              *)
ContextEnds ==
  /\ main \notin {"idle", "begin"} /\ ctxErr = "none"
  /\ ctxErr' \in {"deadline", "canceled"}
  /\ UNCHANGED <<main, runEnd, runErr, value, script, interrupt, watch, done,
                 calls, runs, result>>
-----------------------------------------------------------------------------
(* toolFunc: the script calls a tool; a worker is spawned for it.          *)
toolFunc(c) ==
  /\ main = "script" /\ c \notin issued
  /\ issued' = issued \cup {c}
  /\ inFlight' = inFlight + 1
  /\ wpc' = [wpc EXCEPT ![c] = "parked"]
  /\ UNCHANGED <<main, runState, script, interrupt, watch, done, sem, settled, lateSlot>>

(* A stretch of the script is over without an error, and the loop goes on. *)
ScriptYields ==
  /\ main = "script"
  /\ main' = "loop"
  /\ iife' \in IF iife = "pending" THEN {"pending", "fulfilled", "rejected"} ELSE {iife}
  /\ value' \in IF value # "nil" THEN {value}
                ELSE {"promise"} \cup (IF EscapesWrapper THEN {"other"} ELSE {})
  /\ UNCHANGED <<ctxErr, runEnd, runErr, runtime, interrupt, dirty, watch, done,
                 calls, runs, result>>

(* An error the script cannot catch escapes it.                            *)
ScriptThrows ==
  /\ main = "script"
  /\ main' = "over" /\ runErr' = "exec"
  /\ UNCHANGED <<ctxErr, runEnd, value, script, interrupt, watch, done, calls,
                 runs, result>>

(* The runtime notices its interrupt flag: the script is unwound, but not  *)
(* the runtime's own call stack.                                           *)
ScriptInterrupted ==
  /\ main = "script" /\ interrupt
  /\ main' = "over" /\ runErr' = "exec" /\ runtime' = "stranded"
  /\ UNCHANGED <<ctxErr, runEnd, value, iife, dirty, interrupt, watch, done, calls,
                 runs, result>>

(* loop: over when nothing is in flight, or when the run context has ended.*)
LoopEnds ==
  /\ main = "loop" /\ (inFlight = 0 \/ ctxErr # "none")
  /\ main' = "over"
  /\ UNCHANGED <<runState, script, interrupt, watch, done, calls>>

(* settle, on the loop goroutine: the promise of c is settled.             *)
settle(c) ==
  /\ settled' = settled \cup {c}
  /\ inFlight' = inFlight - 1

(* The loop receives a postback, and the continuation of the script runs.  *)
LoopSettles(c) ==
  /\ main = "loop" /\ inFlight > 0 /\ wpc[c] = "posting"
  /\ main' = "script"
  /\ wpc' = [wpc EXCEPT ![c] = "leaving"]
  /\ settle(c)
  /\ UNCHANGED <<runState, script, interrupt, watch, done, sem, issued, lateSlot>>
-----------------------------------------------------------------------------
(* The script is over: why the run ended is read before the cancel.        *)
ReadRunEnd ==
  /\ main = "over"
  /\ main' = "cancel" /\ runEnd' = ctxErr
  /\ UNCHANGED <<ctxErr, runErr, value, script, interrupt, watch, done, calls, runs, result>>

Cancel ==
  /\ main = "cancel"
  /\ main' = "close"
  /\ ctxErr' = IF ctxErr = "none" THEN "canceled" ELSE ctxErr
  /\ UNCHANGED <<runEnd, runErr, value, script, interrupt, watch, done, calls, runs, result>>

CloseDone ==
  /\ main = "close"
  /\ main' = "workers" /\ done' = TRUE
  /\ UNCHANGED <<runState, script, interrupt, watch, calls>>

(* Mutant: the run does not wait for its workers. *)
workersWait_Skipped == TRUE

workersWait == \A c \in Calls : wpc[c] = "gone"

WaitWorkers ==
  /\ main = "workers" /\ workersWait
  /\ main' = "watchdog"
  /\ UNCHANGED <<runState, script, interrupt, watch, done, calls>>

(* Mutant: the interrupt is cleared without waiting for the watchdog. *)
watchWait_Skipped == TRUE

watchWait == watch = "gone"

ClearInterrupt ==
  /\ main = "watchdog" /\ watchWait
  /\ main' = "assemble" /\ interrupt' = FALSE
  /\ UNCHANGED <<runState, script, watch, done, calls>>

(* Mutant: only an error marks the runtime unusable. *)
suspended_Ignored == FALSE

(* suspended: the promise RunProgram returned is still pending.            *)
suspended == value = "promise" /\ iife = "pending"

(* Mutant: the end of the context is not reported. *)
failed_ByErrorOnly == runErr # "none" \/ (value = "promise" /\ iife # "fulfilled")

(* assemble: the run failed when its context ended, on an error, or when   *)
(* the promise it has to look at was not fulfilled.                        *)
failed == \/ runEnd # "none"
          \/ runErr # "none"
          \/ value = "promise" /\ iife # "fulfilled"

Return ==
  /\ main = "assemble"
  /\ main' = "idle"
  /\ dirty' = (runErr = "exec" \/ suspended)
  /\ result' = IF failed THEN "failed" ELSE "ok"
  /\ UNCHANGED <<ctxErr, runEnd, runErr, value, iife, runtime, interrupt, watch, done,
                 calls, runs>>
-----------------------------------------------------------------------------
(* The watchdog sees the end of the context, then interrupts the runtime.  *)
WatchdogWakes ==
  /\ watch = "waiting" /\ ctxErr # "none"
  /\ watch' = "firing"
  /\ UNCHANGED <<main, runState, script, interrupt, done, calls>>

WatchdogFires ==
  /\ watch = "firing"
  /\ watch' = "gone" /\ interrupt' = TRUE
  /\ UNCHANGED <<main, runState, script, done, calls>>

Worker(c, from, to) ==
  /\ wpc[c] = from
  /\ wpc' = [wpc EXCEPT ![c] = to]
  /\ UNCHANGED <<main, runState, script, interrupt, watch, done, inFlight, issued, settled>>

(* runWorker: the select between a free slot and the end of the run ...    *)
WinSlot(c) ==
  /\ sem < Slots
  /\ Worker(c, "parked", "won")
  /\ sem' = sem + 1
  /\ lateSlot' = IF ctxErr # "none" THEN lateSlot \cup {c} ELSE lateSlot

Abandon(c) == done /\ Worker(c, "parked", "gone") /\ UNCHANGED <<sem, lateSlot>>

(* Mutant: a call that won a slot does not look at the run context again. *)
CheckContext_Skipped(c) ==
  Worker(c, "won", "starting") /\ UNCHANGED <<sem, lateSlot>>

(* ... and the look at the context of a call that won a slot.              *)
CheckContext(c) ==
  /\ Worker(c, "won", IF ctxErr = "none" THEN "starting" ELSE "leaving")
  /\ UNCHANGED <<sem, lateSlot>>

StartCall(c) == Worker(c, "starting", "calling") /\ UNCHANGED <<sem, lateSlot>>

CallReturns(c) == Worker(c, "calling", "posting") /\ UNCHANGED <<sem, lateSlot>>

(* Mutant: the postback waits for the loop and for nothing else. *)
DropPostback_Never(c) == FALSE /\ Worker(c, "posting", "leaving") /\ UNCHANGED <<sem, lateSlot>>

(* The postback of a call whose run is over is dropped.                    *)
DropPostback(c) == done /\ Worker(c, "posting", "leaving") /\ UNCHANGED <<sem, lateSlot>>

Leave(c) == Worker(c, "leaving", "gone") /\ sem' = sem - 1 /\ UNCHANGED lateSlot
-----------------------------------------------------------------------------
Init ==
  /\ main = "idle" /\ ctxErr = "none" /\ runEnd = "none" /\ runErr = "none"
  /\ value = "nil" /\ iife = "none" /\ runtime = "clean" /\ interrupt = FALSE
  /\ dirty = FALSE /\ watch = "gone" /\ done = TRUE /\ inFlight = 0 /\ sem = 0
  /\ wpc = [c \in Calls |-> "gone"]
  /\ runs = 0 /\ result = "none" /\ issued = {} /\ settled = {} /\ lateSlot = {}

Teardown == \/ ReadRunEnd \/ Cancel \/ CloseDone \/ WaitWorkers \/ ClearInterrupt \/ Return

Script == \/ ScriptYields \/ ScriptThrows \/ \E c \in Calls : toolFunc(c)

Loop == LoopEnds \/ \E c \in Calls : LoopSettles(c)

Watchdog == WatchdogWakes \/ WatchdogFires

WorkerStep(c) == \/ WinSlot(c) \/ Abandon(c) \/ CheckContext(c) \/ StartCall(c)
                 \/ DropPostback(c) \/ Leave(c)

(* No Run is left to begin. *)
Over == main = "idle" /\ runs = MaxRuns /\ UNCHANGED vars

Next == \/ Run \/ Start \/ ContextEnds \/ Script \/ ScriptInterrupted \/ Loop
        \/ Teardown \/ Watchdog \/ Over
        \/ \E c \in Calls : WorkerStep(c) \/ CallReturns(c)

(* Goroutines are scheduled, the timeout passes, and a running script      *)
(* notices an interrupt.  A tool returns once its context has ended (the   *)
(* contract of ToolFunc) and owes nothing before; a script may spin.       *)
Fairness ==
  /\ WF_vars(Start \/ Teardown) /\ WF_vars(Loop) /\ WF_vars(Watchdog)
  /\ WF_vars(ContextEnds) /\ WF_vars(ScriptInterrupted)
  /\ \A c \in Calls : WF_vars(WorkerStep(c)) /\ WF_vars(ctxErr # "none" /\ CallReturns(c))

Spec == Init /\ [][Next]_vars /\ Fairness
-----------------------------------------------------------------------------
(* The types of the state; in particular inFlight never goes below zero    *)
(* and no more slots are taken than the semaphore holds.                   *)
TypeOK ==
  /\ main \in {"idle", "begin", "script", "loop", "over", "cancel", "close", "workers",
               "watchdog", "assemble"}
  /\ ctxErr \in {"none", "deadline", "canceled"} /\ runEnd \in {"none", "deadline", "canceled"}
  /\ runErr \in {"none", "compile", "exec"} /\ value \in {"nil", "promise", "other"}
  /\ iife \in {"none", "pending", "fulfilled", "rejected"}
  /\ runtime \in {"clean", "stranded", "partial"}
  /\ interrupt \in BOOLEAN /\ dirty \in BOOLEAN /\ done \in BOOLEAN
  /\ watch \in {"waiting", "firing", "gone"}
  /\ inFlight \in Nat /\ sem \in 0..Slots
  /\ wpc \in [Calls -> Holding \cup {"parked", "gone"}]
  /\ runs \in 0..MaxRuns /\ result \in {"none", "ok", "failed", "error"}
  /\ issued \subseteq Calls /\ settled \subseteq Calls /\ lateSlot \subseteq Calls

(* Never more tool functions at once than slots, and no slot leaks: when a *)
(* Run has returned, every worker it spawned is gone and every slot free,  *)
(* so the next Run rewrites the per-run fields under nobody.               *)
SlotsAccounted ==
  /\ Cardinality({c \in Calls : wpc[c] \in Holding}) <= Slots
  /\ main \in {"idle", "begin"} => sem = 0 /\ \A c \in Calls : wpc[c] = "gone"

(* An interrupt never outlives the Run whose context ended: the flag is    *)
(* down whenever the context of the Run in progress is live, so no Run is  *)
(* interrupted by the watchdog of an earlier one.                          *)
NoStaleInterrupt ==
  interrupt \/ watch = "firing" => ctxErr # "none" /\ main \notin {"idle", "begin"}

(* A script never starts on a runtime that an interrupt stranded, that     *)
(* still holds a suspended script, or whose rebuild failed.                *)
StartsOnCleanRuntime == main = "begin" => runtime = "clean" /\ iife # "pending"

(* A call that wins its slot only after the run context has ended never    *)
(* starts its tool, although the slot and the end of the run race.         *)
NoLateStart == \A c \in lateSlot : wpc[c] \notin {"starting", "calling", "posting"}

(* A Run that reports success fulfilled its promise, and every call its    *)
(* script issued, awaited or not, was settled in the runtime.              *)
SuccessIsComplete == result = "ok" => iife = "fulfilled" /\ settled = issued

(* A Run returns, however the script and its calls behave.                 *)
RunReturns == main # "idle" ~> main = "idle"
=============================================================================
