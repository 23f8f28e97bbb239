--------------------------- MODULE SandboxProofs ---------------------------
(***************************************************************************)
(* Proofs about the sandbox for any finite set of calls, any number of     *)
(* slots and any number of Runs.  None of the properties is inductive; the *)
(* conjuncts of IInv say what each rests on: the semaphore and inFlight    *)
(* count the workers (SlotsOK, FlightOK), a worker lives only inside its   *)
(* Run (WorkersOK), the watchdog and the flag it raises follow the end of  *)
(* the run context (WatchOK), what the teardown knows about the script     *)
(* (OutcomeOK), and the runtime is usable unless marked dirty (RuntimeOK). *)
(***************************************************************************)
EXTENDS Sandbox, FiniteSetTheorems, TLAPS

Holders == {c \in Calls : wpc[c] \in Holding}

Outstanding == issued \ settled

SlotsOK == sem = Cardinality(Holders)

FlightOK == inFlight = Cardinality(Outstanding) /\ settled \subseteq issued

Between == {"idle", "begin", "watchdog", "assemble"}
Ended == {"cancel", "close", "workers", "watchdog", "assemble"}

WorkersOK ==
  /\ main \in Between => \A c \in Calls : wpc[c] = "gone"
  /\ \A c \in Calls :
       /\ wpc[c] \in {"parked", "won", "starting", "calling", "posting"} => c \in Outstanding
       /\ c \notin issued => wpc[c] = "gone"
       /\ c \in lateSlot => /\ c \in issued /\ ctxErr # "none"
                            /\ wpc[c] \in {"won", "leaving", "gone"}

WatchOK ==
  /\ main \in {"idle", "begin", "assemble"} => watch = "gone" /\ ~interrupt
  /\ watch = "firing" \/ interrupt => ctxErr # "none"

OutcomeOK ==
  /\ main \in {"script", "loop"} => runErr = "none"
  /\ main = "loop" => value # "nil"
  /\ main \in {"over"} \cup Ended /\ runErr = "none" => value # "nil"
  /\ main = "over" /\ runErr = "none" => inFlight = 0 \/ ctxErr # "none"
  /\ main \in Ended /\ runErr = "none" /\ runEnd = "none" => inFlight = 0
  /\ main \notin {"idle", "begin"} => result = "none"
  /\ result = "ok" => /\ iife = "fulfilled" \/ value = "other"
                      /\ settled = issued /\ ~dirty
  /\ value = "other" => EscapesWrapper

RuntimeOK ==
  /\ main = "idle" /\ ~dirty => runtime = "clean"
  /\ main = "begin" => runtime = "clean" /\ ~dirty
  /\ main \in {"script", "loop"} => runtime = "clean"
  /\ main \in {"over"} \cup Ended => runtime = "clean" \/ runErr = "exec"
  /\ main \in {"over"} \cup Ended /\ runErr = "compile" => iife # "pending" \/ EscapesWrapper
  /\ main \in {"idle", "begin"} /\ ~dirty => iife # "pending" \/ EscapesWrapper

IInv == TypeOK /\ SlotsOK /\ FlightOK /\ WorkersOK /\ WatchOK /\ OutcomeOK /\ RuntimeOK
-----------------------------------------------------------------------------
(* Counting: the holders of slots and the outstanding calls are finite, and*)
(* a step of one call changes each count by at most one.                   *)
LEMMA SetsFinite ==
  ASSUME TypeOK PROVE IsFiniteSet(Holders) /\ IsFiniteSet(Outstanding)
  BY CallsAssumption, FS_Subset DEF Holders, Outstanding, TypeOK

LEMMA SlotTaken ==
  ASSUME TypeOK, SlotsOK, NEW c \in Calls, NEW to \in Holding, wpc[c] \notin Holding,
         wpc' = [wpc EXCEPT ![c] = to]
  PROVE  Cardinality(Holders') = sem + 1
<1>1. Holders' = Holders \cup {c} /\ c \notin Holders
  BY DEF Holders, TypeOK
<1>2. QED
  BY <1>1, SetsFinite, FS_AddElement DEF SlotsOK

LEMMA SlotFreed ==
  ASSUME TypeOK, SlotsOK, NEW c \in Calls, NEW to, to \notin Holding, wpc[c] \in Holding,
         wpc' = [wpc EXCEPT ![c] = to]
  PROVE  Cardinality(Holders') = sem - 1 /\ sem > 0
<1>1. Holders' = Holders \ {c} /\ c \in Holders
  BY DEF Holders, TypeOK
<1>2. Cardinality(Holders') = sem - 1
  BY <1>1, SetsFinite, FS_RemoveElement DEF SlotsOK
<1>3. sem # 0
  BY <1>1, SetsFinite, FS_EmptySet DEF SlotsOK
<1>4. QED
  BY <1>2, <1>3 DEF TypeOK

LEMMA SlotKept ==
  ASSUME TypeOK, NEW c \in Calls, NEW to, wpc[c] \in Holding <=> to \in Holding,
         wpc' = [wpc EXCEPT ![c] = to]
  PROVE  Holders' = Holders
  BY DEF Holders, TypeOK

LEMMA CallsKept ==
  ASSUME SlotsOK, FlightOK, UNCHANGED calls PROVE SlotsOK' /\ FlightOK'
  BY DEF SlotsOK, FlightOK, Holders, Outstanding, calls
-----------------------------------------------------------------------------
(* The steps of the loop goroutine and of the watchdog that leave the      *)
(* calls alone.                                                            *)
LEMMA RunStep == ASSUME IInv, Run PROVE IInv'
<1> USE DEF IInv, Run, runState, script, refresh
<1>1. SlotsOK' /\ FlightOK'
  BY CallsKept
<1>2. TypeOK'
  <2>1. runs' \in 0..MaxRuns
    BY RunsAssumption DEF TypeOK
  <2>2. /\ main' \in {"begin", "idle"} /\ iife' \in {iife, "none"} /\ dirty' \in BOOLEAN
        /\ runtime' \in {runtime, "clean", "partial"} /\ result' \in {result, "error"}
    BY DEF TypeOK
  <2>3. QED
    BY <2>1, <2>2 DEF TypeOK, calls
<1>3. WorkersOK'
  BY DEF WorkersOK, Between, Outstanding, TypeOK, calls
<1>4. WatchOK'
  BY DEF WatchOK, TypeOK
<1>5. OutcomeOK'
  BY DEF OutcomeOK, Ended, TypeOK, calls
<1>6. RuntimeOK'
  BY DEF RuntimeOK, OutcomeOK, Ended, TypeOK
<1>7. QED
  BY <1>1, <1>2, <1>3, <1>4, <1>5, <1>6

LEMMA ContextEndsStep == ASSUME IInv, ContextEnds PROVE IInv'
<1> USE DEF IInv, ContextEnds, runState, script
<1>1. SlotsOK' /\ FlightOK'
  BY CallsKept
<1>2. TypeOK'
  BY DEF TypeOK, calls
<1>3. WorkersOK'
  BY DEF WorkersOK, Between, Outstanding, TypeOK, calls
<1>4. WatchOK'
  BY DEF WatchOK, TypeOK
<1>5. OutcomeOK'
  BY DEF OutcomeOK, Ended, TypeOK, calls
<1>6. RuntimeOK'
  BY DEF RuntimeOK, OutcomeOK, Ended, TypeOK
<1>7. QED
  BY <1>1, <1>2, <1>3, <1>4, <1>5, <1>6

LEMMA ScriptYieldsStep == ASSUME IInv, ScriptYields PROVE IInv'
<1> USE DEF IInv, ScriptYields, runState, script
<1>1. SlotsOK' /\ FlightOK'
  BY CallsKept
<1>2. TypeOK'
  BY DEF TypeOK, calls
<1>3. WorkersOK'
  BY DEF WorkersOK, Between, Outstanding, TypeOK, calls
<1>4. WatchOK'
  BY DEF WatchOK, TypeOK
<1>5. OutcomeOK'
  BY DEF OutcomeOK, Ended, TypeOK, calls
<1>6. RuntimeOK'
  BY DEF RuntimeOK, OutcomeOK, Ended, TypeOK
<1>7. QED
  BY <1>1, <1>2, <1>3, <1>4, <1>5, <1>6

LEMMA ScriptThrowsStep == ASSUME IInv, ScriptThrows PROVE IInv'
<1> USE DEF IInv, ScriptThrows, runState, script
<1>1. SlotsOK' /\ FlightOK'
  BY CallsKept
<1>2. TypeOK'
  BY DEF TypeOK, calls
<1>3. WorkersOK'
  BY DEF WorkersOK, Between, Outstanding, TypeOK, calls
<1>4. WatchOK'
  BY DEF WatchOK, TypeOK
<1>5. OutcomeOK'
  BY DEF OutcomeOK, Ended, TypeOK, calls
<1>6. RuntimeOK'
  BY DEF RuntimeOK, OutcomeOK, Ended, TypeOK
<1>7. QED
  BY <1>1, <1>2, <1>3, <1>4, <1>5, <1>6

LEMMA ScriptInterruptedStep == ASSUME IInv, ScriptInterrupted PROVE IInv'
<1> USE DEF IInv, ScriptInterrupted, runState, script
<1>1. SlotsOK' /\ FlightOK'
  BY CallsKept
<1>2. TypeOK'
  BY DEF TypeOK, calls
<1>3. WorkersOK'
  BY DEF WorkersOK, Between, Outstanding, TypeOK, calls
<1>4. WatchOK'
  BY DEF WatchOK, TypeOK
<1>5. OutcomeOK'
  BY DEF OutcomeOK, Ended, TypeOK, calls
<1>6. RuntimeOK'
  BY DEF RuntimeOK, OutcomeOK, Ended, TypeOK
<1>7. QED
  BY <1>1, <1>2, <1>3, <1>4, <1>5, <1>6

LEMMA LoopEndsStep == ASSUME IInv, LoopEnds PROVE IInv'
<1> USE DEF IInv, LoopEnds, runState, script
<1>1. SlotsOK' /\ FlightOK'
  BY CallsKept
<1>2. TypeOK'
  BY DEF TypeOK, calls
<1>3. WorkersOK'
  BY DEF WorkersOK, Between, Outstanding, TypeOK, calls
<1>4. WatchOK'
  BY DEF WatchOK, TypeOK
<1>5. OutcomeOK'
  BY DEF OutcomeOK, Ended, TypeOK, calls
<1>6. RuntimeOK'
  BY DEF RuntimeOK, OutcomeOK, Ended, TypeOK
<1>7. QED
  BY <1>1, <1>2, <1>3, <1>4, <1>5, <1>6

LEMMA ReadRunEndStep == ASSUME IInv, ReadRunEnd PROVE IInv'
<1> USE DEF IInv, ReadRunEnd, runState, script
<1>1. SlotsOK' /\ FlightOK'
  BY CallsKept
<1>2. TypeOK'
  BY DEF TypeOK, calls
<1>3. WorkersOK'
  BY DEF WorkersOK, Between, Outstanding, TypeOK, calls
<1>4. WatchOK'
  BY DEF WatchOK, TypeOK
<1>5. OutcomeOK'
  BY DEF OutcomeOK, Ended, TypeOK, calls
<1>6. RuntimeOK'
  BY DEF RuntimeOK, OutcomeOK, Ended, TypeOK
<1>7. QED
  BY <1>1, <1>2, <1>3, <1>4, <1>5, <1>6

LEMMA CancelStep == ASSUME IInv, Cancel PROVE IInv'
<1> USE DEF IInv, Cancel, runState, script
<1>1. SlotsOK' /\ FlightOK'
  BY CallsKept
<1>2. TypeOK'
  BY DEF TypeOK, calls
<1>3. WorkersOK'
  BY DEF WorkersOK, Between, Outstanding, TypeOK, calls
<1>4. WatchOK'
  BY DEF WatchOK, TypeOK
<1>5. OutcomeOK'
  BY DEF OutcomeOK, Ended, TypeOK, calls
<1>6. RuntimeOK'
  BY DEF RuntimeOK, OutcomeOK, Ended, TypeOK
<1>7. QED
  BY <1>1, <1>2, <1>3, <1>4, <1>5, <1>6

LEMMA CloseDoneStep == ASSUME IInv, CloseDone PROVE IInv'
<1> USE DEF IInv, CloseDone, runState, script
<1>1. SlotsOK' /\ FlightOK'
  BY CallsKept
<1>2. TypeOK'
  BY DEF TypeOK, calls
<1>3. WorkersOK'
  BY DEF WorkersOK, Between, Outstanding, TypeOK, calls
<1>4. WatchOK'
  BY DEF WatchOK, TypeOK
<1>5. OutcomeOK'
  BY DEF OutcomeOK, Ended, TypeOK, calls
<1>6. RuntimeOK'
  BY DEF RuntimeOK, OutcomeOK, Ended, TypeOK
<1>7. QED
  BY <1>1, <1>2, <1>3, <1>4, <1>5, <1>6

LEMMA WaitWorkersStep == ASSUME IInv, WaitWorkers PROVE IInv'
<1> USE DEF IInv, WaitWorkers, runState, script, workersWait
<1>1. SlotsOK' /\ FlightOK'
  BY CallsKept
<1>2. TypeOK'
  BY DEF TypeOK, calls
<1>3. WorkersOK'
  BY DEF WorkersOK, Between, Outstanding, TypeOK, calls
<1>4. WatchOK'
  BY DEF WatchOK, TypeOK
<1>5. OutcomeOK'
  BY DEF OutcomeOK, Ended, TypeOK, calls
<1>6. RuntimeOK'
  BY DEF RuntimeOK, OutcomeOK, Ended, TypeOK
<1>7. QED
  BY <1>1, <1>2, <1>3, <1>4, <1>5, <1>6

LEMMA ClearInterruptStep == ASSUME IInv, ClearInterrupt PROVE IInv'
<1> USE DEF IInv, ClearInterrupt, runState, script, watchWait
<1>1. SlotsOK' /\ FlightOK'
  BY CallsKept
<1>2. TypeOK'
  <2>1. interrupt' \in BOOLEAN
    OBVIOUS
  <2>2. QED
    BY <2>1 DEF TypeOK, calls
<1>3. WorkersOK'
  BY DEF WorkersOK, Between, Outstanding, TypeOK, calls
<1>4. WatchOK'
  BY DEF WatchOK, TypeOK
<1>5. OutcomeOK'
  BY DEF OutcomeOK, Ended, TypeOK, calls
<1>6. RuntimeOK'
  BY DEF RuntimeOK, OutcomeOK, Ended, TypeOK
<1>7. QED
  BY <1>1, <1>2, <1>3, <1>4, <1>5, <1>6

LEMMA ReturnStep == ASSUME IInv, Return PROVE IInv'
<1> USE DEF IInv, Return, runState, script, suspended, failed
<1>1. SlotsOK' /\ FlightOK'
  BY CallsKept
<1>2. TypeOK'
  BY DEF TypeOK, calls
<1>3. WorkersOK'
  BY DEF WorkersOK, Between, Outstanding, TypeOK, calls
<1>4. WatchOK'
  BY DEF WatchOK, TypeOK
<1>5. OutcomeOK'
  <2>1. inFlight = 0 => settled = issued
    BY SetsFinite, FS_EmptySet DEF FlightOK, Outstanding
  <2>2. QED
    BY <2>1 DEF OutcomeOK, Ended, TypeOK, calls
<1>6. RuntimeOK'
  BY DEF RuntimeOK, OutcomeOK, Ended, TypeOK
<1>7. QED
  BY <1>1, <1>2, <1>3, <1>4, <1>5, <1>6

LEMMA WatchdogWakesStep == ASSUME IInv, WatchdogWakes PROVE IInv'
<1> USE DEF IInv, WatchdogWakes, runState, script
<1>1. SlotsOK' /\ FlightOK'
  BY CallsKept
<1>2. TypeOK'
  BY DEF TypeOK, calls
<1>3. WorkersOK'
  BY DEF WorkersOK, Between, Outstanding, TypeOK, calls
<1>4. WatchOK'
  BY DEF WatchOK, TypeOK
<1>5. OutcomeOK'
  BY DEF OutcomeOK, Ended, TypeOK, calls
<1>6. RuntimeOK'
  BY DEF RuntimeOK, OutcomeOK, Ended, TypeOK
<1>7. QED
  BY <1>1, <1>2, <1>3, <1>4, <1>5, <1>6

LEMMA WatchdogFiresStep == ASSUME IInv, WatchdogFires PROVE IInv'
<1> USE DEF IInv, WatchdogFires, runState, script
<1>1. SlotsOK' /\ FlightOK'
  BY CallsKept
<1>2. TypeOK'
  BY DEF TypeOK, calls
<1>3. WorkersOK'
  BY DEF WorkersOK, Between, Outstanding, TypeOK, calls
<1>4. WatchOK'
  BY DEF WatchOK, TypeOK
<1>5. OutcomeOK'
  BY DEF OutcomeOK, Ended, TypeOK, calls
<1>6. RuntimeOK'
  BY DEF RuntimeOK, OutcomeOK, Ended, TypeOK
<1>7. QED
  BY <1>1, <1>2, <1>3, <1>4, <1>5, <1>6

-----------------------------------------------------------------------------
(* The steps that begin a run's bookkeeping, issue, settle and serve calls.*)
LEMMA StartStep == ASSUME IInv, Start PROVE IInv'
<1> USE DEF IInv, Start
<1>1. SlotsOK'
  BY DEF SlotsOK, Holders
<1>2. FlightOK'
  BY FS_EmptySet DEF FlightOK, Outstanding
<1>3. TypeOK'
  BY DEF TypeOK
<1>4. WorkersOK'
  BY DEF WorkersOK, Between, Outstanding, TypeOK
<1>5. WatchOK'
  BY DEF WatchOK, TypeOK
<1>6. OutcomeOK'
  BY DEF OutcomeOK, Ended, TypeOK
<1>7. RuntimeOK'
  BY DEF RuntimeOK, Ended, TypeOK
<1>8. QED
  BY <1>1, <1>2, <1>3, <1>4, <1>5, <1>6, <1>7

LEMMA toolFuncStep == ASSUME IInv, NEW c \in Calls, toolFunc(c) PROVE IInv'
<1> USE DEF IInv, toolFunc, runState, script
<1>0. wpc[c] = "gone"
  BY DEF WorkersOK
<1>1. SlotsOK'
  BY <1>0, SlotKept DEF SlotsOK, Holding
<1>2. FlightOK'
  <2>1. c \notin Outstanding /\ Outstanding' = Outstanding \cup {c}
    BY DEF Outstanding, FlightOK
  <2>2. QED
    BY <2>1, SetsFinite, FS_AddElement DEF FlightOK
<1>3. TypeOK'
  BY DEF TypeOK
<1>4. WorkersOK'
  BY DEF WorkersOK, Between, Outstanding, FlightOK, TypeOK
<1>5. WatchOK'
  BY DEF WatchOK, TypeOK
<1>6. OutcomeOK'
  BY DEF OutcomeOK, Ended, TypeOK
<1>7. RuntimeOK'
  BY DEF RuntimeOK, Ended, TypeOK
<1>8. QED
  BY <1>1, <1>2, <1>3, <1>4, <1>5, <1>6, <1>7

LEMMA LoopSettlesStep == ASSUME IInv, NEW c \in Calls, LoopSettles(c) PROVE IInv'
<1> USE DEF IInv, LoopSettles, settle, runState, script
<1>1. SlotsOK'
  BY SlotKept DEF SlotsOK, Holding
<1>2. FlightOK'
  <2>1. c \in Outstanding /\ Outstanding' = Outstanding \ {c}
    BY DEF Outstanding, WorkersOK
  <2>2. Cardinality(Outstanding') = inFlight - 1
    BY <2>1, SetsFinite, FS_RemoveElement DEF FlightOK
  <2>3. QED
    BY <2>1, <2>2 DEF FlightOK, Outstanding
<1>3. TypeOK'
  BY DEF TypeOK, Holding
<1>4. WorkersOK'
  BY DEF WorkersOK, Between, Outstanding, TypeOK
<1>5. WatchOK'
  BY DEF WatchOK, TypeOK
<1>6. OutcomeOK'
  BY DEF OutcomeOK, Ended, TypeOK
<1>7. RuntimeOK'
  BY DEF RuntimeOK, Ended, TypeOK
<1>8. QED
  BY <1>1, <1>2, <1>3, <1>4, <1>5, <1>6, <1>7

(* A worker's step leaves the run alone; what remains is its own place.    *)
LEMMA WorkerFrame ==
  ASSUME IInv, NEW c \in Calls, NEW from, NEW to, Worker(c, from, to)
  PROVE  FlightOK' /\ WatchOK' /\ OutcomeOK' /\ RuntimeOK'
  BY DEF IInv, Worker, FlightOK, Outstanding, WatchOK, OutcomeOK, RuntimeOK, Ended, runState, script

LEMMA WinSlotStep == ASSUME IInv, NEW c \in Calls, WinSlot(c) PROVE IInv'
<1> USE DEF IInv, WinSlot
<1>1. FlightOK' /\ WatchOK' /\ OutcomeOK' /\ RuntimeOK'
  BY WorkerFrame
<1>2. SlotsOK'
  BY SlotTaken DEF SlotsOK, Worker, Holding
<1>3. TypeOK'
  BY SlotsAssumption DEF TypeOK, Worker, Holding, runState, script
<1>4. WorkersOK'
  BY DEF WorkersOK, Between, Outstanding, Worker, runState, TypeOK
<1>5. QED
  BY <1>1, <1>2, <1>3, <1>4

LEMMA AbandonStep == ASSUME IInv, NEW c \in Calls, Abandon(c) PROVE IInv'
<1> USE DEF IInv, Abandon
<1>1. FlightOK' /\ WatchOK' /\ OutcomeOK' /\ RuntimeOK'
  BY WorkerFrame
<1>2. SlotsOK'
  BY SlotKept DEF SlotsOK, Worker, Holding
<1>3. TypeOK'
  BY DEF TypeOK, Worker, Holding, runState, script
<1>4. WorkersOK'
  BY DEF WorkersOK, Between, Outstanding, Worker, runState, TypeOK
<1>5. QED
  BY <1>1, <1>2, <1>3, <1>4

(* Steps of a worker that holds its slot before and after.                 *)
LEMMA HeldSlotStep ==
  ASSUME IInv, NEW c \in Calls,
         CheckContext(c) \/ StartCall(c) \/ CallReturns(c) \/ DropPostback(c)
  PROVE  IInv'
<1> USE DEF IInv
<1>0. PICK from \in Holding, to \in Holding :
        /\ Worker(c, from, to) /\ UNCHANGED <<sem, lateSlot>>
        /\ from = "won" /\ ctxErr # "none" => to = "leaving"
        /\ from # "leaving"
        /\ c \in lateSlot => from = "won"
  BY DEF CheckContext, StartCall, CallReturns, DropPostback, Worker, Holding, WorkersOK
<1>1. FlightOK' /\ WatchOK' /\ OutcomeOK' /\ RuntimeOK'
  BY <1>0, WorkerFrame
<1>2. SlotsOK'
  BY <1>0, SlotKept DEF SlotsOK, Worker
<1>3. TypeOK'
  BY <1>0 DEF TypeOK, Worker, runState, script
<1>4. WorkersOK'
  BY <1>0 DEF WorkersOK, Between, Outstanding, Worker, Holding, runState, TypeOK
<1>5. QED
  BY <1>1, <1>2, <1>3, <1>4

LEMMA LeaveStep == ASSUME IInv, NEW c \in Calls, Leave(c) PROVE IInv'
<1> USE DEF IInv, Leave
<1>1. FlightOK' /\ WatchOK' /\ OutcomeOK' /\ RuntimeOK'
  BY WorkerFrame
<1>2. SlotsOK' /\ sem > 0
  BY SlotFreed DEF SlotsOK, Worker, Holding
<1>3. TypeOK'
  BY <1>2, SlotsAssumption DEF TypeOK, Worker, Holding, runState, script
<1>4. WorkersOK'
  BY DEF WorkersOK, Between, Outstanding, Worker, runState, TypeOK
<1>5. QED
  BY <1>1, <1>2, <1>3, <1>4
-----------------------------------------------------------------------------
LEMMA InitIInv == Init => IInv
<1> SUFFICES ASSUME Init PROVE IInv
  OBVIOUS
<1>1. TypeOK
  <2>1. sem \in 0..Slots /\ runs \in 0..MaxRuns
    BY SlotsAssumption, RunsAssumption DEF Init
  <2>2. interrupt \in BOOLEAN /\ dirty \in BOOLEAN /\ done \in BOOLEAN
    BY DEF Init
  <2>3. QED
    BY <2>1, <2>2 DEF Init, TypeOK
<1>2. Holders = {} /\ Outstanding = {}
  BY DEF Init, Holders, Holding, Outstanding
<1>3. SlotsOK /\ FlightOK
  BY <1>2, FS_EmptySet DEF Init, SlotsOK, FlightOK
<1>4. WorkersOK /\ WatchOK /\ OutcomeOK /\ RuntimeOK
  BY DEF Init, WorkersOK, WatchOK, OutcomeOK, RuntimeOK, Between, Ended, Outstanding
<1>5. QED
  BY <1>1, <1>3, <1>4 DEF IInv

LEMMA StutterIInv == ASSUME IInv, UNCHANGED vars PROVE IInv'
  BY DEF IInv, vars, TypeOK, SlotsOK, FlightOK, WorkersOK, WatchOK, OutcomeOK, RuntimeOK,
         Holders, Outstanding

LEMMA NextIInv == ASSUME IInv, [Next]_vars PROVE IInv'
<1>1. CASE Run \/ Start \/ ContextEnds \/ Script \/ ScriptInterrupted \/ Loop
  BY <1>1, RunStep, StartStep, ContextEndsStep, ScriptYieldsStep, ScriptThrowsStep, toolFuncStep,
     ScriptInterruptedStep, LoopEndsStep, LoopSettlesStep DEF Script, Loop
<1>2. CASE Teardown \/ Watchdog
  BY <1>2, ReadRunEndStep, CancelStep, CloseDoneStep, WaitWorkersStep, ClearInterruptStep,
     ReturnStep, WatchdogWakesStep, WatchdogFiresStep DEF Teardown, Watchdog
<1>3. CASE \E c \in Calls : WorkerStep(c) \/ CallReturns(c)
  BY <1>3, WinSlotStep, AbandonStep, HeldSlotStep, LeaveStep DEF WorkerStep
<1>4. CASE UNCHANGED vars
  BY <1>4, StutterIInv
<1>5. QED
  BY <1>1, <1>2, <1>3, <1>4 DEF Next, Over

LEMMA Invariance == Spec => []IInv
  BY InitIInv, NextIInv, PTL DEF Spec

(* Every reachable state of the sandbox is well typed: the count of calls  *)
(* in flight never goes below zero, the semaphore never over its capacity. *)
THEOREM TypeCorrect == Spec => []TypeOK
  BY Invariance, PTL DEF IInv

(* Never more tool functions at once than slots, and none is alive or      *)
(* holding a slot when a Run has returned.                                 *)
THEOREM SlotsNeverLeak == Spec => []SlotsAccounted
<1>1. ASSUME IInv PROVE SlotsAccounted
  <2>1. Cardinality(Holders) <= Slots
    BY <1>1, SlotsAssumption DEF IInv, SlotsOK, TypeOK
  <2>2. ASSUME main \in {"idle", "begin"} PROVE sem = 0 /\ \A c \in Calls : wpc[c] = "gone"
    <3>1. \A c \in Calls : wpc[c] = "gone"
      BY <1>1, <2>2 DEF IInv, WorkersOK, Between
    <3>2. Holders = {}
      BY <3>1 DEF Holders, Holding
    <3>3. QED
      BY <1>1, <3>1, <3>2, FS_EmptySet DEF IInv, SlotsOK
  <2>3. QED
    BY <2>1, <2>2 DEF SlotsAccounted, Holders
<1>2. QED
  BY <1>1, Invariance, PTL

(* The watchdog of one Run never interrupts the script of another. *)
THEOREM InterruptsStayHome == Spec => []NoStaleInterrupt
<1>1. ASSUME IInv PROVE NoStaleInterrupt
  BY <1>1 DEF IInv, WatchOK, NoStaleInterrupt
<1>2. QED
  BY <1>1, Invariance, PTL

(* A call whose slot came free only after the end of the run context never *)
(* starts its tool.                                                        *)
THEOREM LateSlotsUnused == Spec => []NoLateStart
<1>1. ASSUME IInv PROVE NoLateStart
  BY <1>1 DEF IInv, TypeOK, WorkersOK, NoLateStart
<1>2. QED
  BY <1>1, Invariance, PTL

(* As long as scripts stay inside the async wrapper, no script starts on a *)
(* runtime that is stranded, half built or holding a suspended script.     *)
THEOREM CleanStart == ASSUME ~EscapesWrapper PROVE Spec => []StartsOnCleanRuntime
<1>1. ASSUME IInv PROVE StartsOnCleanRuntime
  BY <1>1 DEF IInv, RuntimeOK, StartsOnCleanRuntime
<1>2. QED
  BY <1>1, Invariance, PTL

(* As long as scripts stay inside the async wrapper, a Run that reports    *)
(* success fulfilled its promise and settled every call it issued.         *)
THEOREM SuccessComplete == ASSUME ~EscapesWrapper PROVE Spec => []SuccessIsComplete
<1>1. ASSUME IInv PROVE SuccessIsComplete
  BY <1>1 DEF IInv, OutcomeOK, SuccessIsComplete
<1>2. QED
  BY <1>1, Invariance, PTL
=============================================================================
