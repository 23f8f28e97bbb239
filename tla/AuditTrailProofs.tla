------------------------- MODULE AuditTrailProofs -------------------------
(***************************************************************************)
(* Proofs about the audit trail, for any finite set of detached calls and  *)
(* any sets of tool calls and inner calls: the state is well typed, a      *)
(* clean close is complete, attempts come first, and the trail implements  *)
(* AuditContract.                                                          *)
(*                                                                         *)
(* CleanCloseIsComplete is not inductive.  IInv adds what it rests on:     *)
(* holds counts the detached calls that may still write (HoldsOK), a call  *)
(* has the records its place in the protocol implies unless a failure is   *)
(* latched (RecordsOK), an inner call lives inside the tool call in        *)
(* progress (CallsOK), and the closer's last reading of the holds stays    *)
(* true because Hold refuses from then on (CloserOK).                      *)
(***************************************************************************)
EXTENDS AuditTrail, FiniteSetTheorems, TLAPS

HoldsOK == holds = Cardinality(Holders)

RecordOK(c) ==
  /\ rec[c].attempt <= seq /\ rec[c].result <= seq
  /\ pc[c] \in {"new", "spawned", "held"} => rec[c].attempt = 0 /\ rec[c].result = 0
  /\ pc[c] \in {"sent", "answered"} => rec[c].attempt > 0 /\ rec[c].result = 0
  /\ rec[c].result > 0 => 0 < rec[c].attempt /\ rec[c].attempt < rec[c].result
  /\ rec[c].attempt > 0 /\ rec[c].result = 0 /\ pc[c] \in {"releasing", "gone"} => latched

RecordsOK == \A c \in Calls : RecordOK(c)

CallsOK ==
  /\ \A o \in Outer : /\ pc[o] \in {"new", "sent", "answered", "gone"}
                      /\ pc[o] \in {"sent", "answered"} => cur = o
  /\ \A i \in Inner : /\ pc[i] \in {"new", "spawned", "sent", "answered", "gone"}
                      /\ pc[i] \in {"spawned", "sent", "answered"} =>
                           cur \in Outer /\ parent[i] = cur /\ pc[cur] = "sent"
  /\ \A b \in Boot : pc[b] # "new" => parent[b] \in Outer
  /\ stage # "session" => cur = NoCall

CloserOK ==
  /\ closing <=> stage \in {"closing", "report", "closed"}
  /\ closing /\ pending = 0 => Holders = {}
  /\ verdict # "none" <=> stage = "closed"
  /\ verdict = "clean" => pending = 0 /\ ~latched
  /\ fatal # {} => latched \/ closing

IInv == TypeOK /\ HoldsOK /\ RecordsOK /\ CallsOK /\ CloserOK
-----------------------------------------------------------------------------
(* The holders are a finite set; they change only with a step of a boot    *)
(* call into or out of the places where it holds the log.                  *)
LEMMA HoldersFinite == IsFiniteSet(Holders)
  BY CallsAssumption, FS_Subset DEF Holders

LEMMA HoldersSame ==
  ASSUME TypeOK, NEW c \in Calls, NEW x, Goto(c, x),
         c \in Boot => (pc[c] \in Holder <=> x \in Holder)
  PROVE  Holders' = Holders
  BY DEF Holders, Goto, TypeOK, Calls

LEMMA HoldersAdd ==
  ASSUME TypeOK, HoldsOK, NEW b \in Boot, NEW x \in Holder, Goto(b, x), pc[b] \notin Holder
  PROVE  /\ Holders' = Holders \cup {b}
         /\ Cardinality(Holders') = holds + 1
<1>1. Holders' = Holders \cup {b} /\ b \notin Holders
  BY DEF Holders, Goto, TypeOK, Calls
<1>2. QED
  BY <1>1, HoldersFinite, FS_AddElement DEF HoldsOK

LEMMA HoldersRemove ==
  ASSUME TypeOK, HoldsOK, NEW b \in Boot, NEW x, x \notin Holder, Goto(b, x), pc[b] \in Holder
  PROVE  /\ Holders' = Holders \ {b}
         /\ Cardinality(Holders') = holds - 1
         /\ holds > 0
<1>1. Holders' = Holders \ {b} /\ b \in Holders
  BY DEF Holders, Goto, TypeOK, Calls
<1>2. Cardinality(Holders') = holds - 1
  BY <1>1, HoldersFinite, FS_RemoveElement DEF HoldsOK
<1>3. holds > 0
  BY <1>1, HoldersFinite, FS_EmptySet DEF HoldsOK, TypeOK
<1>4. QED
  BY <1>1, <1>2, <1>3
-----------------------------------------------------------------------------
(* What one record does to the log.  Written(c) is the record of c that    *)
(* was not touched, Numbered what a successful write leaves.               *)
LogTyped == latched' \in BOOLEAN /\ seq' \in Nat /\ rec' \in [Calls -> [attempt : Nat, result : Nat]]

OthersKept(c) == \A d \in Calls : d # c => rec'[d] = rec[d]

LEMMA LogAttempt ==
  ASSUME TypeOK, NEW c \in Calls, NEW ok \in BOOLEAN, Log(c, "attempt", ok)
  PROVE  /\ LogTyped /\ OthersKept(c) /\ seq' >= seq
         /\ rec'[c].result = rec[c].result
         /\ ok => ~latched /\ ~latched' /\ seq' = seq + 1 /\ rec'[c].attempt = seq'
         /\ ~ok => latched' /\ rec'[c].attempt = rec[c].attempt
<1>1. CASE ok
  <2>1. rec' = [rec EXCEPT ![c] = [rec[c] EXCEPT !.attempt = seq + 1]] /\ seq' = seq + 1
        /\ ~latched /\ latched' = latched
    BY <1>1 DEF Log
  <2>2. QED
    BY <1>1, <2>1 DEF TypeOK, LogTyped, OthersKept
<1>2. CASE ~ok
  <2>1. rec' = rec /\ latched' = TRUE /\ (seq' = seq + 1 \/ seq' = seq)
    <3>1. CASE latched
      BY <1>2, <3>1 DEF Log, TypeOK, logger
    <3>2. CASE ~latched
      BY <1>2, <3>2 DEF Log
    <3>3. QED
      BY <3>1, <3>2
  <2>2. QED
    BY <1>2, <2>1 DEF TypeOK, LogTyped, OthersKept
<1>3. QED
  BY <1>1, <1>2

LEMMA LogResult ==
  ASSUME TypeOK, NEW c \in Calls, NEW ok \in BOOLEAN, Log(c, "result", ok)
  PROVE  /\ LogTyped /\ OthersKept(c) /\ seq' >= seq
         /\ rec'[c].attempt = rec[c].attempt
         /\ ok => ~latched /\ ~latched' /\ seq' = seq + 1 /\ rec'[c].result = seq'
         /\ ~ok => latched' /\ rec'[c].result = rec[c].result
<1>1. CASE ok
  <2>1. rec' = [rec EXCEPT ![c] = [rec[c] EXCEPT !.result = seq + 1]] /\ seq' = seq + 1
        /\ ~latched /\ latched' = latched
    BY <1>1 DEF Log
  <2>2. QED
    BY <1>1, <2>1 DEF TypeOK, LogTyped, OthersKept
<1>2. CASE ~ok
  <2>1. rec' = rec /\ latched' = TRUE /\ (seq' = seq + 1 \/ seq' = seq)
    <3>1. CASE latched
      BY <1>2, <3>1 DEF Log, TypeOK, logger
    <3>2. CASE ~latched
      BY <1>2, <3>2 DEF Log
    <3>3. QED
      BY <3>1, <3>2
  <2>2. QED
    BY <1>2, <2>1 DEF TypeOK, LogTyped, OthersKept
<1>3. QED
  BY <1>1, <1>2
-----------------------------------------------------------------------------
(* A call keeps its records in step with its place: when it writes its     *)
(* attempt record, when it writes its result record, and when it moves     *)
(* without writing.                                                        *)
LEMMA AttemptRecords ==
  ASSUME TypeOK, RecordsOK, NEW c \in Calls, NEW ok \in BOOLEAN, NEW x,
         Log(c, "attempt", ok), Goto(c, x), pc[c] \in {"new", "spawned", "held"},
         ok => x = "sent", ~ok => x \in {"gone", "releasing"}
  PROVE  RecordsOK'
<1> SUFFICES ASSUME NEW d \in Calls PROVE RecordOK(d)'
  BY DEF RecordsOK
<1> USE LogAttempt DEF RecordsOK, RecordOK, TypeOK, LogTyped, Goto
<1>1. CASE d = c
  BY <1>1
<1>2. CASE d # c
  BY <1>2 DEF OthersKept
<1>3. QED
  BY <1>1, <1>2

LEMMA ResultRecords ==
  ASSUME TypeOK, RecordsOK, NEW c \in Calls, NEW ok \in BOOLEAN, NEW x \in {"gone", "releasing"},
         Log(c, "result", ok), Goto(c, x), pc[c] = "answered"
  PROVE  RecordsOK'
<1> SUFFICES ASSUME NEW d \in Calls PROVE RecordOK(d)'
  BY DEF RecordsOK
<1> USE LogResult DEF RecordsOK, RecordOK, TypeOK, LogTyped, Goto
<1>1. CASE d = c
  BY <1>1
<1>2. CASE d # c
  BY <1>2 DEF OthersKept
<1>3. QED
  BY <1>1, <1>2

LEMMA MoveRecords ==
  ASSUME TypeOK, RecordsOK, NEW c \in Calls, NEW x, UNCHANGED logger, Goto(c, x),
         \/ pc[c] \in {"new", "spawned"} /\ x \in {"spawned", "held", "gone"}
         \/ pc[c] = "sent" /\ x = "answered"
         \/ pc[c] = "releasing" /\ x = "gone"
         \/ pc[c] = "answered" /\ x = "gone" /\ latched
  PROVE  RecordsOK'
<1> SUFFICES ASSUME NEW d \in Calls PROVE RecordOK(d)'
  BY DEF RecordsOK
<1> USE DEF RecordsOK, RecordOK, TypeOK, logger, Goto
<1>1. CASE d = c
  BY <1>1
<1>2. CASE d # c
  BY <1>2
<1>3. QED
  BY <1>1, <1>2
-----------------------------------------------------------------------------
(* Every action keeps IInv. *)
LEMMA DispatchStep == ASSUME IInv, NEW o \in Outer, Dispatch(o) PROVE IInv'
<1> USE CallsAssumption DEF IInv
<1>0. o \in Calls
  BY DEF Calls
<1> PICK ok \in BOOLEAN :
      /\ Log(o, "attempt", ok)
      /\ IF ok THEN Goto(o, "sent") /\ cur' = o /\ UNCHANGED stage
               ELSE Goto(o, "gone") /\ stage' = "ended" /\ UNCHANGED cur
  BY DEF Dispatch
<1>1. LogTyped /\ (~latched' => ~latched)
  BY <1>0, LogAttempt DEF Log, logger
<1>2. TypeOK'
  BY <1>0, <1>1 DEF Dispatch, TypeOK, LogTyped, Goto, Pcs, Holder, Stages
<1>3. Holders' = Holders
  BY <1>0, HoldersSame
<1>4. HoldsOK'
  BY <1>3 DEF HoldsOK, Dispatch
<1>5. RecordsOK'
  BY <1>0, AttemptRecords DEF Dispatch
<1>6. CallsOK'
  BY <1>0 DEF CallsOK, TypeOK, Dispatch, Goto, Calls
<1>7. CloserOK'
  BY <1>1, <1>3 DEF CloserOK, TypeOK, Dispatch
<1>8. QED
  BY <1>2, <1>4, <1>5, <1>6, <1>7

LEMMA SpawnStep == ASSUME IInv, NEW c \in Inner \cup Boot, Spawn(c) PROVE IInv'
<1> USE CallsAssumption DEF IInv
<1>0. c \in Calls
  BY DEF Calls
<1>1. TypeOK'
  BY <1>0 DEF Spawn, TypeOK, Goto, Pcs, Holder, logger, closer
<1>2. Holders' = Holders
  BY <1>0, HoldersSame DEF Spawn, Holder
<1>3. HoldsOK'
  BY <1>2 DEF HoldsOK, Spawn
<1>4. RecordsOK'
  BY <1>0, MoveRecords DEF Spawn
<1>5. CallsOK'
  BY <1>0 DEF CallsOK, TypeOK, Spawn, Goto, Calls, closer
<1>6. CloserOK'
  BY <1>2 DEF CloserOK, Spawn, closer, logger
<1>7. QED
  BY <1>1, <1>3, <1>4, <1>5, <1>6

LEMMA InnerAttemptStep == ASSUME IInv, NEW i \in Inner, InnerAttempt(i) PROVE IInv'
<1> USE CallsAssumption DEF IInv
<1>0. i \in Calls /\ i \notin Boot /\ i \notin Outer /\ parent[i] \in Outer
  BY DEF Calls, CallsOK, InnerAttempt
<1>1. CASE parent[i] \in fatal /\ Goto(i, "gone") /\ UNCHANGED <<logger, fatal>>
  <2>1. TypeOK'
    BY <1>0, <1>1 DEF InnerAttempt, TypeOK, Goto, Pcs, Holder, logger, closer
  <2>2. Holders' = Holders
    BY <1>0, <1>1, HoldersSame
  <2>3. HoldsOK'
    BY <2>2 DEF HoldsOK, InnerAttempt
  <2>4. RecordsOK'
    BY <1>0, <1>1, MoveRecords DEF InnerAttempt
  <2>5. CallsOK'
    BY <1>0, <1>1 DEF CallsOK, TypeOK, InnerAttempt, Goto, Calls, closer
  <2>6. CloserOK'
    BY <1>1, <2>2 DEF CloserOK, InnerAttempt, closer, logger
  <2>7. QED
    BY <2>1, <2>3, <2>4, <2>5, <2>6
<1>2. ASSUME NEW ok \in BOOLEAN, Log(i, "attempt", ok), SetFatal(i, ok),
             Goto(i, IF ok THEN "sent" ELSE "gone")
      PROVE  IInv'
  <2>1. LogTyped /\ (~latched' => ~latched) /\ (~ok => latched')
    BY <1>0, <1>2, LogAttempt DEF Log, logger
  <2>2. TypeOK'
    BY <1>0, <1>2, <2>1 DEF InnerAttempt, TypeOK, LogTyped, SetFatal, Goto, Pcs, Holder, closer
  <2>3. Holders' = Holders
    BY <1>0, <1>2, HoldersSame
  <2>4. HoldsOK'
    BY <2>3 DEF HoldsOK, InnerAttempt
  <2>5. RecordsOK'
    BY <1>0, <1>2, AttemptRecords DEF InnerAttempt
  <2>6. CallsOK'
    BY <1>0, <1>2 DEF CallsOK, TypeOK, InnerAttempt, Goto, Calls, closer
  <2>7. CloserOK'
    <3>1. stage = "session"
      BY DEF CallsOK, InnerAttempt, Calls
    <3>2. QED
      BY <1>2, <2>1, <2>3, <3>1 DEF CloserOK, InnerAttempt, SetFatal, closer
  <2>8. QED
    BY <2>2, <2>4, <2>5, <2>6, <2>7
<1>3. QED
  BY <1>1, <1>2 DEF InnerAttempt

LEMMA InnerResultStep == ASSUME IInv, NEW i \in Inner, InnerResult(i) PROVE IInv'
<1> USE CallsAssumption DEF IInv
<1>0. i \in Calls /\ i \notin Boot /\ i \notin Outer /\ parent[i] \in Outer
  BY DEF Calls, CallsOK, InnerResult
<1> PICK ok \in BOOLEAN : Log(i, "result", ok) /\ SetFatal(i, ok)
  BY DEF InnerResult
<1>1. LogTyped /\ (~latched' => ~latched) /\ (~ok => latched')
  BY <1>0, LogResult DEF Log, logger
<1>2. TypeOK'
  BY <1>0, <1>1 DEF InnerResult, TypeOK, LogTyped, SetFatal, Goto, Pcs, Holder, closer
<1>3. Holders' = Holders
  BY <1>0, HoldersSame DEF InnerResult
<1>4. HoldsOK'
  BY <1>3 DEF HoldsOK, InnerResult
<1>5. RecordsOK'
  BY <1>0, ResultRecords DEF InnerResult
<1>6. CallsOK'
  BY <1>0 DEF CallsOK, TypeOK, InnerResult, Goto, Calls, closer
<1>7. CloserOK'
  <2>1. stage = "session"
    BY DEF CallsOK, InnerResult, Calls
  <2>2. QED
    BY <1>1, <1>3, <2>1 DEF CloserOK, InnerResult, SetFatal, closer
<1>8. QED
  BY <1>2, <1>4, <1>5, <1>6, <1>7

LEMMA AnswersStep == ASSUME IInv, NEW c \in Calls, Answers(c) PROVE IInv'
<1> USE CallsAssumption DEF IInv
<1>1. TypeOK'
  BY DEF Answers, TypeOK, Goto, Pcs, Holder, logger, closer
<1>2. Holders' = Holders
  BY HoldersSame DEF Answers, Holder
<1>3. HoldsOK'
  BY <1>2 DEF HoldsOK, Answers
<1>4. RecordsOK'
  BY MoveRecords DEF Answers
<1>5. CallsOK'
  BY DEF CallsOK, TypeOK, Answers, Goto, Calls, closer
<1>6. CloserOK'
  BY <1>2 DEF CloserOK, Answers, closer, logger
<1>7. QED
  BY <1>1, <1>3, <1>4, <1>5, <1>6

LEMMA OuterResultStep == ASSUME IInv, NEW o \in Outer, OuterResult(o) PROVE IInv'
<1> USE CallsAssumption DEF IInv
<1>0. o \in Calls /\ o \notin Boot /\ o \notin Inner /\ stage = "session"
  BY DEF Calls, CallsOK, OuterResult
<1>1. \A i \in Inner : pc[i] \notin {"spawned", "sent", "answered"}
  BY <1>0 DEF CallsOK, OuterResult
<1>2. CASE o \in fatal /\ stage' = "ended" /\ UNCHANGED logger
  <2>1. TypeOK'
    BY <1>0, <1>2 DEF OuterResult, TypeOK, Goto, Pcs, Holder, Stages, logger
  <2>2. Holders' = Holders
    BY <1>0, HoldersSame DEF OuterResult
  <2>3. HoldsOK'
    BY <2>2 DEF HoldsOK, OuterResult
  <2>4. latched
    BY <1>0, <1>2 DEF CloserOK
  <2>5. RecordsOK'
    BY <1>0, <1>2, <2>4, MoveRecords DEF OuterResult
  <2>6. CallsOK'
    BY <1>0, <1>1, <1>2 DEF CallsOK, TypeOK, OuterResult, Goto, Calls
  <2>7. CloserOK'
    BY <1>0, <1>2, <2>2 DEF CloserOK, OuterResult, logger
  <2>8. QED
    BY <2>1, <2>3, <2>5, <2>6, <2>7
<1>3. ASSUME NEW ok \in BOOLEAN, Log(o, "result", ok), stage' = IF ok THEN stage ELSE "ended"
      PROVE  IInv'
  <2>1. LogTyped /\ (~latched' => ~latched) /\ (~ok => latched')
    BY <1>0, <1>3, LogResult DEF Log, logger
  <2>2. TypeOK'
    BY <1>0, <1>3, <2>1 DEF OuterResult, TypeOK, LogTyped, Goto, Pcs, Holder, Stages
  <2>3. Holders' = Holders
    BY <1>0, HoldersSame DEF OuterResult
  <2>4. HoldsOK'
    BY <2>3 DEF HoldsOK, OuterResult
  <2>5. RecordsOK'
    BY <1>0, <1>3, ResultRecords DEF OuterResult
  <2>6. CallsOK'
    BY <1>0, <1>1, <1>3 DEF CallsOK, TypeOK, OuterResult, Goto, Calls
  <2>7. CloserOK'
    BY <1>0, <1>3, <2>1, <2>3 DEF CloserOK, OuterResult
  <2>8. QED
    BY <2>2, <2>4, <2>5, <2>6, <2>7
<1>4. QED
  BY <1>2, <1>3 DEF OuterResult

LEMMA BeginStep == ASSUME IInv, NEW b \in Boot, Begin(b) PROVE IInv'
<1> USE CallsAssumption DEF IInv
<1>0. b \in Calls /\ b \notin Inner /\ b \notin Outer /\ parent[b] \in Outer
      /\ pc[b] \notin Holder
  BY DEF Calls, CallsOK, Begin, Holder
<1>1. CASE Goto(b, "gone") /\ fatal' \in {fatal, fatal \cup {parent[b]}} /\ (fatal' # fatal => closing)
           /\ UNCHANGED <<holds, gen>>
  <2>1. TypeOK'
    BY <1>0, <1>1 DEF Begin, TypeOK, Goto, Pcs, Holder, logger, closer
  <2>2. Holders' = Holders
    BY <1>0, <1>1, HoldersSame DEF Holder
  <2>3. HoldsOK'
    BY <1>1, <2>2 DEF HoldsOK
  <2>4. RecordsOK'
    BY <1>0, <1>1, MoveRecords DEF Begin
  <2>5. CallsOK'
    BY <1>0, <1>1 DEF CallsOK, TypeOK, Begin, Goto, Calls, closer
  <2>6. CloserOK'
    BY <1>1, <2>2 DEF CloserOK, Begin, closer, logger
  <2>7. QED
    BY <2>1, <2>3, <2>4, <2>5, <2>6
<1>2. CASE Goto(b, "held") /\ fatal' = fatal /\ ~closing /\ holds' = holds + 1 /\ gen' \in {gen, gen + 1}
  <2>1. TypeOK'
    BY <1>0, <1>2 DEF Begin, TypeOK, Goto, Pcs, Holder, logger, closer
  <2>2. HoldsOK'
    BY <1>0, <1>2, HoldersAdd DEF HoldsOK, Holder
  <2>3. RecordsOK'
    BY <1>0, <1>2, MoveRecords DEF Begin
  <2>4. CallsOK'
    BY <1>0, <1>2 DEF CallsOK, TypeOK, Begin, Goto, Calls, closer
  <2>5. CloserOK'
    BY <1>2 DEF CloserOK, Begin, closer, logger
  <2>6. QED
    BY <2>1, <2>2, <2>3, <2>4, <2>5
<1>3. CASE parent[b] \in fatal
  BY <1>1, <1>3 DEF Begin
<1>4. ASSUME NEW ok \in BOOLEAN, Hold(ok), SetFatal(b, ok), Goto(b, IF ok THEN "held" ELSE "gone")
      PROVE  IInv'
  <2>1. CASE ok
    BY <1>2, <1>4, <2>1 DEF Hold, SetFatal, TypeOK
  <2>2. CASE ~ok
    BY <1>1, <1>4, <2>2 DEF Hold, SetFatal, TypeOK
  <2>3. QED
    BY <2>1, <2>2
<1>5. QED
  BY <1>3, <1>4 DEF Begin

(* A boot call that holds the log rules out a clean close. *)
LEMMA HeldNotClean == ASSUME IInv, NEW b \in Boot, pc[b] \in Holder PROVE verdict # "clean"
<1>1. b \in Holders
  BY DEF Holders
<1>2. QED
  BY <1>1 DEF IInv, CloserOK

LEMMA BootAttemptStep == ASSUME IInv, NEW b \in Boot, BootAttempt(b) PROVE IInv'
<1> USE CallsAssumption DEF IInv
<1>0. b \in Calls /\ b \notin Inner /\ b \notin Outer /\ parent[b] \in Outer /\ verdict # "clean"
  BY HeldNotClean DEF Calls, CallsOK, BootAttempt, Holder
<1> PICK ok \in BOOLEAN : /\ Log(b, "attempt", ok) /\ SetFatal(b, ok)
                          /\ Goto(b, IF ok THEN "sent" ELSE "releasing")
  BY DEF BootAttempt
<1>1. LogTyped /\ (~latched' => ~latched) /\ (~ok => latched')
  BY <1>0, LogAttempt DEF Log, logger
<1>2. TypeOK'
  BY <1>0, <1>1 DEF BootAttempt, TypeOK, LogTyped, SetFatal, Goto, Pcs, Holder, closer
<1>3. Holders' = Holders
  BY <1>0, HoldersSame DEF BootAttempt, Holder
<1>4. HoldsOK'
  BY <1>3 DEF HoldsOK, BootAttempt
<1>5. RecordsOK'
  BY <1>0, AttemptRecords DEF BootAttempt
<1>6. CallsOK'
  BY <1>0 DEF CallsOK, TypeOK, BootAttempt, Goto, Calls, closer
<1>7. CloserOK'
  BY <1>0, <1>1, <1>3 DEF CloserOK, BootAttempt, SetFatal, closer
<1>8. QED
  BY <1>2, <1>4, <1>5, <1>6, <1>7

LEMMA BootResultStep == ASSUME IInv, NEW b \in Boot, BootResult(b) PROVE IInv'
<1> USE CallsAssumption DEF IInv
<1>0. b \in Calls /\ b \notin Inner /\ b \notin Outer /\ parent[b] \in Outer /\ verdict # "clean"
  BY HeldNotClean DEF Calls, CallsOK, BootResult, Holder
<1> PICK ok \in BOOLEAN : Log(b, "result", ok) /\ SetFatal(b, ok)
  BY DEF BootResult
<1>1. LogTyped /\ (~latched' => ~latched) /\ (~ok => latched')
  BY <1>0, LogResult DEF Log, logger
<1>2. TypeOK'
  BY <1>0, <1>1 DEF BootResult, TypeOK, LogTyped, SetFatal, Goto, Pcs, Holder, closer
<1>3. Holders' = Holders
  BY <1>0, HoldersSame DEF BootResult, Holder
<1>4. HoldsOK'
  BY <1>3 DEF HoldsOK, BootResult
<1>5. RecordsOK'
  BY <1>0, ResultRecords DEF BootResult
<1>6. CallsOK'
  BY <1>0 DEF CallsOK, TypeOK, BootResult, Goto, Calls, closer
<1>7. CloserOK'
  BY <1>0, <1>1, <1>3 DEF CloserOK, BootResult, SetFatal, closer
<1>8. QED
  BY <1>2, <1>4, <1>5, <1>6, <1>7

LEMMA ReleaseStep == ASSUME IInv, NEW b \in Boot, Release(b) PROVE IInv'
<1> USE CallsAssumption DEF IInv
<1>0. b \in Calls /\ b \notin Inner /\ b \notin Outer
  BY DEF Calls
<1>1. Holders' = Holders \ {b} /\ Cardinality(Holders') = holds - 1 /\ holds > 0
  BY HoldersRemove DEF Release, Holder
<1>2. TypeOK'
  BY <1>0, <1>1 DEF Release, TypeOK, Goto, Pcs, Holder, logger, closer
<1>3. HoldsOK'
  BY <1>1 DEF HoldsOK, Release
<1>4. RecordsOK'
  BY <1>0, MoveRecords DEF Release
<1>5. CallsOK'
  BY <1>0 DEF CallsOK, TypeOK, Release, Goto, Calls, closer
<1>6. CloserOK'
  BY <1>1 DEF CloserOK, Release, closer, logger
<1>7. QED
  BY <1>2, <1>3, <1>4, <1>5, <1>6

(* The steps of the session's end touch neither the calls nor the log. *)
LEMMA EndStep == ASSUME IInv, RunEnds \/ CloserStep \/ Expire PROVE IInv'
<1> USE DEF IInv
<1>0. UNCHANGED <<logger, pc, parent, fatal, cur, holds, gen>>
  BY DEF RunEnds, CloserStep, ReadErr, pendingAfter, Wake, CloseWriter, Report, Expire
<1>1. Holders' = Holders /\ HoldsOK' /\ RecordsOK'
  BY <1>0 DEF Holders, HoldsOK, RecordsOK, RecordOK, logger
<1>2. CASE RunEnds
  BY <1>0, <1>1, <1>2 DEF RunEnds, TypeOK, CallsOK, CloserOK, Stages, logger
<1>3. CASE ReadErr
  BY <1>0, <1>1, <1>3 DEF ReadErr, TypeOK, CallsOK, CloserOK, Stages, logger
<1>4. CASE pendingAfter
  <2>1. holds = 0 => Holders = {}
    BY HoldersFinite, FS_EmptySet DEF HoldsOK
  <2>2. TypeOK' /\ CallsOK'
    BY <1>0, <1>4 DEF pendingAfter, stopsWaiting, TypeOK, CallsOK, Stages, logger
  <2>3. stage = "drain" /\ UNCHANGED <<expired, closeErr, verdict>>
    BY <1>4 DEF pendingAfter
  <2>4. CASE stopsWaiting
    BY <1>0, <1>1, <2>1, <2>2, <2>3, <2>4 DEF stopsWaiting, CloserOK, logger
  <2>5. CASE stage' = "waiting" /\ UNCHANGED <<closing, pending>>
    BY <1>0, <1>1, <2>2, <2>3, <2>5 DEF CloserOK, logger
  <2>6. QED
    BY <1>1, <1>4, <2>2, <2>4, <2>5 DEF pendingAfter
<1>5. CASE Wake
  BY <1>0, <1>1, <1>5 DEF Wake, TypeOK, CallsOK, CloserOK, Stages, logger
<1>6. CASE CloseWriter
  BY <1>0, <1>1, <1>6 DEF CloseWriter, TypeOK, CallsOK, CloserOK, Stages, logger
<1>7. CASE Report
  BY <1>0, <1>1, <1>7 DEF Report, Closer, TypeOK, CallsOK, CloserOK, Stages, logger
<1>8. CASE Expire
  BY <1>0, <1>1, <1>8 DEF Expire, TypeOK, CallsOK, CloserOK, Stages, logger
<1>9. QED
  BY <1>2, <1>3, <1>4, <1>5, <1>6, <1>7, <1>8 DEF CloserStep
-----------------------------------------------------------------------------
LEMMA InitIInv == Init => IInv
<1> SUFFICES ASSUME Init PROVE IInv
  OBVIOUS
<1>1. TypeOK
  BY DEF Init, TypeOK, Pcs, Holder, Stages
<1>2. Holders = {}
  BY DEF Init, Holders, Holder, Calls
<1>3. HoldsOK
  BY <1>2, FS_EmptySet DEF Init, HoldsOK
<1>4. RecordsOK /\ CallsOK /\ CloserOK
  BY <1>2 DEF Init, RecordsOK, RecordOK, CallsOK, CloserOK, Calls
<1>5. QED
  BY <1>1, <1>3, <1>4 DEF IInv

LEMMA StutterIInv == ASSUME IInv, UNCHANGED vars PROVE IInv'
  BY DEF IInv, vars, TypeOK, HoldsOK, Holders, RecordsOK, RecordOK, CallsOK, CloserOK

LEMMA NextIInv == ASSUME IInv, [Next]_vars PROVE IInv'
<1>1. CASE CallStep
  BY <1>1, DispatchStep, SpawnStep, InnerAttemptStep, InnerResultStep, AnswersStep,
     OuterResultStep, BeginStep, BootAttemptStep, BootResultStep, ReleaseStep DEF CallStep
<1>2. CASE RunEnds \/ CloserStep \/ Expire
  BY <1>2, EndStep
<1>3. CASE UNCHANGED vars
  BY <1>3, StutterIInv
<1>4. QED
  BY <1>1, <1>2, <1>3 DEF Next

LEMMA Invariance == Spec => []IInv
  BY InitIInv, NextIInv, PTL DEF Spec

(* Every reachable state of the logger, its writers and the closer is well *)
(* typed; in particular no release takes the count of holds below zero.    *)
THEOREM TypeCorrect == Spec => []TypeOK
  BY Invariance, PTL DEF IInv

(* The closer of the audit log reports no error only when every call that  *)
(* was sent has its result on file and nobody is left who could write.     *)
THEOREM CleanClose == Spec => []CleanCloseIsComplete
<1>1. ASSUME IInv PROVE CleanCloseIsComplete
  <2> SUFFICES ASSUME verdict = "clean", NEW c \in Calls
               PROVE  ~latched /\ ~Owed(c) /\ pc[c] \in {"new", "spawned", "gone"}
    BY <1>1 DEF CleanCloseIsComplete, IInv, CloserOK
  <2>1. ~latched /\ cur = NoCall /\ Holders = {}
    BY <1>1 DEF IInv, CloserOK, CallsOK
  <2>2. pc[c] \in {"new", "spawned", "gone"}
    BY <1>1, <2>1, CallsAssumption DEF IInv, TypeOK, CallsOK, Calls, Holders, Pcs, Holder
  <2>3. ~Owed(c)
    BY <1>1, <2>1, <2>2 DEF IInv, TypeOK, RecordsOK, RecordOK, Owed, Sent
  <2>4. QED
    BY <2>1, <2>2, <2>3
<1>2. QED
  BY <1>1, Invariance, PTL

(* No call of any kind is sent without its attempt record on file, and its *)
(* result record has a later number.                                       *)
THEOREM AttemptsComeFirst == Spec => []AttemptsFirst
<1>1. ASSUME IInv PROVE AttemptsFirst
  BY <1>1 DEF IInv, TypeOK, RecordsOK, RecordOK, AttemptsFirst, Sent
<1>2. QED
  BY <1>1, Invariance, PTL

(* pendingAfter returns the number of detached calls that really hold the  *)
(* log when it stops waiting, and stops with some only past its bound.     *)
THEOREM PendingReal == Spec => PendingIsReal
<1>1. ASSUME IInv, [Next]_vars, stage = "drain", stage' = "closing"
      PROVE  pending' = Cardinality(Holders) /\ (pending' > 0 => expired)
  <2>1. pendingAfter
    BY <1>1, CallsAssumption
       DEF IInv, CallsOK, Next, vars, CallStep, RunEnds, CloserStep, Expire, ReadErr, Wake, CloseWriter, Report,
           Dispatch, Spawn, InnerAttempt, InnerResult, Answers, OuterResult, Begin, BootAttempt,
           BootResult, Release, closer
  <2>2. QED
    BY <1>1, <2>1 DEF pendingAfter, stopsWaiting, IInv, HoldsOK, TypeOK
<1>2. ASSUME IInv, [Next]_vars
      PROVE  [stage = "drain" /\ stage' = "closing" =>
                pending' = Cardinality(Holders) /\ (pending' > 0 => expired)]_vars
  BY <1>1, <1>2
<1>3. QED
  BY <1>2, Invariance, PTL DEF Spec, PendingIsReal
-----------------------------------------------------------------------------
(* In a state of IInv the calls owed a result are those with an attempt    *)
(* record and no result record.                                            *)
OwedCalls == {c \in Calls : rec[c].attempt > 0 /\ rec[c].result = 0}

LEMMA OwedByRecords == ASSUME IInv PROVE {c \in Calls : Owed(c)} = OwedCalls
  BY DEF IInv, TypeOK, RecordsOK, RecordOK, Owed, Sent, OwedCalls

LEMMA OwedByRecordsNext == ASSUME IInv' PROVE {c \in Calls : Owed(c)}' = OwedCalls'
  BY DEF IInv, TypeOK, RecordsOK, RecordOK, Owed, Sent, OwedCalls

LEMMA AttemptRefines ==
  ASSUME IInv, IInv', NEW c \in Calls, NEW ok \in BOOLEAN, Log(c, "attempt", ok),
         pc[c] \in {"new", "spawned", "held"}, UNCHANGED verdict, verdict # "clean"
  PROVE  Contract!Next
<1>1. {d \in Calls : Owed(d)} = OwedCalls /\ {d \in Calls : Owed(d)}' = OwedCalls'
  BY OwedByRecords, OwedByRecordsNext
<1>2. TypeOK /\ RecordOK(c)
  BY DEF IInv, RecordsOK
<1>3. CASE ok
  <2>1. OwedCalls' = OwedCalls \cup {c}
    <3>1. \A d \in Calls : d # c => rec'[d] = rec[d]
      BY <1>2, LogAttempt DEF OthersKept
    <3>2. rec'[c].attempt > 0 /\ rec'[c].result = 0
      <4>1. rec'[c].attempt = seq + 1 /\ rec'[c].result = rec[c].result
        BY <1>2, <1>3, LogAttempt
      <4>2. seq + 1 > 0
        BY <1>2 DEF TypeOK
      <4>3. QED
        BY <1>2, <4>1, <4>2 DEF RecordOK
    <3>3. QED
      BY <3>1, <3>2 DEF OwedCalls
  <2>2. latched' = latched
    BY <1>3 DEF Log
  <2>3. Contract!Send(c)
    BY <1>1, <2>1, <2>2 DEF Contract!Send
  <2>4. QED
    BY <2>3 DEF Contract!Next
<1>4. CASE ~ok
  <2>1. OwedCalls' = OwedCalls
    BY <1>2, <1>4, LogAttempt DEF OwedCalls, OthersKept, RecordOK, TypeOK
  <2>2. latched' = TRUE
    BY <1>2, <1>4, LogAttempt DEF LogTyped
  <2>3. Contract!Lose
    BY <1>1, <2>1, <2>2 DEF Contract!Lose
  <2>4. QED
    BY <2>3 DEF Contract!Next
<1>5. QED
  BY <1>3, <1>4

LEMMA ResultRefines ==
  ASSUME IInv, IInv', NEW c \in Calls, NEW ok \in BOOLEAN, Log(c, "result", ok),
         pc[c] = "answered", UNCHANGED verdict, verdict # "clean"
  PROVE  Contract!Next
<1>1. {d \in Calls : Owed(d)} = OwedCalls /\ {d \in Calls : Owed(d)}' = OwedCalls'
  BY OwedByRecords, OwedByRecordsNext
<1>2. TypeOK /\ RecordOK(c)
  BY DEF IInv, RecordsOK
<1>3. CASE ok
  <2>1. OwedCalls' = OwedCalls \ {c} /\ c \in OwedCalls
    <3>1. \A d \in Calls : d # c => rec'[d] = rec[d]
      BY <1>2, LogResult DEF OthersKept
    <3>2. rec'[c].result # 0
      <4>1. rec'[c].result = seq + 1
        BY <1>2, <1>3, LogResult
      <4>2. seq + 1 # 0
        BY <1>2 DEF TypeOK
      <4>3. QED
        BY <4>1, <4>2
    <3>3. c \in OwedCalls
      BY <1>2 DEF RecordOK, OwedCalls
    <3>4. QED
      BY <3>1, <3>2, <3>3 DEF OwedCalls
  <2>2. latched' = latched
    BY <1>3 DEF Log
  <2>3. Contract!Settle(c)
    BY <1>1, <2>1, <2>2 DEF Contract!Settle
  <2>4. QED
    BY <2>3 DEF Contract!Next
<1>4. CASE ~ok
  <2>1. OwedCalls' = OwedCalls
    BY <1>2, <1>4, LogResult DEF OwedCalls, OthersKept, RecordOK, TypeOK
  <2>2. latched' = TRUE
    BY <1>2, <1>4, LogResult DEF LogTyped
  <2>3. Contract!Lose
    BY <1>1, <2>1, <2>2 DEF Contract!Lose
  <2>4. QED
    BY <2>3 DEF Contract!Next
<1>5. QED
  BY <1>3, <1>4

LEMMA QuietRefines ==
  ASSUME IInv, IInv', UNCHANGED logger, UNCHANGED verdict
  PROVE  UNCHANGED Contract!vars
<1>1. {d \in Calls : Owed(d)} = OwedCalls /\ {d \in Calls : Owed(d)}' = OwedCalls'
  BY OwedByRecords, OwedByRecordsNext
<1>2. OwedCalls' = OwedCalls /\ latched' = latched
  BY DEF OwedCalls, logger
<1>3. QED
  BY <1>1, <1>2 DEF Contract!vars

(* The closer's report is the contract's close: clean only when nothing is *)
(* owed and nothing was lost.                                              *)
LEMMA ReportRefines == ASSUME IInv, IInv', Report PROVE Contract!Next
<1>1. {d \in Calls : Owed(d)} = OwedCalls /\ {d \in Calls : Owed(d)}' = OwedCalls'
  BY OwedByRecords, OwedByRecordsNext
<1>2. OwedCalls' = OwedCalls /\ latched' = latched /\ verdict = "none"
  BY DEF OwedCalls, Report, logger, IInv, CloserOK
<1>3. CASE Closer = "clean"
  <2>1. ~latched /\ cur = NoCall /\ Holders = {}
    BY <1>3 DEF Report, Closer, IInv, CloserOK, CallsOK, TypeOK
  <2>2. OwedCalls = {}
    BY <2>1, CallsAssumption
       DEF IInv, TypeOK, CallsOK, RecordsOK, RecordOK, OwedCalls, Calls, Holders, Holder, Pcs
  <2>3. verdict' = "clean"
    BY <1>3 DEF Report
  <2>4. Contract!CloseClean
    BY <1>1, <1>2, <2>1, <2>2, <2>3 DEF Contract!CloseClean
  <2>5. QED
    BY <2>4 DEF Contract!Next
<1>4. CASE Closer # "clean"
  <2>1. verdict' \notin {"none", "clean"}
    BY <1>4 DEF Report, Closer
  <2>2. Contract!CloseFault
    BY <1>1, <1>2, <2>1 DEF Contract!CloseFault
  <2>3. QED
    BY <2>2 DEF Contract!Next
<1>5. QED
  BY <1>3, <1>4

LEMMA StepRefines == ASSUME IInv, IInv', [Next]_vars PROVE [Contract!Next]_Contract!vars
<1> USE CallsAssumption
<1>0. (cur # NoCall \/ stage = "session") => verdict # "clean"
  BY DEF IInv, CallsOK, CloserOK
<1>1. ASSUME NEW o \in Outer, Dispatch(o) PROVE Contract!Next
  BY <1>0, <1>1, AttemptRefines DEF Dispatch, Calls
<1>2. ASSUME NEW o \in Outer, OuterResult(o) PROVE [Contract!Next]_Contract!vars
  <2>1. verdict # "clean" /\ UNCHANGED verdict
    BY <1>0, <1>2 DEF OuterResult, IInv, CallsOK, Calls
  <2>2. QED
    BY <1>2, <2>1, ResultRefines, QuietRefines DEF OuterResult, Calls
<1>3. ASSUME NEW i \in Inner, InnerAttempt(i) \/ InnerResult(i) PROVE [Contract!Next]_Contract!vars
  <2>1. verdict # "clean" /\ UNCHANGED verdict
    BY <1>0, <1>3 DEF InnerAttempt, InnerResult, IInv, CallsOK, Calls, closer
  <2>2. QED
    BY <1>3, <2>1, AttemptRefines, ResultRefines, QuietRefines DEF InnerAttempt, InnerResult, Calls
<1>4. ASSUME NEW b \in Boot, BootAttempt(b) \/ BootResult(b) PROVE Contract!Next
  <2>1. verdict # "clean" /\ UNCHANGED verdict
    BY <1>4, HeldNotClean DEF BootAttempt, BootResult, Holder, closer
  <2>2. QED
    BY <1>4, <2>1, AttemptRefines, ResultRefines DEF BootAttempt, BootResult, Calls
<1>5. ASSUME NEW c \in Calls, Spawn(c) \/ Answers(c) \/ Begin(c) \/ Release(c)
      PROVE  UNCHANGED Contract!vars
  BY <1>5, QuietRefines DEF Spawn, Answers, Begin, Release, closer
<1>6. ASSUME RunEnds \/ ReadErr \/ pendingAfter \/ Wake \/ CloseWriter \/ Expire
      PROVE  UNCHANGED Contract!vars
  BY <1>6, QuietRefines DEF RunEnds, ReadErr, pendingAfter, Wake, CloseWriter, Expire
<1>7. ASSUME UNCHANGED vars PROVE UNCHANGED Contract!vars
  BY <1>7, QuietRefines DEF vars, logger
<1>8. CASE CallStep
  BY <1>1, <1>2, <1>3, <1>4, <1>5, <1>8 DEF CallStep, Calls
<1>9. QED
  BY <1>6, <1>7, <1>8, ReportRefines DEF Next, CloserStep

LEMMA InitRefines == Init => Contract!Init
<1> SUFFICES ASSUME Init PROVE Contract!Init
  OBVIOUS
<1>1. {c \in Calls : Owed(c)} = {}
  BY DEF Init, Owed, Sent
<1>2. QED
  BY <1>1 DEF Init, Contract!Init

(* The logger, its concurrent and detached writers and the closer together *)
(* implement the audit log's contract.                                     *)
THEOREM Refinement == Spec => KeepsContract
<1>1. ASSUME IInv, IInv', [Next]_vars PROVE [Contract!Next]_Contract!vars
  BY <1>1, StepRefines
<1>2. QED
  BY <1>1, InitRefines, Invariance, PTL DEF Spec, KeepsContract, Contract!Spec
=============================================================================
