---------------------------- MODULE AuditTrail ----------------------------
(***************************************************************************)
(* The audit trail of a session: audit.Logger (internal/audit/audit.go),   *)
(* the calls that write to it, and the closer that ends it.  Calls are     *)
(*   - Outer: tool calls of the agent loop, one at a time;                 *)
(*   - Inner: calls a tool makes and waits for, concurrent with each other *)
(*     (loggingToolFunc inside code_execution, metadataReader.Read inside  *)
(*     a targeted api_reference lookup);                                   *)
(*   - Boot: control-plane calls of a lookup (bootstrapRecorder).  They    *)
(*     run in a goroutine the lookup may give up on, so they begin and end *)
(*     at any time, also while the session closes, and hold the log open.  *)
(* Every call is: attempt record, body, result record.  A record is its    *)
(* sequence number; its contents are abstracted.                           *)
(***************************************************************************)
EXTENDS Integers, FiniteSets

CONSTANTS Outer, Inner, Boot, NoCall

Calls == Outer \cup Inner \cup Boot

ASSUME CallsAssumption ==
  /\ Outer \cap Inner = {} /\ Outer \cap Boot = {} /\ Inner \cap Boot = {}
  /\ NoCall \notin Calls
  /\ IsFiniteSet(Boot)

VARIABLES
  latched,  \* Logger.err is set
  seq,      \* Logger.seq
  rec,      \* rec[c][phase]: sequence number of the record on file, 0 without one
  pc,       \* pc[c]: where call c is
  parent,   \* parent[c]: the tool call that started an inner or boot call
  fatal,    \* the tool calls whose audit.Fatal latch is set
  cur,      \* the tool call in progress, or NoCall
  holds,    \* Logger.holds
  gen,      \* how many drained channels Hold has made
  closing,  \* Logger.closing
  stage,    \* where the session or its closer is
  expired,  \* the drain bound has passed
  watched,  \* the drained channel pendingAfter captured, by its number
  pending,  \* pendingAfter's result
  closeErr, \* closeWriter failed
  verdict   \* what the closer returned

vars == <<latched, seq, rec, pc, parent, fatal, cur, holds, gen, closing, stage,
          expired, watched, pending, closeErr, verdict>>

logger == <<latched, seq, rec>>
closer == <<closing, stage, expired, watched, pending, closeErr, verdict>>

(* Where a boot call holds the log open, and the calls that do. *)
Holder == {"held", "sent", "answered", "releasing"}

Holders == {b \in Boot : pc[b] \in Holder}
-----------------------------------------------------------------------------
(* Logger.Log: a record gets the next number and is written, or the write  *)
(* fails and latches; once latched, nothing is written or numbered.        *)
Log(c, phase, ok) ==
  \/ /\ ~latched
     /\ seq' = seq + 1
     /\ \/ ok /\ rec' = [rec EXCEPT ![c][phase] = seq + 1] /\ UNCHANGED latched
        \/ ~ok /\ latched' = TRUE /\ UNCHANGED rec
  \/ latched /\ ~ok /\ UNCHANGED logger

(* Fatal.Set on the latch of the tool call that started c, when a write    *)
(* of c failed.                                                            *)
SetFatal(c, ok) == fatal' = IF ok THEN fatal ELSE fatal \cup {parent[c]}

Goto(c, to) == pc' = [pc EXCEPT ![c] = to]
-----------------------------------------------------------------------------
(* dispatch: the attempt record of a tool call, whose failure aborts the   *)
(* session.                                                                *)
Dispatch(o) ==
  /\ stage = "session" /\ cur = NoCall /\ pc[o] = "new"
  /\ UNCHANGED <<parent, fatal, holds, gen, closing, expired, watched, pending, closeErr, verdict>>
  /\ \E ok \in BOOLEAN :
       /\ Log(o, "attempt", ok)
       /\ IF ok THEN Goto(o, "sent") /\ cur' = o /\ UNCHANGED stage
                ELSE Goto(o, "gone") /\ stage' = "ended" /\ UNCHANGED cur

(* The tool in progress starts a call of its own. *)
Spawn(c) ==
  /\ cur # NoCall /\ pc[cur] = "sent" /\ pc[c] = "new"
  /\ Goto(c, "spawned")
  /\ parent' = [parent EXCEPT ![c] = cur]
  /\ UNCHANGED <<logger, fatal, cur, holds, gen, closer>>

(* Mutant: the call runs although its attempt record was not written. *)
InnerAttempt_FailsOpen(c) ==
  /\ pc[c] = "spawned"
  /\ UNCHANGED <<parent, cur, holds, gen, closer>>
  /\ \E ok \in BOOLEAN : Log(c, "attempt", ok) /\ SetFatal(c, ok) /\ Goto(c, "sent")

(* loggingToolFunc: refused once a sibling latched a failure or when the   *)
(* attempt record cannot be written.                                       *)
InnerAttempt(c) ==
  /\ pc[c] = "spawned"
  /\ UNCHANGED <<parent, cur, holds, gen, closer>>
  /\ \/ parent[c] \in fatal /\ Goto(c, "gone") /\ UNCHANGED <<logger, fatal>>
     \/ /\ parent[c] \notin fatal
        /\ \E ok \in BOOLEAN : /\ Log(c, "attempt", ok)
                               /\ SetFatal(c, ok)
                               /\ Goto(c, IF ok THEN "sent" ELSE "gone")

InnerResult(c) ==
  /\ pc[c] = "answered"
  /\ Goto(c, "gone")
  /\ \E ok \in BOOLEAN : Log(c, "result", ok) /\ SetFatal(c, ok)
  /\ UNCHANGED <<parent, cur, holds, gen, closer>>

(* The body of a call is over.  A tool waits for its inner calls, and for  *)
(* no boot call.                                                           *)
Answers(c) ==
  /\ pc[c] = "sent"
  /\ c \in Outer => \A i \in Inner : parent[i] = c => pc[i] = "gone"
  /\ Goto(c, "answered")
  /\ UNCHANGED <<logger, parent, fatal, cur, holds, gen, closer>>

(* The tool call returns: a failure latched by a call it waited for aborts *)
(* the session, otherwise its result record is written.                    *)
OuterResult(o) ==
  /\ pc[o] = "answered"
  /\ Goto(o, "gone") /\ cur' = NoCall
  /\ UNCHANGED <<parent, fatal, holds, gen, closing, expired, watched, pending, closeErr, verdict>>
  /\ \/ o \in fatal /\ stage' = "ended" /\ UNCHANGED logger
     \/ /\ o \notin fatal
        /\ \E ok \in BOOLEAN : /\ Log(o, "result", ok)
                               /\ stage' = IF ok THEN stage ELSE "ended"
-----------------------------------------------------------------------------
(* Logger.Hold: refused once the closer has stopped waiting; the first     *)
(* hold makes a new drained channel.                                       *)
Hold(ok) ==
  /\ ok = ~closing
  /\ holds' = IF ok THEN holds + 1 ELSE holds
  /\ gen' = IF ok /\ holds = 0 THEN gen + 1 ELSE gen

(* bootstrapRecorder.Begin: refused once the lookup's latch is set, or     *)
(* when the log is closing.                                                *)
Begin(b) ==
  /\ pc[b] = "spawned"
  /\ UNCHANGED <<logger, parent, cur, closer>>
  /\ \/ parent[b] \in fatal /\ Goto(b, "gone") /\ UNCHANGED <<fatal, holds, gen>>
     \/ /\ parent[b] \notin fatal
        /\ \E ok \in BOOLEAN : /\ Hold(ok)
                               /\ SetFatal(b, ok)
                               /\ Goto(b, IF ok THEN "held" ELSE "gone")

(* ... then the attempt record; the call is sent only with it on file.     *)
BootAttempt(b) ==
  /\ pc[b] = "held"
  /\ \E ok \in BOOLEAN : /\ Log(b, "attempt", ok)
                         /\ SetFatal(b, ok)
                         /\ Goto(b, IF ok THEN "sent" ELSE "releasing")
  /\ UNCHANGED <<parent, cur, holds, gen, closer>>

(* Mutant: the hold is given up before the result record is written. *)
BootResult_ReleasesFirst(b) ==
  \/ /\ pc[b] = "answered"
     /\ Goto(b, "released") /\ holds' = holds - 1
     /\ UNCHANGED <<logger, fatal, parent, cur, gen, closer>>
  \/ /\ pc[b] = "released"
     /\ \E ok \in BOOLEAN : Log(b, "result", ok) /\ SetFatal(b, ok)
     /\ Goto(b, "gone")
     /\ UNCHANGED <<parent, cur, holds, gen, closer>>

(* The end function Begin returned: the result record, and only then the   *)
(* release.                                                                *)
BootResult(b) ==
  /\ pc[b] = "answered"
  /\ \E ok \in BOOLEAN : Log(b, "result", ok) /\ SetFatal(b, ok)
  /\ Goto(b, "releasing")
  /\ UNCHANGED <<parent, cur, holds, gen, closer>>

Release(b) ==
  /\ pc[b] = "releasing"
  /\ Goto(b, "gone") /\ holds' = holds - 1
  /\ UNCHANGED <<logger, parent, fatal, cur, gen, closer>>
-----------------------------------------------------------------------------
(* The run of the session is over. *)
RunEnds ==
  /\ stage = "session" /\ cur = NoCall
  /\ stage' = "ended"
  /\ UNCHANGED <<logger, pc, parent, fatal, cur, holds, gen, closing, expired, watched,
                 pending, closeErr, verdict>>

(* The closer looks at the latch: with a failure to report it will not     *)
(* wait for held records.                                                  *)
ReadErr ==
  /\ stage = "ended"
  /\ stage' = "drain" /\ expired' = latched
  /\ UNCHANGED <<logger, pc, parent, fatal, cur, holds, gen, closing, watched, pending,
                 closeErr, verdict>>

(* Mutant: the log is marked closing only after the lock is given up. *)
stopsWaiting_Unmarked == closing' = FALSE /\ pending' = holds /\ stage' = "closing"

(* The last read of the holds and the closing mark are one critical section.*)
stopsWaiting == closing' = TRUE /\ pending' = holds /\ stage' = "closing"

(* One turn of pendingAfter's loop. *)
pendingAfter ==
  /\ stage = "drain"
  /\ \/ /\ holds = 0 \/ expired
        /\ stopsWaiting
        /\ UNCHANGED watched
     \/ /\ holds > 0 /\ ~expired
        /\ watched' = gen /\ stage' = "waiting"
        /\ UNCHANGED <<closing, pending>>
  /\ UNCHANGED <<logger, pc, parent, fatal, cur, holds, gen, expired, closeErr, verdict>>

Expire ==
  /\ stage \in {"drain", "waiting"} /\ ~expired
  /\ expired' = TRUE
  /\ UNCHANGED <<logger, pc, parent, fatal, cur, holds, gen, closing, stage, watched,
                 pending, closeErr, verdict>>

(* Mutant: the wait has no timer. *)
Wakes_OnDrainOnly == watched < gen \/ holds = 0

(* The captured channel is closed, or the timer fires. *)
Wakes == watched < gen \/ holds = 0 \/ expired

Wake ==
  /\ stage = "waiting" /\ Wakes
  /\ stage' = "drain"
  /\ UNCHANGED <<logger, pc, parent, fatal, cur, holds, gen, closing, expired, watched,
                 pending, closeErr, verdict>>

CloseWriter ==
  /\ stage = "closing"
  /\ stage' = "report" /\ closeErr' \in BOOLEAN
  /\ UNCHANGED <<logger, pc, parent, fatal, cur, holds, gen, closing, expired, watched,
                 pending, verdict>>

(* The closer returns the latched failure, else a pending record, else the *)
(* error of the close.                                                     *)
Closer == IF latched THEN "latched" ELSE IF pending > 0 THEN "pending"
          ELSE IF closeErr THEN "close" ELSE "clean"

Report ==
  /\ stage = "report"
  /\ stage' = "closed" /\ verdict' = Closer
  /\ UNCHANGED <<logger, pc, parent, fatal, cur, holds, gen, closing, expired, watched,
                 pending, closeErr>>
-----------------------------------------------------------------------------
Init ==
  /\ latched = FALSE /\ seq = 0
  /\ rec = [c \in Calls |-> [attempt |-> 0, result |-> 0]]
  /\ pc = [c \in Calls |-> "new"] /\ parent = [c \in Calls |-> NoCall]
  /\ fatal = {} /\ cur = NoCall /\ holds = 0 /\ gen = 0
  /\ closing = FALSE /\ stage = "session" /\ expired = FALSE /\ watched = 0
  /\ pending = 0 /\ closeErr = FALSE /\ verdict = "none"

CloserStep == ReadErr \/ pendingAfter \/ Wake \/ CloseWriter \/ Report

CallStep == \/ \E o \in Outer : Dispatch(o) \/ OuterResult(o)
            \/ \E c \in Inner \cup Boot : Spawn(c)
            \/ \E i \in Inner : InnerAttempt(i) \/ InnerResult(i)
            \/ \E b \in Boot : Begin(b) \/ BootAttempt(b) \/ BootResult(b) \/ Release(b)
            \/ \E c \in Calls : Answers(c)

Next == CallStep \/ RunEnds \/ CloserStep \/ Expire

(* The closer runs and its timer fires; no call owes an answer. *)
Fairness == WF_vars(CloserStep) /\ WF_vars(Expire)

Spec == Init /\ [][Next]_vars /\ Fairness
-----------------------------------------------------------------------------
Pcs == {"new", "spawned", "gone"} \cup Holder

Stages == {"session", "ended", "drain", "waiting", "closing", "report", "closed"}

(* The types of the state; holds counts down to zero and never below.      *)
TypeOK ==
  /\ latched \in BOOLEAN /\ seq \in Nat
  /\ rec \in [Calls -> [attempt : Nat, result : Nat]]
  /\ pc \in [Calls -> Pcs] /\ parent \in [Calls -> Outer \cup {NoCall}]
  /\ fatal \subseteq Outer /\ cur \in Outer \cup {NoCall}
  /\ holds \in Nat /\ gen \in Nat /\ watched \in Nat
  /\ closing \in BOOLEAN /\ expired \in BOOLEAN /\ closeErr \in BOOLEAN
  /\ stage \in Stages /\ pending \in Nat
  /\ verdict \in {"none", "latched", "pending", "close", "clean"}

(* The numbers on file are 1, 2, 3 ... without a gap or a double, up to    *)
(* the failed write that took the last one, whatever writers race.         *)
SeqDense ==
  LET used == {u \in Calls \X {"attempt", "result"} : rec[u[1]][u[2]] > 0}
      last == IF latched THEN seq - 1 ELSE seq
  IN /\ {rec[u[1]][u[2]] : u \in used} = 1..last
     /\ Cardinality(used) = last

(* Sent, by the attempt record that precedes every body. *)
Sent(c) == pc[c] \in {"sent", "answered"} \/ rec[c].attempt > 0

Owed(c) == Sent(c) /\ rec[c].result = 0

(* A call is sent only with its attempt on file, and a result record comes *)
(* after the attempt record of its call.                                   *)
AttemptsFirst ==
  \A c \in Calls : /\ Sent(c) => rec[c].attempt > 0
                   /\ rec[c].result > 0 => rec[c].attempt < rec[c].result

(* When the closer reports no error, every call that was sent has its      *)
(* result on file and no call that could still write is left: a detached   *)
(* control-plane call either finished its record before or is refused.     *)
CleanCloseIsComplete ==
  verdict = "clean" =>
    /\ ~latched
    /\ \A c \in Calls : ~Owed(c) /\ pc[c] \in {"new", "spawned", "gone"}

(* The closer blames a pending record only when some call is really still  *)
(* holding the log open at the time it stops waiting, and it stops early   *)
(* only with a latched failure.                                            *)
PendingIsReal ==
  [][stage = "drain" /\ stage' = "closing" =>
       /\ pending' = Cardinality(Holders)
       /\ pending' > 0 => expired]_vars

(* The closer returns although a control-plane call may never answer.      *)
CloserReturns == stage = "ended" ~> stage = "closed"

(* The trail implements the contract of the audit log. *)
Contract == INSTANCE AuditContract WITH
              owed <- {c \in Calls : Owed(c)},
              lost <- latched,
              verdict <- CASE verdict = "none"  -> "none"
                           [] verdict = "clean" -> "clean"
                           [] OTHER             -> "fault"

KeepsContract == Contract!Spec
=============================================================================
