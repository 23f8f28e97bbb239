--------------------------- MODULE AuditContract ---------------------------
(***************************************************************************)
(* What the audit log promises the operator (internal/audit): every call   *)
(* that was sent is owed a result record, a lost record is never forgotten,*)
(* and the log closes without an error only when nothing is owed, nothing  *)
(* was lost, and nothing will be sent or lost afterwards.                  *)
(***************************************************************************)
CONSTANT Calls

VARIABLES
  owed,     \* calls sent whose result record is not on file
  lost,     \* a record could not be written
  verdict   \* what closing the log reported: "none" before, "clean" or "fault"

vars == <<owed, lost, verdict>>

Init == owed = {} /\ lost = FALSE /\ verdict = "none"

(* A call is sent: never after a clean close.                              *)
Send(c) ==
  /\ verdict # "clean"
  /\ owed' = owed \cup {c}
  /\ UNCHANGED <<lost, verdict>>

(* Its result record is on file. *)
Settle(c) ==
  /\ c \in owed
  /\ owed' = owed \ {c}
  /\ UNCHANGED <<lost, verdict>>

(* A record cannot be written: never after a clean close. *)
Lose ==
  /\ verdict # "clean"
  /\ lost' = TRUE
  /\ UNCHANGED <<owed, verdict>>

CloseClean ==
  /\ verdict = "none" /\ owed = {} /\ ~lost
  /\ verdict' = "clean"
  /\ UNCHANGED <<owed, lost>>

CloseFault ==
  /\ verdict = "none"
  /\ verdict' = "fault"
  /\ UNCHANGED <<owed, lost>>

Next == \/ \E c \in Calls : Send(c) \/ Settle(c)
        \/ Lose \/ CloseClean \/ CloseFault

Spec == Init /\ [][Next]_vars
=============================================================================
