------------------------------ MODULE Verdicts ------------------------------
(***************************************************************************)
(* What verify_findings makes of the answers of its two passes: the strict *)
(* reading of an answer and the fold of two verdicts per finding.  The     *)
(* passes themselves, with the stop and the budget, are in AgentLoop.      *)
(*                                                                         *)
(* An answer is what a model wrote: a code fence, text before and after,   *)
(* and the members of an object as they stand, a key as often as it was    *)
(* written.  The code sees the tokens of it.  Junk is a token the decoder  *)
(* does not read.                                                          *)
(***************************************************************************)
EXTENDS Naturals, FiniteSets, SequencesExt

CONSTANTS
  Findings,   \* how many findings are verified
  PassAnswers, \* what the passes answer: <<first, second>>, the pairs that occur
  ToLower(_)   \* strings.ToLower

maxFindingsPerCall == 16
findingID == <<"f1", "f2", "f3", "f4", "f5", "f6", "f7", "f8", "f9", "f10", "f11", "f12", "f13", "f14", "f15", "f16">>
Ids == {findingID[i] : i \in 1..Findings}

ASSUME FindingsAssumption == Findings \in 1..maxFindingsPerCall
ASSUME ToLowerAssumption == \A s \in Ids \cup {"verdict", "justification"} : ToLower(s) = s

VARIABLES
  answers,  \* what the model answers to each pass
  passes,   \* the verdicts of the passes that have run
  outcomes  \* the outcome of each finding, once reported

verdictVars == <<answers, passes, outcomes>>

Openers == {"{", "["}
Closers == {"}", "]"}
Delims == Openers \cup Closers
Junk == "junk"
NotStrings == {"null", "1"}

(* The text of an answer, as a decoder sees it. *)
Members(ms) == FlattenSeq([i \in DOMAIN ms |-> <<ms[i].key>> \o ms[i].value])
Text(a) ==
  a.before \o <<"{">> \o Members([i \in DOMAIN a.members |->
      [key |-> a.members[i].key,
       value |-> IF a.members[i].fields = <<>> THEN a.members[i].value
                 ELSE <<"{">> \o Members(a.members[i].fields) \o <<"}">>]]) \o a.after

(* How the parts of an answer are written: what is before has no object in *)
(* it, an object's value is told by its fields, and a value of a field ends *)
(* where the brackets it opened are closed.                                *)
Names == STRING \ (Delims \cup {Junk})
Depth(value, k) ==
  Cardinality({i \in 1..k : value[i] \in Openers}) - Cardinality({i \in 1..k : value[i] \in Closers})
JSONValue(value) ==
  /\ value \in Seq(STRING) /\ Len(value) > 0 /\ \A k \in DOMAIN value : value[k] # Junk
  /\ Depth(value, Len(value)) = 0 /\ \A k \in 1..(Len(value) - 1) : Depth(value, k) > 0
FlatValue(value) ==
  /\ value \in Seq(STRING) /\ Len(value) > 0
  /\ value = <<"{", "}">> \/ value[1] = "[" \/ (Len(value) = 1 /\ value[1] \in Names)

WellWritten(a) ==
  /\ a.before \in Seq(STRING) /\ (a.before # <<>> => a.before[1] # "{")
  /\ a.after \in Seq(STRING) /\ (a.after # <<>> => a.after[1] \in {"}", Junk})
  /\ a.members \in Seq(Range(a.members))
  /\ \A m \in Range(a.members) :
       /\ m.key \in Names /\ m.fields \in Seq(Range(m.fields))
       /\ IF m.fields = <<>> THEN FlatValue(m.value)
          ELSE \A f \in Range(m.fields) : f.key \in Names /\ JSONValue(f.value)

ASSUME AnswersAssumption ==
  \A pair \in PassAnswers : pair \in Seq(Range(pair)) /\ \A a \in Range(pair) : WellWritten(a)

(* One fence without, or with the json tag, is taken off; what is left of  *)
(* any other is no JSON.                                                   *)
stripCodeFence(a) == IF a.fence \in {"none", "bare", "json"} THEN Text(a) ELSE <<Junk>> \o Text(a)
-----------------------------------------------------------------------------
(* The walk over all keys: a stack of scopes, an array's without keys.  A  *)
(* text that just ends is no error here.                                   *)
Array == [seen |-> {}, expectKey |-> FALSE, object |-> FALSE]
objectFrame == [seen |-> {}, expectKey |-> TRUE, object |-> TRUE]
afterValue(stack) ==
  IF stack # <<>> /\ Last(stack).object THEN Append(Front(stack), [Last(stack) EXCEPT !.expectKey = TRUE]) ELSE stack

stepDelim(stack, t) ==
  CASE t = "{" -> Append(afterValue(stack), objectFrame)
    [] t = "[" -> Append(afterValue(stack), Array)
    [] OTHER -> Front(stack)

(* A key is compared as encoding/json compares the names of fields. *)
duplicate_Exact(frame, key) == key \in frame.seen

duplicate(frame, key) == ToLower(key) \in {ToLower(k) : k \in frame.seen}

stepKey(st, t) ==
  LET top == Last(st.stack)
  IN IF duplicate(top, t) THEN [st EXCEPT !.failed = TRUE]
     ELSE [st EXCEPT !.stack = Append(Front(@), [top EXCEPT !.seen = @ \cup {t}, !.expectKey = FALSE])]

stepToken(st, t) ==
  IF st.failed \/ t = Junk THEN [st EXCEPT !.failed = TRUE]
  ELSE IF t \in Delims THEN [st EXCEPT !.stack = stepDelim(@, t)]
  ELSE IF st.stack # <<>> /\ Last(st.stack).expectKey THEN stepKey(st, t)
  ELSE [st EXCEPT !.stack = afterValue(@)]

walkTokens(st, text) ==
  LET after[k \in 0..Len(text)] == IF k = 0 THEN st ELSE stepToken(after[k - 1], text[k])
  IN after[Len(text)]

NoScope == [stack |-> <<>>, failed |-> FALSE]
ensureNoDuplicateKeys(text) == ~walkTokens(NoScope, text).failed

(* The walk into a map of verdicts: one object, whose values are objects   *)
(* (null is an empty one), read by encoding/json: the last field of a name *)
(* in any case counts, an unknown one is skipped with all that is in it.   *)
NoVerdict == ""
Fail(st) == [st EXCEPT !.at = "failed"]
Field(st, t) ==      \* a value at the depth of the fields
  LET known == ToLower(st.field) \in {"verdict", "justification"}
  IN IF t \in Openers THEN IF known THEN Fail(st) ELSE [st EXCEPT !.at = "skip", !.depth = 1]
     ELSE IF known /\ t = "1" THEN Fail(st)
     ELSE IF ToLower(st.field) = "verdict" /\ t # "null" THEN [st EXCEPT !.at = "fields", !.verdict = t]
     ELSE [st EXCEPT !.at = "fields"]

Key(st, t) ==
  IF t = "}" THEN [st EXCEPT !.at = "closed"]
  ELSE IF t \in DOMAIN st.map THEN Fail(st)
  ELSE [st EXCEPT !.at = "value", !.key = t, !.verdict = NoVerdict]

Keep(st, verdict) ==
  [st EXCEPT !.at = "key",
             !.map = [k \in DOMAIN @ \cup {st.key} |-> IF k = st.key THEN verdict ELSE @[k]]]

Skip(st, t) ==
  LET depth == st.depth + (IF t \in Openers THEN 1 ELSE IF t \in Delims THEN -1 ELSE 0)
  IN [st EXCEPT !.depth = depth, !.at = IF depth = 0 THEN "fields" ELSE "skip"]

decode(st, t) ==
  IF st.at = "failed" \/ t = Junk THEN Fail(st)
  ELSE CASE st.at = "start"  -> IF t = "{" THEN [st EXCEPT !.at = "key"] ELSE Fail(st)
         [] st.at = "key"    -> Key(st, t)
         [] st.at = "value"  -> IF t = "{" THEN [st EXCEPT !.at = "fields"]
                                ELSE IF t = "null" THEN Keep(st, NoVerdict) ELSE Fail(st)
         [] st.at = "fields" -> IF t = "}" THEN Keep(st, st.verdict) ELSE [st EXCEPT !.at = "field", !.field = t]
         [] st.at = "field"  -> Field(st, t)
         [] st.at = "skip"   -> Skip(st, t)
         [] OTHER            -> Fail(st)

readTokens(st, text) ==
  LET after[k \in 0..Len(text)] == IF k = 0 THEN st ELSE decode(after[k - 1], text[k])
  IN after[Len(text)]

Unread == [at |-> "start", map |-> <<>>, key |-> Junk, field |-> Junk, verdict |-> NoVerdict, depth |-> 0]
decodeVerdictObject(text) == readTokens(Unread, text)
-----------------------------------------------------------------------------
knownVerdict(v) == v \in {"confirmed", "refuted", "insufficient"}
degradedPass == [i \in 1..Findings |-> "insufficient"]

(* A finding the answer does not name, or gives no known verdict, is       *)
(* insufficient; any key that was not asked for spoils the whole pass.     *)
parsePass(a) ==
  LET text == stripCodeFence(a)
      st == decodeVerdictObject(text)
  IN IF ~ensureNoDuplicateKeys(text) \/ st.at # "closed" \/ ~(DOMAIN st.map \subseteq Ids) THEN degradedPass
     ELSE [i \in 1..Findings |->
             IF findingID[i] \in DOMAIN st.map /\ knownVerdict(st.map[findingID[i]])
             THEN st.map[findingID[i]] ELSE "insufficient"]

(* Only a normal stop, or none reported, is trusted with a whole answer. *)
abnormalVerifierStop(reason) == reason \notin {"normal", "unspecified"}

aggregate(vs) ==
  CASE \E i \in DOMAIN vs : vs[i] = "refuted" -> "REFUTED"
    [] vs # <<>> /\ \A i \in DOMAIN vs : vs[i] = "confirmed" -> "VERIFIED"
    [] OTHER -> "UNVERIFIED"

(* A pass that was skipped, failed or answered without a message has no    *)
(* answer.                                                                 *)
runPass ==
  /\ Len(passes) < Len(answers)
  /\ LET a == answers[Len(passes) + 1]
     IN passes' = Append(passes, IF a.reply # "message" \/ abnormalVerifierStop(a.stop) THEN degradedPass ELSE parsePass(a))
  /\ UNCHANGED <<answers, outcomes>>

report ==
  /\ Len(passes) = Len(answers) /\ outcomes = <<>>
  /\ outcomes' = [i \in 1..Findings |-> aggregate([p \in DOMAIN passes |-> passes[p][i]])]
  /\ UNCHANGED <<answers, passes>>

VerdictInit == answers \in PassAnswers /\ passes = <<>> /\ outcomes = <<>>
VerdictNext == runPass \/ report
-----------------------------------------------------------------------------
(* The answer is one object with nothing around it. *)
Whole(a) ==
  /\ a.reply = "message" /\ a.stop \in {"normal", "unspecified"}
  /\ a.before = <<>> /\ a.after = <<"}">> /\ a.fence \in {"none", "bare", "json"}

(* Every verdict it gives a finding, in whatever spelling of the keys. *)
Given(a, id) ==
  UNION {{f.value : f \in {g \in Range(m.fields) : ToLower(g.key) = "verdict"}} : m \in {n \in Range(a.members) : ToLower(n.key) = id}}

(* It has the form the prompt asks for: each finding at most once, with    *)
(* each field at most once, and all of them text.                          *)
OnceEach(ms) == \A i, j \in DOMAIN ms : ms[i].key = ms[j].key => i = j
InOrder(a) ==
  /\ Whole(a) /\ OnceEach(a.members)
  /\ \A m \in Range(a.members) :
       /\ m.key \in Ids /\ m.fields # <<>> /\ OnceEach(m.fields)
       /\ \A f \in Range(m.fields) : f.key \in {"verdict", "justification"} /\ Len(f.value) = 1 /\ f.value[1] \notin NotStrings

(* A finding is VERIFIED only when both passes answered in full and, in    *)
(* all that they wrote of it in any spelling and however often, gave it no *)
(* verdict but confirmed, and wrote of no finding that was not asked; and  *)
(* an answer that is in order and refutes a finding is never lost (every   *)
(* degradation of parsePass is to insufficient, and aggregate).            *)
VerdictsEarned ==
  \A i \in DOMAIN outcomes, p \in DOMAIN answers :
    LET a == answers[p]
        given == Given(a, findingID[i])
    IN /\ outcomes[i] = "VERIFIED" => Whole(a) /\ given = {<<"confirmed">>} /\ \A m \in Range(a.members) : m.key \in Ids
       /\ InOrder(a) /\ given = {<<"refuted">>} => outcomes[i] = "REFUTED"
=============================================================================
