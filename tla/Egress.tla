------------------------------- MODULE Egress -------------------------------
(***************************************************************************)
(* The operator's proxy settings: read from the environment and validated  *)
(* once, before any connector registers; the route of a request; and the   *)
(* proxy's credential kept out of every text that leaves the process.      *)
(*                                                                         *)
(* A setting is a URL by its parts.  A credential, and a text that may     *)
(* repeat it, are sequences of letters; the letters of the Basic token are *)
(* those that are given for the pair it encodes, and no letter changes     *)
(* when it is quoted.                                                      *)
(***************************************************************************)
EXTENDS Naturals, FiniteSets, SequencesExt

CONSTANTS
  Environments, \* the proxy variables, by name: the functions that occur
  Texts,        \* what an error or a status reason may say
  BasicToken,   \* the Basic token of a pair of user and password
  Unset

schemes == {"http", "socks5", "socks5h"}

(* A setting by its parts, with one of these schemes or any other, and the *)
(* user and password in it, also as they are spelled there.                *)
Users == [name : Seq(STRING), password : Seq(STRING), spelled : Seq(STRING)]
Settings ==
  [valid : BOOLEAN, scheme : schemes \cup STRING, host : STRING, port : Nat \cup {Unset}, path : BOOLEAN, user : Users \cup {Unset}]

Pair(user) == user.name \o <<":">> \o user.password
proxyVariables == {"https_proxy", "HTTPS_PROXY", "http_proxy", "HTTP_PROXY"}

ASSUME UnsetAssumption == Unset \notin Settings
ASSUME EnvironmentsAssumption == \A e \in Environments : \A v \in proxyVariables : e[v] \in Settings \cup {Unset}
ASSUME TextsAssumption == Texts \subseteq Seq(STRING)
ASSUME BasicTokenAssumption ==
  \A e \in Environments : \A v \in proxyVariables :
    e[v] # Unset /\ e[v].user # Unset => BasicToken[Pair(e[v].user)] \in Seq(STRING) \ {<<>>}

minScrubbedCredentialLen == 2     \* 4 letters; texts are half as long here
maxSOCKSCredentialLen == 3        \* 255 bytes
maxPort == 65535

VARIABLES
  environment, \* what the variables say
  policy,      \* the Egress of the run, which is "reading", "stopped" or "running"
  said         \* <<text, text as it left the process>>, or Unset

egressVars == <<environment, policy, said>>

AdmittedHost(host) == host \notin {"", "non-ASCII", "zoned"}

firstNonEmpty(lower, upper) == IF environment[lower] # Unset THEN environment[lower] ELSE environment[upper]

(* url.Parse, and once more behind http:// for what has no scheme or host. *)
Parsed(raw) == IF raw.scheme = "" THEN [raw EXCEPT !.scheme = "http"] ELSE raw

socksCredentialFits(user) ==
  user.name # <<>> /\ Len(user.name) <= maxSOCKSCredentialLen /\ Len(user.password) <= maxSOCKSCredentialLen

(* A value that is not set is fine, and so is one net/http can drive. *)
parseProxyValue(raw) ==
  \/ raw = Unset
  \/ LET u == Parsed(raw)
     IN /\ u.valid /\ u.scheme \in schemes /\ AdmittedHost(u.host)
        /\ u.port = Unset \/ u.port \in 1..maxPort
        /\ ~u.path     \* nothing but an authority
        /\ u.user = Unset \/ u.scheme = "http" \/ socksCredentialFits(u.user)
-----------------------------------------------------------------------------
(* Every spelling of a credential an error or a proxy could repeat. *)
plainForms(s) == IF Len(s) < minScrubbedCredentialLen THEN {} ELSE {s}
credentialForms(raw) ==
  IF raw = Unset THEN {}
  ELSE IF raw.user = Unset \/ Pair(raw.user) = <<":">> THEN {}
  ELSE {BasicToken[Pair(raw.user)], Pair(raw.user)}
       \cup UNION {plainForms(s) : s \in {raw.user.name, raw.user.password, raw.user.spelled}}
scrubForms(https, http) == credentialForms(https) \cup credentialForms(http)

(* The ranges of a text that the forms take up, with those that overlap or *)
(* touch as one.                                                           *)
found(s, forms) ==
  {sp \in [start : DOMAIN s, end : 1..(Len(s) + 1)] : SubSeq(s, sp.start, sp.end - 1) \in forms}

(* Mutant: the last range of a run gives its end. *)
merge_LastEnd(merged, sp) ==
  IF merged # <<>> /\ sp.start <= Last(merged).end
  THEN [merged EXCEPT ![Len(merged)].end = sp.end]
  ELSE Append(merged, sp)

merge(merged, sp) ==
  IF merged # <<>> /\ sp.start <= Last(merged).end
  THEN [merged EXCEPT ![Len(merged)].end = IF sp.end > @ THEN sp.end ELSE @]
  ELSE Append(merged, sp)

(* From the left; of those with one start, in whatever order they come,    *)
(* the longest is what is left.                                            *)
longest(spans, i) ==
  CHOOSE sp \in spans : sp.start = i /\ \A o \in spans : o.start = i => o.end <= sp.end
credentialSpans(s, forms) ==
  LET spans == found(s, forms)
      merged[i \in 0..Len(s)] ==
        IF i = 0 THEN <<>>
        ELSE IF \A sp \in spans : sp.start # i THEN merged[i - 1] ELSE merge(merged[i - 1], longest(spans, i))
  IN merged[Len(s)]

Placeholder == "[REDACTED:proxy-credential]"
Scrub(s, forms) ==
  LET spans == credentialSpans(s, forms)
      between(i) == SubSeq(s, IF i = 1 THEN 1 ELSE spans[i - 1].end, spans[i].start - 1)
      last == IF spans = <<>> THEN 1 ELSE Last(spans).end
  IN FlattenSeq([i \in DOMAIN spans |-> Append(between(i), Placeholder)]) \o SubSeq(s, last, Len(s))
-----------------------------------------------------------------------------
(* An unusable setting stops the run before any connector registers. *)
NewEgress ==
  LET https == firstNonEmpty("https_proxy", "HTTPS_PROXY")
      http == firstNonEmpty("http_proxy", "HTTP_PROXY")
      exempt == firstNonEmpty("no_proxy", "NO_PROXY")
  IN /\ policy.state = "reading"
     /\ policy' = IF parseProxyValue(https) /\ parseProxyValue(http) /\ exempt # "control character"
                  THEN [state |-> "running", https |-> https, http |-> http, exempt |-> exempt, secrets |-> scrubForms(https, http)]
                  ELSE [state |-> "stopped"]
     /\ UNCHANGED <<environment, said>>

(* An error text, or the reason of a connector's status, leaves. *)
ScrubError ==
  /\ policy.state = "running" /\ said = Unset
  /\ \E s \in Texts : said' = <<s, Scrub(s, policy.secrets)>>
  /\ UNCHANGED <<environment, policy>>

(* httpproxy reads the value again, and takes what it cannot parse for no proxy. *)
proxyFunc(host) ==
  IF policy.https = Unset \/ host = policy.exempt THEN Unset
  ELSE IF Parsed(policy.https).valid THEN Parsed(policy.https) ELSE Unset

EgressInit == environment \in Environments /\ policy = [state |-> "reading"] /\ said = Unset
EgressNext == NewEgress \/ ScrubError
-----------------------------------------------------------------------------
(* The credentials of the proxies in use, in every form they are sent or   *)
(* written in.                                                             *)
Secrets ==
  LET users == {p.user : p \in {policy.https, policy.http} \ {Unset}} \ {Unset}
      forms(u) == {BasicToken[Pair(u)], Pair(u)} \cup {w \in {u.name, u.password, u.spelled} : Len(w) >= minScrubbedCredentialLen}
  IN UNION {forms(u) : u \in {w \in users : Pair(w) # <<":">>}}

(* Letters of a text some secret covers, at whatever place and however     *)
(* they overlap.                                                           *)
Covered(s) ==
  {j \in DOMAIN s : \E f \in Secrets, i \in 1..j : j < i + Len(f) /\ i + Len(f) <= Len(s) + 1 /\ SubSeq(s, i, i + Len(f) - 1) = f}

(* The run has stopped, or what the operator set is what happens: no       *)
(* request goes past a proxy that is set, save to a host that is exempt,   *)
(* and of a text that leaves, exactly the letters of no secret are left,   *)
(* a placeholder for every stretch between (NewEgress and Scrub).          *)
ProxySettingsKept ==
  policy.state = "running" =>
    /\ \A host \in {"api", "internal"} :
         firstNonEmpty("https_proxy", "HTTPS_PROXY") # Unset /\ host # policy.exempt =>
           LET p == proxyFunc(host) IN p # Unset /\ p.scheme \in schemes /\ AdmittedHost(p.host)
    /\ said # Unset =>
         LET s == said[1]
             secret == Covered(s)
         IN said[2] = FlattenSeq([i \in DOMAIN s |-> IF i \notin secret THEN <<s[i]>>
                                                      ELSE IF i - 1 \notin secret THEN <<Placeholder>> ELSE <<>>])
=============================================================================
