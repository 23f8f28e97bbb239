-------------------------- MODULE ConnectorProofs --------------------------
(***************************************************************************)
(* What holds of the connectors, for any of them that are tried and any    *)
(* number of requests: what the operator learns of those that did not come *)
(* up, the operator's view of an AWS scope, the outcome of the bootstrap,  *)
(* the tokens that glab hands out, for every role or policy what the gates *)
(* of Kubernetes, Google Cloud, AWS and GitHub let through, and for every  *)
(* environment what becomes of the operator's proxy settings.              *)
(***************************************************************************)
EXTENDS Credentials, Registration, Egress, SequenceTheorems, FiniteSetTheorems, WellFoundedInduction, TLAPS

CONSTANT Colon   \* the segments of Google's paths with a custom verb

Kube == INSTANCE KubeGate
Gcp == INSTANCE GcpGate
Aws == INSTANCE AwsGate
Hub == INSTANCE GithubGate

RegSpec == RegInit /\ [][RegNext]_regVars
AwsSpec == AwsInit /\ [][AwsNext]_awsVars
LabSpec == LabInit /\ [][LabNext]_labVars

Scopes == [mode : {"unresolved", "disabled", "assume role"}, armed : BOOLEAN, degraded : BOOLEAN,
           enforced : {"", "client", "client+aws", "client+aws(unverified)"}]

AwsTypeOK ==
  /\ caller \in {"user", "assumed role"}
  /\ scope \in Scopes
  /\ denied \in BOOLEAN
  /\ notices \in Nat
  /\ cached \in {"none", "base", "scoped"}
  /\ signed \subseteq {"base", "scoped"}

(* The provider is degraded exactly when STS has refused the role, and one *)
(* notice tells it; until then it is armed to tell.  Base credentials are  *)
(* kept, or signed with, by nobody else that has a role to assume.         *)
ScopeOK ==
  /\ scope.mode = "disabled" => caller = "user"
  /\ scope.mode = "assume role" => caller = "assumed role"
  /\ scope.mode = "unresolved" => /\ cached = "none" /\ signed = {} /\ scope.enforced = ""
                                  /\ \A r \in Requests : stage[r] = "idle"
  /\ scope.degraded <=> denied
  /\ denied => scope.mode = "assume role"
  /\ notices = IF denied THEN 1 ELSE 0
  /\ scope.mode = "assume role" /\ ~denied => scope.armed
  /\ caller = "assumed role" /\ ~denied => cached # "base" /\ "base" \notin signed
  /\ caller = "assumed role" /\ ~denied => scope.enforced # "client"
  /\ caller = "user" => cached # "scoped" /\ "scoped" \notin signed

ScopeInv == AwsTypeOK /\ ScopeOK

(* Nobody is past the bootstrap before it is over, and nobody waits for it *)
(* then.                                                                   *)
OnceOK ==
  /\ stage \in [Requests -> {"idle", "bootstrap", "waiting", "ready", "refused", "failed", "signed"}]
  /\ once \in Requests \cup {"idle", "done"}
  /\ once # "done" => \A r \in Requests : stage[r] \in {"idle", "bootstrap", "waiting"}
  /\ once = "done" => \A r \in Requests : stage[r] \notin {"bootstrap", "waiting"}
  /\ notReady # "canceled"
  /\ \A r \in Requests : stage[r] = "refused" => notReady # ""

(* The helper runs for a request that asked before the clock was read.     *)
LabOK ==
  /\ now \in Nat /\ token \in Nat
  /\ asked \in [Requests -> Nat] /\ handed \in [Requests -> Nat]
  /\ step \in [Requests -> {"idle", "asks", "token", "none"}]
  /\ lock \in [by : Requests \cup {"none"}, at : Nat]
  /\ \A r \in Requests : asked[r] <= now
  /\ \A r \in Requests : lock.by = r => step[r] = "asks" /\ asked[r] <= lock.at
  /\ TokenValidWhenAsked
-----------------------------------------------------------------------------
LEMMA ScopeInit == AwsInit => ScopeInv
<1> SUFFICES ASSUME AwsInit PROVE ScopeInv
  OBVIOUS
<1>1. scope \in Scopes
  BY DEF AwsInit, Scopes
<1>2. scope.mode = "unresolved" /\ scope.degraded = FALSE /\ scope.enforced = ""
  BY DEF AwsInit
<1>3. AwsTypeOK
  BY <1>1 DEF AwsInit, AwsTypeOK
<1> QED BY <1>2, <1>3 DEF AwsInit, ScopeInv, ScopeOK

LEMMA ResolveKeeps == ASSUME ScopeInv, ResolveScope PROVE ScopeInv'
<1> DEFINE mode == DetectCredScope
<1>1. PICK answer \in assumeRole :
           /\ mode = "disabled" => answer = "ok"
           /\ scope' = [mode |-> mode, armed |-> mode # "disabled" /\ ~degradedBy(mode, FALSE, answer),
                        degraded |-> degradedBy(mode, FALSE, answer),
                        enforced |-> awsEnforced(IF degradedBy(mode, FALSE, answer) THEN "disabled" ELSE mode,
                                                 answer = "ok")]
           /\ notices' = notices + (IF degradedBy(mode, FALSE, answer) THEN 1 ELSE 0)
           /\ denied' = (denied \/ (mode # "disabled" /\ answer = "denied"))
           /\ cached' = IF mode = "disabled" \/ retrieved(mode, FALSE, answer) = "" THEN "none"
                        ELSE retrieved(mode, FALSE, answer)
  BY Zenon DEF ResolveScope
<1> DEFINE gone == degradedBy(mode, FALSE, answer)
           armed == mode # "disabled" /\ ~gone
           enforced == awsEnforced(IF gone THEN "disabled" ELSE mode, answer = "ok")
<1>2. UNCHANGED <<caller, signed>> /\ scope.mode = "unresolved"
  BY DEF ResolveScope
<1>3. ~denied /\ notices = 0 /\ cached = "none" /\ signed = {} /\ caller \in {"user", "assumed role"}
  BY <1>2 DEF ScopeInv, ScopeOK, AwsTypeOK
<1>4. gone \in BOOLEAN /\ armed \in BOOLEAN /\ (gone <=> mode = "assume role" /\ answer = "denied")
  BY DEF degradedBy, isAccessDenied
<1>5. mode \in {"disabled", "assume role"} /\ (mode = "assume role" <=> caller = "assumed role")
  BY <1>3 DEF DetectCredScope
<1>6. /\ enforced \in {"client", "client+aws", "client+aws(unverified)"}
      /\ enforced = "client" <=> (mode = "disabled" \/ gone)
  BY <1>5 DEF awsEnforced
<1>7. retrieved(mode, FALSE, answer) =
        IF mode = "disabled" \/ answer = "denied" THEN "base" ELSE IF answer = "ok" THEN "scoped" ELSE ""
  BY DEF retrieved, isAccessDenied
<1>8. scope' = [mode |-> mode, armed |-> armed, degraded |-> gone, enforced |-> enforced]
  BY <1>1
<1>9. (denied' <=> gone) /\ denied' \in BOOLEAN
  BY <1>1, <1>3, <1>4, <1>5, Zenon
<1>10. (gone => notices' = 1) /\ (~gone => notices' = 0)
  <2>1. notices' = 0 + (IF gone THEN 1 ELSE 0) BY <1>1, <1>3, Zenon
  <2> HIDE DEF gone
  <2> QED BY <2>1
<1>11. /\ cached' \in {"none", "base", "scoped"} /\ (mode = "disabled" => cached' = "none")
       /\ cached' = "base" => gone
  BY <1>1, <1>4, <1>5, <1>7
<1> HIDE DEF gone, armed, enforced, mode
<1>12. scope' \in Scopes
  BY <1>4, <1>5, <1>6, <1>8 DEF Scopes
<1>13. /\ scope'.mode = mode /\ scope'.armed = armed /\ scope'.degraded = gone
       /\ scope'.enforced = enforced
  BY <1>8
<1>14. AwsTypeOK'
  <2>1. notices' \in Nat BY <1>10
  <2> QED BY <1>2, <1>3, <1>9, <1>11, <1>12, <2>1, Zenon DEF AwsTypeOK
<1>15. ~gone /\ mode = "assume role" => armed
  BY DEF armed
<1>16. ScopeOK'
  BY <1>2, <1>3, <1>4, <1>5, <1>6, <1>9, <1>10, <1>11, <1>13, <1>15 DEF ScopeOK
<1> QED BY <1>14, <1>16 DEF ScopeInv

(* A step that asks for no credentials leaves the scope alone.             *)
LEMMA OthersScope ==
  ASSUME ScopeInv, UNCHANGED <<caller, scope, denied, notices, signed>>, cached' \in {cached, "none"},
         scope.mode = "unresolved" => \A r \in Requests : stage'[r] = stage[r]
  PROVE  ScopeInv'
BY DEF ScopeInv, AwsTypeOK, ScopeOK

LEMMA InjectKeeps == ASSUME ScopeInv, NEW r \in Requests, InjectAuth(r) PROVE ScopeInv'
<1>1. caller' = caller BY DEF InjectAuth
<1>2. CASE r \in canceled
  <2>1. scope.mode # "unresolved" BY DEF InjectAuth, ScopeInv, ScopeOK
  <2>2. UNCHANGED <<scope, denied, notices, cached, signed>> BY <1>2 DEF InjectAuth
  <2> QED BY <1>1, <2>1, <2>2, OthersScope
<1>3. CASE r \notin canceled /\ cached # "none"
  <2>1. UNCHANGED <<scope, denied, notices, cached>> /\ signed' = signed \cup {cached}
    BY <1>3 DEF InjectAuth
  <2> QED BY <1>1, <1>3, <2>1 DEF ScopeInv, AwsTypeOK, ScopeOK
<1>4. CASE r \notin canceled /\ cached = "none"
  <2> DEFINE asks == scope.mode = "assume role" /\ ~scope.degraded
  <2>1. PICK answer \in assumeRole :
          LET creds == retrieved(scope.mode, scope.degraded, answer)
              gone == degradedBy(scope.mode, scope.degraded, answer)
          IN /\ asks \/ answer = "ok"
             /\ scope' = [scope EXCEPT !.degraded = gone]
             /\ denied' = (denied \/ (asks /\ answer = "denied"))
             /\ notices' = notices + (IF gone /\ ~scope.degraded /\ scope.armed THEN 1 ELSE 0)
             /\ cached' = IF creds = "" THEN "none" ELSE creds
             /\ signed' = IF creds = "" THEN signed ELSE signed \cup {creds}
    BY <1>4, Zenon DEF InjectAuth
  <2> DEFINE creds == retrieved(scope.mode, scope.degraded, answer)
             gone == degradedBy(scope.mode, scope.degraded, answer)
  <2>2. /\ scope \in Scopes /\ denied \in BOOLEAN /\ scope.degraded \in BOOLEAN
        /\ (scope.degraded <=> denied)
    BY DEF ScopeInv, AwsTypeOK, ScopeOK, Scopes
  <2>3. gone \in BOOLEAN /\ (gone <=> denied \/ (asks /\ answer = "denied"))
    BY <2>2, Zenon DEF degradedBy, isAccessDenied
  <2>4. denied' \in BOOLEAN /\ (denied' <=> gone)
    BY <2>1, <2>2, <2>3, Zenon
  <2>5. /\ creds \in {"base", "scoped", ""}
        /\ creds = "base" => scope.mode # "assume role" \/ gone
        /\ creds = "scoped" => scope.mode # "disabled"
    BY <2>2, <2>3 DEF retrieved, isAccessDenied
  <2> HIDE DEF creds, gone
  <2>6. scope' = [scope EXCEPT !.degraded = gone] BY <2>1 DEF gone
  <2>7. scope' \in Scopes /\ scope'.degraded = gone /\ scope'.mode = scope.mode /\ scope'.armed = scope.armed
        /\ scope'.enforced = scope.enforced
    BY <2>2, <2>3, <2>6 DEF Scopes
  <2>8. (gone => notices' = 1) /\ (~gone => notices' = 0)
    <3>1. notices' = notices + (IF gone /\ ~scope.degraded /\ scope.armed THEN 1 ELSE 0)
      BY <2>1 DEF gone
    <3>2. gone /\ ~denied => scope.armed
      BY <2>3 DEF ScopeInv, ScopeOK
    <3>3. CASE denied
      <4>1. notices = 1 BY <3>3 DEF ScopeInv, ScopeOK
      <4>2. notices' = 1 + 0 BY <2>2, <3>1, <3>3, <4>1
      <4> QED BY <2>3, <3>3, <4>2
    <3>4. CASE ~denied
      <4>1. notices = 0 BY <3>4 DEF ScopeInv, ScopeOK
      <4>2. CASE gone
        <5>1. notices' = 0 + 1 BY <2>2, <3>1, <3>2, <3>4, <4>1, <4>2
        <5> QED BY <4>2, <5>1
      <4>3. CASE ~gone
        <5>1. notices' = 0 + 0 BY <3>1, <4>1, <4>3
        <5> QED BY <4>3, <5>1
      <4> QED BY <4>2, <4>3
    <3> QED BY <3>3, <3>4
  <2>9. /\ cached' = IF creds = "" THEN "none" ELSE creds
        /\ signed' = IF creds = "" THEN signed ELSE signed \cup {creds}
    BY <2>1 DEF creds
  <2>10. AwsTypeOK'
    <3>1. notices' \in Nat BY <2>8
    <3>2. cached' \in {"none", "base", "scoped"} BY <2>5, <2>9
    <3>3. signed' \subseteq {"base", "scoped"} BY <2>5, <2>9 DEF ScopeInv, AwsTypeOK
    <3> QED BY <1>1, <2>4, <2>7, <3>1, <3>2, <3>3, Zenon DEF ScopeInv, AwsTypeOK
  <2>11. scope.mode # "unresolved"
    BY DEF InjectAuth, ScopeInv, ScopeOK
  <2>12. ScopeOK'
    <3>1. \/ scope.mode = "disabled" /\ caller = "user" /\ ~gone
          \/ scope.mode = "assume role" /\ caller = "assumed role"
      BY <2>2, <2>3, <2>11 DEF ScopeInv, ScopeOK, Scopes
    <3>2. CASE scope.mode = "disabled"
      BY <1>1, <2>4, <2>5, <2>7, <2>8, <2>9, <3>1, <3>2 DEF ScopeInv, ScopeOK
    <3>3. CASE scope.mode = "assume role"
      BY <1>1, <2>3, <2>4, <2>5, <2>7, <2>8, <2>9, <3>1, <3>3 DEF ScopeInv, ScopeOK
    <3> QED BY <3>1, <3>2, <3>3
  <2> QED BY <2>10, <2>12 DEF ScopeInv
<1> QED BY <1>2, <1>3, <1>4

LEMMA ScopeNext == ScopeInv /\ [AwsNext]_awsVars => ScopeInv'
<1> SUFFICES ASSUME ScopeInv, [AwsNext]_awsVars PROVE ScopeInv'
  OBVIOUS
<1>1. CASE ResolveScope BY <1>1, ResolveKeeps
<1>2. CASE Expire BY <1>2, OthersScope DEF Expire
<1>3. ASSUME NEW r \in Requests, ensureReady(r) \/ Cancel(r) \/ doLazyResolve(r) PROVE ScopeInv'
  <2>1. UNCHANGED <<caller, scope, denied, notices, signed, cached>>
    BY <1>3 DEF ensureReady, Cancel, doLazyResolve
  <2>2. CASE ensureReady(r) BY <2>1, <2>2, OthersScope DEF ensureReady
  <2>3. CASE Cancel(r) BY <2>1, <2>3, OthersScope DEF Cancel
  <2>4. CASE doLazyResolve(r)
    <3>1. scope.mode = "unresolved" => \A q \in Requests : stage'[q] = stage[q]
      BY <2>4 DEF doLazyResolve, ScopeInv, ScopeOK
    <3> QED BY <2>1, <3>1, OthersScope
  <2> QED BY <1>3, <2>2, <2>3, <2>4
<1>4. ASSUME NEW r \in Requests, InjectAuth(r) PROVE ScopeInv' BY <1>4, InjectKeeps
<1>5. CASE UNCHANGED awsVars BY <1>5, OthersScope DEF awsVars
<1> QED BY <1>1, <1>2, <1>3, <1>4, <1>5 DEF AwsNext

(* ScopedProvider: whoever runs as an assumed role is signed with the base *)
(* credentials only after a refusal of STS that was told exactly once,     *)
(* whether at startup or by a request of any order.                        *)
THEOREM OperatorIsTold == AwsSpec => []OperatorKnows
<1>1. ScopeInv => OperatorKnows
  <2> SUFFICES ASSUME ScopeInv PROVE OperatorKnows
    OBVIOUS
  <2>1. notices <= 1 /\ (notices = 1 => denied) /\ (denied => notices = 1)
    <3>1. CASE denied
      <4>1. notices = 1 BY <3>1 DEF ScopeInv, ScopeOK
      <4> QED BY <3>1, <4>1
    <3>2. CASE ~denied
      <4>1. notices = 0 BY <3>2 DEF ScopeInv, ScopeOK
      <4> QED BY <3>2, <4>1
    <3> QED BY <3>1, <3>2
  <2>2. caller = "user" => ~denied
    BY DEF ScopeInv, ScopeOK
  <2>3. caller = "user" => notices = 0
    BY <2>2 DEF ScopeInv, ScopeOK
  <2> QED BY <2>1, <2>3 DEF ScopeInv, AwsTypeOK, ScopeOK, OperatorKnows
<1> QED BY <1>1, ScopeInit, ScopeNext, PTL DEF AwsSpec
-----------------------------------------------------------------------------
LEMMA OnceInit == AwsInit => OnceOK
BY RequestsAssumption DEF AwsInit, OnceOK

LEMMA OnceNext == OnceOK /\ [AwsNext]_awsVars => OnceOK'
<1> SUFFICES ASSUME OnceOK, [AwsNext]_awsVars PROVE OnceOK'
  OBVIOUS
<1>1. CASE UNCHANGED <<once, notReady, stage>>
  BY <1>1 DEF OnceOK
<1>2. ASSUME NEW r \in Requests, ensureReady(r) PROVE OnceOK'
  <2>1. notReady' = notReady /\ stage[r] = "idle" BY <1>2 DEF ensureReady
  <2>2. CASE once = "idle"
    BY <1>2, <2>1, <2>2, RequestsAssumption DEF ensureReady, Advance, OnceOK
  <2>3. CASE once = "done"
    BY <1>2, <2>1, <2>3 DEF ensureReady, Advance, OnceOK
  <2>4. CASE once \notin {"idle", "done"}
    BY <1>2, <2>1, <2>4 DEF ensureReady, Advance, OnceOK
  <2> QED BY <2>2, <2>3, <2>4
<1>3. ASSUME NEW r \in Requests, doLazyResolve(r) PROVE OnceOK'
  <2>1. notReady' # "canceled" /\ once' = "done" /\ once # "done"
    BY <1>3, RequestsAssumption
    DEF doLazyResolve, bootstrapContext, awsLazyResolve, azureLazyResolve, gcpLazyResolve
  <2>2. \A q \in Requests : stage'[q] = IF stage[q] = "idle" THEN "idle"
                                        ELSE IF notReady' = "" THEN "ready" ELSE "refused"
    BY <1>3, <2>1 DEF doLazyResolve, OnceOK
  <2>3. stage' \in [Requests -> {"idle", "bootstrap", "waiting", "ready", "refused", "failed", "signed"}]
    BY <1>3 DEF doLazyResolve, OnceOK
  <2> QED BY <2>1, <2>2, <2>3 DEF OnceOK
<1>4. ASSUME NEW r \in Requests, InjectAuth(r) PROVE OnceOK'
  <2>1. UNCHANGED <<once, notReady>> /\ stage[r] = "ready" BY <1>4 DEF InjectAuth
  <2>2. PICK to \in {"failed", "signed"} : stage' = [stage EXCEPT ![r] = to]
    BY <1>4 DEF InjectAuth, Advance
  <2> QED BY <2>1, <2>2 DEF OnceOK
<1> QED
  BY <1>1, <1>2, <1>3, <1>4 DEF AwsNext, ResolveScope, Expire, Cancel, awsVars

(* lazyInit: no request is told that the connector is not ready because    *)
(* another one was canceled, and none waits for a bootstrap that is over.  *)
THEOREM OutcomeIsShared == AwsSpec => []NotReadyIsReal
<1>1. OnceOK => NotReadyIsReal
  BY DEF OnceOK, NotReadyIsReal
<1> QED BY <1>1, OnceInit, OnceNext, PTL DEF AwsSpec
-----------------------------------------------------------------------------
LEMMA LabStart == LabInit => LabOK
BY CredentialsAssumption, RequestsAssumption DEF LabInit, LabOK, NoLock, TokenValidWhenAsked

(* A request that leaves Token() with what it got, if that was valid when  *)
(* it asked.                                                               *)
LEMMA LeaveKeeps ==
  ASSUME LabOK, NEW r \in Requests, NEW got \in BOOLEAN, Leave(r, got), UNCHANGED <<now, asked>>,
         token' \in Nat, got => token' = 0 \/ token' > asked[r]
  PROVE  LabOK'
<1>1. lock' = NoLock /\ step' = [step EXCEPT ![r] = IF got THEN "token" ELSE "none"]
  BY DEF Leave
<1>2. handed' = IF got THEN [handed EXCEPT ![r] = token'] ELSE handed
  BY DEF Leave
<1>3. /\ step' \in [Requests -> {"idle", "asks", "token", "none"}] /\ handed' \in [Requests -> Nat]
      /\ lock' \in [by : Requests \cup {"none"}, at : Nat] /\ lock'.by = "none"
  BY <1>1, <1>2 DEF LabOK, NoLock
<1>4. \A q \in Requests : q # r => step'[q] = step[q] /\ handed'[q] = handed[q]
  BY <1>1, <1>2 DEF LabOK
<1>5. step'[r] = "token" => handed'[r] = 0 \/ handed'[r] > asked[r]
  BY <1>1, <1>2 DEF LabOK
<1>6. TokenValidWhenAsked'
  BY <1>4, <1>5 DEF LabOK, TokenValidWhenAsked
<1> QED BY <1>3, <1>6, RequestsAssumption DEF LabOK

LEMMA LabStep == LabOK /\ [LabNext]_labVars => LabOK'
<1> SUFFICES ASSUME LabOK, [LabNext]_labVars PROVE LabOK'
  OBVIOUS
<1>1. CASE Tick
  BY <1>1 DEF Tick, LabOK, TokenValidWhenAsked
<1>2. ASSUME NEW r \in Requests, Ask(r) PROVE LabOK'
  <2>1. step' = [step EXCEPT ![r] = "asks"] /\ asked' = [asked EXCEPT ![r] = now] /\ step[r] = "idle"
    BY <1>2 DEF Ask
  <2>2. UNCHANGED <<now, token, lock, handed>> BY <1>2 DEF Ask
  <2> QED BY <2>1, <2>2 DEF LabOK, TokenValidWhenAsked
<1>3. ASSUME NEW r \in Requests, Token(r) PROVE LabOK'
  <2>1. UNCHANGED <<now, asked, token>> /\ step[r] = "asks" BY <1>3 DEF Token
  <2>2. asked[r] <= now /\ asked[r] \in Nat /\ now \in Nat /\ token \in Nat BY DEF LabOK
  <2>3. CASE ~glabNeedsRefresh(now)
    <3>1. Leave(r, TRUE) BY <1>3, <2>3 DEF Token
    <3>2. token = 0 \/ token > asked[r] BY <2>2, <2>3 DEF glabNeedsRefresh, Skew
    <3> QED BY <2>1, <2>2, <3>1, <3>2, LeaveKeeps
  <2>4. CASE Leave(r, cachedIfUsable(now))
    <3>1. cachedIfUsable(now) \in BOOLEAN /\ (cachedIfUsable(now) => token = 0 \/ token > asked[r])
      BY <2>2 DEF cachedIfUsable, glabHardExpired
    <3> QED BY <2>1, <2>2, <2>4, <3>1, LeaveKeeps
  <2>5. CASE lock' = [by |-> r, at |-> now] /\ UNCHANGED <<step, handed>>
    <3>1. lock' \in [by : Requests \cup {"none"}, at : Nat] /\ lock'.by = r /\ lock'.at = now
      BY <2>2, <2>5
    <3> QED BY <2>1, <2>2, <2>5, <3>1 DEF LabOK, TokenValidWhenAsked
  <2> QED BY <1>3, <2>3, <2>4, <2>5 DEF Token
<1>4. ASSUME NEW r \in Requests, Fetched(r) PROVE LabOK'
  <2>1. UNCHANGED <<now, asked>> /\ lock.by = r BY <1>4 DEF Fetched
  <2>2. /\ asked[r] <= now /\ asked[r] <= lock.at /\ asked[r] \in Nat /\ now \in Nat /\ token \in Nat
        /\ lock.at \in Nat
    BY <2>1 DEF LabOK
  <2>3. CASE token' = now + TokenLife /\ Leave(r, TRUE)
    <3>1. token' \in Nat /\ token' > asked[r] BY <2>2, <2>3, CredentialsAssumption
    <3> QED BY <2>1, <2>3, <3>1, LeaveKeeps
  <2>4. CASE UNCHANGED token /\ Leave(r, cachedIfUsable(lock.at))
    <3>1. cachedIfUsable(lock.at) \in BOOLEAN /\ (cachedIfUsable(lock.at) => token = 0 \/ token > asked[r])
      BY <2>2 DEF cachedIfUsable, glabHardExpired
    <3> QED BY <2>1, <2>2, <2>4, <3>1, LeaveKeeps
  <2> QED BY <1>4, <2>3, <2>4 DEF Fetched
<1>5. CASE UNCHANGED labVars
  BY <1>5 DEF labVars, LabOK, TokenValidWhenAsked
<1> QED BY <1>1, <1>2, <1>3, <1>4, <1>5 DEF LabNext

(* glabHelperSource.Token: a token that is handed out was not expired when *)
(* it was asked for, whichever requests wait for the lock or the helper.   *)
THEOREM TokensAreValid == LabSpec => []TokenValidWhenAsked
<1>1. LabOK => TokenValidWhenAsked BY DEF LabOK
<1> QED BY <1>1, LabStart, LabStep, PTL DEF LabSpec
-----------------------------------------------------------------------------
(* Connectors that come up.                                                *)
RegSteps ==
  {"load", "probe", "probe again", "ceiling", "ceiling again", "metadata", "build", "sent"}
Outcomes == [registered : BOOLEAN, visible : BOOLEAN, actionable : BOOLEAN]

RegTypeOK ==
  /\ registrars \in Registrars /\ verbose \in BOOLEAN
  /\ at \in [RegSet -> RegSteps] /\ outcome \in [RegSet -> Outcomes] /\ DOMAIN failed = RegSet
  /\ channel \in Seq(RegSet) /\ shown \in Seq(RegSet) /\ byIndex \subseteq RegSet

(* What a registrar returned says whether the operator has to act on it.   *)
Says(o, expected, why) ==
  /\ o.registered => why = <<"", "">> /\ o.visible
  /\ o.actionable <=> expected
  /\ o.actionable => o.visible
  /\ o.visible => o.registered \/ o.actionable \/ verbose

(* An outcome reaches the consumer once it has been returned, and is not   *)
(* changed after that.                                                     *)
SentOK ==
  \A c \in RegSet :
    /\ at[c] # "sent" => /\ failed[c] = <<"", "">>
                         /\ c \notin Range(channel) /\ c \notin byIndex
    /\ at[c] = "sent" => /\ c \in Range(channel) \cup byIndex
                         /\ Says(outcome[c], Expected(c), failed[c])

ShownOK ==
  /\ \A c \in Range(shown) : c \in byIndex /\ outcome[c].visible
  /\ \A c \in byIndex : outcome[c].visible => c \in Range(shown)

DoctorOK ==
  /\ doctor # "not run" => StartupOver
  /\ doctor = "ready" => \A c \in RegSet : ~Expected(c)
  /\ doctor = "not ready" => \E c \in RegSet : Expected(c)

RegInv == RegTypeOK /\ SentOK /\ ShownOK /\ DoctorOK
-----------------------------------------------------------------------------
LEMMA KubeLoads ==
  ASSUME NEW k
  PROVE  kubeLoad(k) \in {"unreadable", "no context", "malformed", "unsupported", "ok"}
<1> DEFINE checks == <<<<"unreadable", ~k.readable>>, <<"no context", k.readable /\ k.leadsTo = "">>,
                  <<"malformed", k.readable /\ ~Setup!selectContext(k)>>,
                  <<"unsupported", k.readable /\ k.features \cap Setup!unsafe # {}>>,
                  <<"malformed", k.readable /\ ~Setup!extractSelected(k)>>,
                  <<"malformed", k.readable /\ ~Setup!resolveSelected(k)>>, <<"ok", TRUE>>>>
           wrong == {i \in DOMAIN checks : checks[i][2]}
           least == CHOOSE i \in wrong : \A j \in wrong : i <= j
<1>1. kubeLoad(k) = checks[least][1] BY DEF kubeLoad
<1>2. DOMAIN checks = 1..7 OBVIOUS
<1>3. 7 \in wrong /\ wrong \subseteq 1..7
  <2>1. checks[7][2] = TRUE OBVIOUS
  <2>2. 7 \in DOMAIN checks BY <1>2
  <2> HIDE DEF checks
  <2>3. 7 \in wrong BY <2>1, <2>2, Zenon
  <2>4. wrong \subseteq DOMAIN checks BY Zenon
  <2> QED BY <1>2, <2>3, <2>4
<1>4. \A i \in 1..7 : checks[i][1] \in {"unreadable", "no context", "malformed", "unsupported", "ok"}
  <2>1. /\ checks[1][1] = "unreadable" /\ checks[2][1] = "no context" /\ checks[3][1] = "malformed"
        /\ checks[4][1] = "unsupported" /\ checks[5][1] = "malformed" /\ checks[6][1] = "malformed"
        /\ checks[7][1] = "ok"
    OBVIOUS
  <2>2. \A i \in 1..7 : i = 1 \/ i = 2 \/ i = 3 \/ i = 4 \/ i = 5 \/ i = 6 \/ i = 7 OBVIOUS
  <2> HIDE DEF checks
  <2> QED BY <2>1, <2>2, Zenon
<1> HIDE DEF wrong, checks
<1>5. \E i \in wrong : \A j \in wrong : i <= j BY <1>3
<1>6. least \in wrong BY <1>5
<1> QED BY <1>1, <1>3, <1>4, <1>6

(* A load that fails is shown whatever was configured when something is    *)
(* broken, when nobody could tell, and for AWS.                            *)
LEMMA LoadPolicy ==
  ASSUME NEW c \in connectors, NEW answer \in registrar(c).loads, answer \notin {"ok", "absent"}
  PROVE  registrar(c).worth[answer] = emitAlways \/ c \in forge
         <=> answer \in {"transient", "unreadable", "malformed"} \/ c = "aws" \/ c \in forge
<1>1. CASE c \in forge BY <1>1
<1>2. CASE c = "aws"
  <2>1. registrar(c) = registerAWS BY <1>2 DEF registrar
  <2>2. registerAWS.loads = Answers /\ registerAWS.worth = [a \in Answers |-> emitAlways]
    BY DEF registerAWS, registrarOf, awsSkipResult
  <2> QED BY <1>2, <2>1, <2>2
<1>3. CASE c \in {"gcp", "azure"}
  <2>1. registrar(c).loads = Answers /\ registrar(c).worth = [a \in Answers |-> ambient(a)]
    BY <1>3 DEF registrar, registerGCP, registerAzure, registrarOf
  <2>2. registrar(c).worth[answer] = emitAlways <=> answer = "transient"
    BY <2>1 DEF ambient, escalateForTransient, isTransientProbeErr, emitAlways, emitWhenExplicitOrVerbose
  <2>3. answer \in {"denied", "transient"} BY <2>1 DEF Answers
  <2> QED BY <1>3, <2>2, <2>3
<1>4. CASE c = "kubernetes"
  <2> DEFINE loads == {kubeLoad(k) : k \in Kubeconfigs}
  <2>1. registrar(c).loads = loads /\ registrar(c).worth = [a \in loads |-> kubeSkipPolicy(a)]
    BY <1>4 DEF registrar, registerKube, registrarOf
  <2>2. answer \in {"unreadable", "no context", "malformed", "unsupported"}
    BY <2>1, KubeLoads
  <2> HIDE DEF loads
  <2>3. registrar(c).worth[answer] = kubeSkipPolicy(answer) BY <2>1
  <2>4. kubeSkipPolicy(answer) = emitAlways <=> answer \notin {"no context", "unsupported"}
    BY DEF kubeSkipPolicy, emitAlways, emitWhenExplicitOrVerbose
  <2> QED BY <1>4, <2>2, <2>3, <2>4 DEF forge
<1> QED BY <1>1, <1>2, <1>3, <1>4 DEF connectors, forge

(* What a skipped connector returns.                                       *)
LEMMA SkipSays ==
  ASSUME RegTypeOK, NEW c, NEW how
  PROVE  /\ skipOutcome(c, how) \in Outcomes
         /\ ~skipOutcome(c, how).registered
         /\ skipOutcome(c, how).actionable <=> (how = emitAlways \/ c \in forge \/ c \in explicit)
         /\ skipOutcome(c, how).visible <=> (skipOutcome(c, how).actionable \/ verbose)
<1> DEFINE isExplicit == c \in forge \/ c \in explicit
           v == shouldEmit(how, isExplicit, verbose)
           a == shouldEmit(how, isExplicit, FALSE)
<1>1. skipOutcome(c, how) = [registered |-> FALSE, visible |-> v, actionable |-> a]
  <2>1. skipOutcome(c, how) = [NoOutcome EXCEPT !.visible = v, !.actionable = a]
    BY Zenon DEF skipOutcome
  <2> HIDE DEF v, a, isExplicit
  <2> QED BY <2>1 DEF NoOutcome
<1>2. verbose \in BOOLEAN BY DEF RegTypeOK
<1>3. v \in BOOLEAN /\ a \in BOOLEAN BY <1>2 DEF shouldEmit
<1>4. (a <=> (how = emitAlways \/ c \in forge \/ c \in explicit)) /\ (v <=> (a \/ verbose))
  BY <1>2, Zenon DEF shouldEmit
<1> HIDE DEF v, a, isExplicit
<1>5. [registered |-> FALSE, visible |-> v, actionable |-> a] \in Outcomes BY <1>3 DEF Outcomes
<1>6. /\ skipOutcome(c, how).registered = FALSE /\ skipOutcome(c, how).visible = v
      /\ skipOutcome(c, how).actionable = a
  BY <1>1
<1> QED BY <1>1, <1>4, <1>5, <1>6, Zenon

LEMMA RangeAppend ==
  ASSUME NEW S, NEW s \in Seq(S), NEW e \in S
  PROVE  Append(s, e) \in Seq(S) /\ Range(Append(s, e)) = Range(s) \cup {e}
<1>1. /\ Append(s, e) \in Seq(S) /\ DOMAIN Append(s, e) = 1..(Len(s) + 1)
      /\ \A i \in 1..Len(s) : Append(s, e)[i] = s[i]
      /\ Append(s, e)[Len(s) + 1] = e
  OBVIOUS
<1>2. DOMAIN s = 1..Len(s) /\ Len(s) \in Nat OBVIOUS
<1> DEFINE t == Append(s, e)
<1> HIDE DEF t
<1>3. Range(t) \subseteq Range(s) \cup {e}
  <2> SUFFICES ASSUME NEW i \in 1..(Len(s) + 1) PROVE t[i] \in Range(s) \cup {e} BY <1>1 DEF Range, t
  <2>1. CASE i \in 1..Len(s) BY <1>1, <1>2, <2>1 DEF Range, t
  <2>2. CASE i = Len(s) + 1 BY <1>1, <2>2 DEF t
  <2> QED BY <1>2, <2>1, <2>2
<1>4. Range(s) \cup {e} \subseteq Range(t)
  <2>1. \A i \in 1..Len(s) : i \in DOMAIN t /\ t[i] = s[i] BY <1>1, <1>2 DEF t
  <2>2. Len(s) + 1 \in DOMAIN t /\ t[Len(s) + 1] = e BY <1>1, <1>2 DEF t
  <2> QED BY <1>2, <2>1, <2>2 DEF Range
<1> QED BY <1>1, <1>3, <1>4 DEF t

LEMMA RangeTail ==
  ASSUME NEW S, NEW s \in Seq(S), s # <<>>
  PROVE  Head(s) \in S /\ Tail(s) \in Seq(S) /\ Range(s) = Range(Tail(s)) \cup {Head(s)}
<1>1. /\ Head(s) \in S /\ Tail(s) \in Seq(S) /\ Head(s) = s[1]
      /\ Len(Tail(s)) = Len(s) - 1 /\ \A i \in 1..(Len(s) - 1) : Tail(s)[i] = s[i + 1]
      /\ Len(s) \in Nat /\ Len(s) # 0 /\ DOMAIN s = 1..Len(s) /\ DOMAIN Tail(s) = 1..Len(Tail(s))
  BY HeadTailProperties
<1>2. Range(Tail(s)) \subseteq Range(s)
  <2> SUFFICES ASSUME NEW i \in 1..(Len(s) - 1) PROVE Tail(s)[i] \in Range(s) BY <1>1 DEF Range
  <2>1. i + 1 \in DOMAIN s BY <1>1
  <2> QED BY <1>1, <2>1 DEF Range
<1>3. Head(s) \in Range(s)
  <2>1. 1 \in DOMAIN s BY <1>1
  <2> QED BY <1>1, <2>1 DEF Range
<1>4. Range(s) \subseteq Range(Tail(s)) \cup {Head(s)}
  <2> SUFFICES ASSUME NEW i \in 1..Len(s) PROVE s[i] \in Range(Tail(s)) \cup {Head(s)} BY <1>1 DEF Range
  <2>1. CASE i = 1 BY <1>1, <2>1
  <2>2. CASE i # 1
    <3>1. i - 1 \in 1..(Len(s) - 1) /\ (i - 1) + 1 = i BY <1>1, <2>2
    <3>2. Tail(s)[i - 1] = s[i] /\ i - 1 \in DOMAIN Tail(s) BY <1>1, <3>1
    <3> QED BY <3>2 DEF Range
  <2> QED BY <2>1, <2>2
<1> QED BY <1>1, <1>2, <1>3, <1>4
-----------------------------------------------------------------------------
(* A registrar goes on to its next step.                                   *)
LEMMA Continues ==
  ASSUME RegInv, NEW c \in RegSet, at[c] # "sent", NEW next \in RegSteps, next # "sent", Continue(c, next),
         UNCHANGED <<configured, failed, shown, byIndex, providers, doctor>>
  PROVE  RegInv'
<1>1. UNCHANGED <<registrars, explicit, verbose, failed, shown, byIndex, doctor, outcome, channel>> /\ RegSet' = RegSet
  BY DEF configured, Continue, RegSet
<1>2. at' = [at EXCEPT ![c] = next] /\ at \in [RegSet -> RegSteps] BY DEF Continue, RegInv, RegTypeOK
<1>3. at' \in [RegSet -> RegSteps] /\ at'[c] = next /\ \A d \in RegSet : d # c => at'[d] = at[d] BY <1>2
<1>4. RegTypeOK' BY <1>1, <1>3 DEF RegInv, RegTypeOK
<1>5. SentOK'
  <2>1. \A d \in RegSet : Expected(d)' <=> Expected(d) BY <1>1 DEF Expected
  <2>2. \A d \in RegSet : (at'[d] = "sent") <=> (at[d] = "sent") BY <1>3
  <2>3. \A d \in RegSet : Says(outcome[d], Expected(d), failed[d]) => Says(outcome[d], Expected(d), failed[d])'
    BY <1>1, <2>1 DEF Says
  <2> QED BY <1>1, <2>2, <2>3 DEF RegInv, SentOK
<1>6. ShownOK' BY <1>1 DEF RegInv, ShownOK
<1>7. DoctorOK' BY <1>1 DEF RegInv, DoctorOK, StartupOver, Expected
<1> QED BY <1>4, <1>5, <1>6, <1>7 DEF RegInv

(* A registrar returns: what it says is true, and it has not been told.    *)
LEMMA Sends ==
  ASSUME RegInv, NEW c \in RegSet, at[c] # "sent", NEW o \in Outcomes, NEW why,
         Send(c, o), Says(o, Expected(c)', why),
         DOMAIN failed' = RegSet, failed'[c] = why, \A d \in RegSet : d # c => failed'[d] = failed[d],
         UNCHANGED <<configured, shown, byIndex, providers, doctor>>
  PROVE  RegInv'
<1>1. UNCHANGED <<registrars, explicit, verbose, shown, byIndex, doctor>> /\ RegSet' = RegSet
  BY DEF configured, RegSet
<1>2. /\ at' = [at EXCEPT ![c] = "sent"] /\ at \in [RegSet -> RegSteps]
      /\ outcome' = [outcome EXCEPT ![c] = o] /\ outcome \in [RegSet -> Outcomes]
      /\ DOMAIN failed = RegSet
  BY DEF Send, RegInv, RegTypeOK
<1>3. at' \in [RegSet -> RegSteps] /\ at'[c] = "sent" /\ \A d \in RegSet : d # c => at'[d] = at[d]
  BY <1>2 DEF RegSteps
<1>4. outcome' \in [RegSet -> Outcomes] /\ outcome'[c] = o /\ \A d \in RegSet : d # c => outcome'[d] = outcome[d]
  BY <1>2
<1>5. DOMAIN failed' = RegSet /\ failed'[c] = why /\ \A d \in RegSet : d # c => failed'[d] = failed[d] OBVIOUS
<1>6. channel' \in Seq(RegSet) /\ Range(channel') = Range(channel) \cup {c}
  BY RangeAppend DEF Send, RegInv, RegTypeOK
<1>7. c \notin byIndex /\ c \notin Range(shown) /\ ~StartupOver /\ doctor = "not run"
  <2>1. c \notin byIndex BY DEF RegInv, SentOK
  <2> QED BY <2>1 DEF RegInv, ShownOK, StartupOver, DoctorOK
<1>8. RegTypeOK' BY <1>1, <1>3, <1>4, <1>5, <1>6 DEF RegInv, RegTypeOK
<1>9. SentOK'
  <2> SUFFICES ASSUME NEW d \in RegSet
               PROVE  /\ at'[d] # "sent" => /\ failed'[d] = <<"", "">>
                                            /\ d \notin Range(channel') /\ d \notin byIndex'
                      /\ at'[d] = "sent" => /\ d \in Range(channel') \cup byIndex'
                                            /\ Says(outcome[d], Expected(d), failed[d])'
    BY <1>1 DEF SentOK
  <2>1. CASE d = c
    <3>1. Says(outcome[c], Expected(c), failed[c])' BY <1>1, <1>4, <1>5 DEF Says
    <3> QED BY <1>3, <1>6, <2>1, <3>1
  <2>2. CASE d # c
    <3>1. Expected(d)' <=> Expected(d) BY <1>1, <1>5, <2>2 DEF Expected
    <3>2. outcome'[d] = outcome[d] /\ failed'[d] = failed[d] BY <1>4, <1>5, <2>2
    <3>3. Says(outcome[d], Expected(d), failed[d]) => Says(outcome[d], Expected(d), failed[d])'
      BY <1>1, <3>1, <3>2 DEF Says
    <3> QED BY <1>1, <1>3, <1>6, <2>2, <3>2, <3>3 DEF RegInv, SentOK
  <2> QED BY <2>1, <2>2
<1>10. ShownOK'
  <2>1. Range(shown) \subseteq byIndex /\ byIndex \subseteq RegSet BY DEF RegInv, ShownOK, RegTypeOK
  <2> QED BY <1>1, <1>4, <1>7, <2>1 DEF RegInv, ShownOK
<1>11. DoctorOK' BY <1>1, <1>7 DEF DoctorOK
<1> QED BY <1>8, <1>9, <1>10, <1>11 DEF RegInv

(* A registrar skips its connector.                                        *)
LEMMA Skips ==
  ASSUME RegInv, NEW c \in RegSet, at[c] # "sent", NEW how, NEW where \in {"load", "probe", "ceiling"}, NEW what,
         Send(c, skipOutcome(c, how)), failed' = [failed EXCEPT ![c] = <<where, what>>],
         (how = emitAlways \/ c \in forge \/ c \in explicit)
           <=> (\/ where = "ceiling" \/ what \in {"transient", "unreadable", "malformed"}
                \/ (where = "load" /\ c = "aws") \/ c \in forge \/ c \in explicit),
         UNCHANGED <<configured, shown, byIndex, providers, doctor>>
  PROVE  RegInv'
<1> DEFINE o == skipOutcome(c, how)
           why == <<where, what>>
<1>1. /\ o \in Outcomes /\ ~o.registered
      /\ o.actionable <=> (how = emitAlways \/ c \in forge \/ c \in explicit)
      /\ o.visible <=> (o.actionable \/ verbose)
  BY SkipSays DEF RegInv
<1>2. failed'[c] = why /\ failed'[c][1] = where /\ failed'[c][2] = what BY DEF RegInv, RegTypeOK
<1>3. explicit' = explicit BY DEF configured
<1>4. Expected(c)' <=> \/ where = "ceiling" \/ what \in {"transient", "unreadable", "malformed"}
                       \/ (where = "load" /\ c = "aws") \/ c \in forge \/ c \in explicit
  BY <1>2, <1>3 DEF Expected
<1>5. Says(o, Expected(c)', why) BY <1>1, <1>4, Zenon DEF Says
<1> HIDE DEF o
<1>6. Send(c, o) BY DEF o
<1>7. DOMAIN failed' = RegSet /\ \A d \in RegSet : d # c => failed'[d] = failed[d] BY DEF RegInv, RegTypeOK
<1> QED BY <1>1, <1>2, <1>5, <1>6, <1>7, Sends

LEMMA RegConnectors == ASSUME RegInv, NEW c \in RegSet PROVE c \in connectors
<1>1. registrars \in Seq(connectors) BY RegistrarsAssumption DEF RegInv, RegTypeOK
<1> QED BY <1>1 DEF RegSet, Range

(* A registrar that returns without having failed.                         *)
LEMMA SendsPlain ==
  ASSUME RegInv, NEW c \in RegSet, at[c] # "sent", NEW o \in Outcomes, ~o.actionable, o.visible <=> o.registered,
         Send(c, o), UNCHANGED <<configured, failed, shown, byIndex, providers, doctor>>
  PROVE  RegInv'
<1>1. failed[c] = <<"", "">> BY DEF RegInv, SentOK
<1>2. failed' = failed /\ DOMAIN failed' = RegSet BY DEF RegInv, RegTypeOK
<1>3. failed'[c][1] = "" /\ failed'[c][2] = ""
  <2>1. PICK why : why = <<"", "">> OBVIOUS
  <2>2. why[1] = "" /\ why[2] = "" BY <2>1
  <2>3. failed'[c] = why BY <1>1, <1>2, <2>1
  <2> QED BY <2>2, <2>3
<1>4. ~Expected(c)' BY <1>3 DEF Expected
<1>5. Says(o, Expected(c)', <<"", "">>) BY <1>4, Zenon DEF Says
<1>6. UNCHANGED <<configured, shown, byIndex, providers, doctor>> OBVIOUS
<1> QED BY <1>1, <1>2, <1>5, <1>6, Sends

LEMMA LoadKeeps == ASSUME RegInv, NEW c \in RegSet, Load(c) PROVE RegInv'
<1>1. at[c] = "load" /\ UNCHANGED <<configured, shown, byIndex, providers, doctor>> BY DEF Load
<1>2. PICK answer \in registrar(c).loads :
       \/ answer = "ok" /\ Continue(c, "probe") /\ UNCHANGED failed
       \/ answer = "absent" /\ Send(c, NoOutcome) /\ UNCHANGED failed
       \/ /\ answer \notin {"ok", "absent"}
          /\ Send(c, skipOutcome(c, registrar(c).worth[answer]))
          /\ failed' = [failed EXCEPT ![c] = <<"load", answer>>]
  BY DEF Load
<1>3. CASE Continue(c, "probe") /\ UNCHANGED failed
  <2>1. "probe" \in RegSteps BY DEF RegSteps
  <2> QED BY <1>1, <1>3, <2>1, Continues
<1>4. CASE Send(c, NoOutcome) /\ UNCHANGED failed
  <2>1. NoOutcome \in Outcomes /\ ~NoOutcome.actionable /\ (NoOutcome.visible <=> NoOutcome.registered)
    BY DEF NoOutcome, Outcomes
  <2> QED BY <1>1, <1>4, <2>1, SendsPlain
<1>5. CASE /\ answer \notin {"ok", "absent"}
           /\ Send(c, skipOutcome(c, registrar(c).worth[answer]))
           /\ failed' = [failed EXCEPT ![c] = <<"load", answer>>]
  <2>1. PICK how : how = registrar(c).worth[answer] OBVIOUS
  <2>2. how = emitAlways \/ c \in forge
         <=> answer \in {"transient", "unreadable", "malformed"} \/ c = "aws" \/ c \in forge
    BY <1>5, <2>1, RegConnectors, LoadPolicy
  <2>3. Send(c, skipOutcome(c, how)) BY <1>5, <2>1
  <2> QED BY <1>1, <1>5, <2>2, <2>3, Skips
<1> QED BY <1>2, <1>3, <1>4, <1>5

LEMMA NextSteps ==
  ASSUME NEW c \in connectors
  PROVE  registrar(c).then \in {"build", "metadata", "ceiling"}
BY DEF registrar, connectors, githubOutcome, gitlabOutcome, registerAWS, registerGCP, registerAzure, registerKube, registrarOf

LEMMA ProbeKeeps == ASSUME RegInv, NEW c \in RegSet, Probe(c) PROVE RegInv'
<1>1. at[c] # "sent" /\ UNCHANGED <<configured, shown, byIndex, providers, doctor>> BY DEF Probe
<1>2. PICK answer \in probes(c) :
       \/ answer = "ok" /\ Continue(c, registrar(c).then) /\ UNCHANGED failed
       \/ /\ retryProbe(at[c] = "probe", answer)
          /\ Continue(c, "probe again") /\ UNCHANGED failed
       \/ /\ answer # "ok" /\ ~retryProbe(at[c] = "probe", answer)
          /\ Send(c, skipOutcome(c, ambient(answer)))
          /\ failed' = [failed EXCEPT ![c] = <<"probe", answer>>]
  BY DEF Probe
<1>3. ASSUME NEW next \in {"build", "metadata", "ceiling", "probe again"}, Continue(c, next), UNCHANGED failed
      PROVE  RegInv'
  <2>1. next \in RegSteps /\ next # "sent" BY DEF RegSteps
  <2> QED BY <1>1, <1>3, <2>1, Continues
<1>4. CASE Send(c, skipOutcome(c, ambient(answer))) /\ failed' = [failed EXCEPT ![c] = <<"probe", answer>>]
            /\ answer \in {"denied", "transient"}
  <2>1. PICK how : how = ambient(answer) OBVIOUS
  <2>2. how = emitAlways <=> answer = "transient"
    BY <2>1 DEF ambient, escalateForTransient, isTransientProbeErr, emitAlways, emitWhenExplicitOrVerbose
  <2>3. Send(c, skipOutcome(c, how)) BY <1>4, <2>1
  <2> QED BY <1>1, <1>4, <2>2, <2>3, Skips
<1>5. probes(c) \subseteq Answers BY DEF probes, Setup!githubValidate, Answers
<1>6. registrar(c).then \in {"build", "metadata", "ceiling"} BY RegConnectors, NextSteps
<1> QED BY <1>2, <1>3, <1>4, <1>5, <1>6 DEF Answers

LEMMA ValidateCeilingKeeps == ASSUME RegInv, NEW c \in RegSet, ValidateCeiling(c) PROVE RegInv'
<1>1. at[c] # "sent" /\ UNCHANGED <<configured, shown, byIndex, providers, doctor>> BY DEF ValidateCeiling
<1>2. ASSUME NEW next \in {"build", "ceiling again"}, Continue(c, next), UNCHANGED failed
      PROVE  RegInv'
  <2>1. next \in RegSteps /\ next # "sent" BY DEF RegSteps
  <2> QED BY <1>1, <1>2, <2>1, Continues
<1>3. CASE Send(c, skipOutcome(c, emitAlways)) /\ failed' = [failed EXCEPT ![c] = <<"ceiling", "denied">>]
  BY <1>1, <1>3, Skips
<1> QED BY <1>2, <1>3 DEF ValidateCeiling

LEMMA AwaitMetadataKeeps == ASSUME RegInv, NEW c \in RegSet, awaitMetadata(c) PROVE RegInv'
<1>1. at[c] # "sent" /\ UNCHANGED <<configured, shown, byIndex, providers, doctor>> BY DEF awaitMetadata
<1>2. CASE Continue(c, "build") /\ UNCHANGED failed
  <2>1. "build" \in RegSteps BY DEF RegSteps
  <2> QED BY <1>1, <1>2, <2>1, Continues
<1>3. CASE Send(c, skipOutcome(c, emitAlways)) /\ failed' = [failed EXCEPT ![c] = <<"ceiling", "denied">>]
  BY <1>1, <1>3, Skips
<1> QED BY <1>2, <1>3 DEF awaitMetadata

LEMMA BuildKeeps == ASSUME RegInv, NEW c \in RegSet, Build(c) PROVE RegInv'
<1>1. at[c] # "sent" /\ Send(c, Available) /\ UNCHANGED <<configured, failed, shown, byIndex, providers, doctor>>
  BY DEF Build
<1>2. Available \in Outcomes /\ ~Available.actionable /\ (Available.visible <=> Available.registered)
  BY DEF Available, Outcomes
<1> QED BY <1>1, <1>2, SendsPlain

(* The consumer takes an outcome.                                          *)
LEMMA DriveKeeps == ASSUME RegInv, driveConcurrent PROVE RegInv'
<1>1. UNCHANGED <<registrars, explicit, verbose, at, failed, outcome, doctor>> /\ RegSet' = RegSet
  BY DEF driveConcurrent, configured, RegSet
<1>2. PICK c : c = Head(channel) OBVIOUS
<1>3. /\ c \in RegSet /\ channel' \in Seq(RegSet) /\ Range(channel) = Range(channel') \cup {c}
  BY <1>2, RangeTail DEF driveConcurrent, RegInv, RegTypeOK
<1>4. byIndex' = byIndex \cup {c} BY <1>2 DEF driveConcurrent
<1>5. shown' \in Seq(RegSet) /\ Range(shown') = Range(shown) \cup (IF outcome[c].visible THEN {c} ELSE {})
  <2>1. shown \in Seq(RegSet) BY DEF RegInv, RegTypeOK
  <2>2. CASE outcome[c].visible
    <3>1. shown' = Append(shown, c) BY <1>2, <2>2 DEF driveConcurrent
    <3> QED BY <1>3, <2>1, <2>2, <3>1, RangeAppend
  <2>3. CASE ~outcome[c].visible
    <3>1. shown' = shown BY <1>2, <2>3 DEF driveConcurrent
    <3> QED BY <2>1, <2>3, <3>1
  <2> QED BY <2>2, <2>3
<1>6. RegTypeOK' BY <1>1, <1>3, <1>4, <1>5 DEF RegInv, RegTypeOK
<1>7. \A d \in RegSet : Expected(d)' <=> Expected(d) BY <1>1 DEF Expected
<1>8. SentOK'
  <2>1. at[c] = "sent" BY <1>3 DEF RegInv, SentOK
  <2>2. \A d \in RegSet : Says(outcome[d], Expected(d), failed[d]) => Says(outcome[d], Expected(d), failed[d])'
    BY <1>1, <1>7 DEF Says
  <2>3. \A d \in RegSet : d \in Range(channel) \cup byIndex <=> d \in Range(channel') \cup byIndex'
    BY <1>3, <1>4
  <2> QED BY <1>1, <2>2, <2>3 DEF RegInv, SentOK
<1>9. ShownOK' BY <1>1, <1>4, <1>5 DEF RegInv, ShownOK
<1>10. DoctorOK'
  <2>1. StartupOver => StartupOver' BY <1>1, <1>3, <1>4 DEF StartupOver
  <2> QED BY <1>1, <1>7, <2>1 DEF RegInv, DoctorOK
<1> QED BY <1>6, <1>8, <1>9, <1>10 DEF RegInv

LEMMA DoctorKeeps == ASSUME RegInv, runDoctor PROVE RegInv'
<1>1. UNCHANGED <<registrars, explicit, verbose, at, failed, outcome, channel, shown, byIndex>> /\ RegSet' = RegSet
  BY DEF runDoctor, configured, RegSet
<1>2. \A d \in RegSet : Expected(d)' <=> Expected(d) BY <1>1 DEF Expected
<1>3. RegTypeOK' /\ ShownOK' BY <1>1 DEF RegInv, RegTypeOK, ShownOK
<1>4. SentOK'
  <2>1. \A d \in RegSet : Says(outcome[d], Expected(d), failed[d]) => Says(outcome[d], Expected(d), failed[d])'
    BY <1>1, <1>2 DEF Says
  <2> QED BY <1>1, <2>1 DEF RegInv, SentOK
<1>5. DoctorOK'
  <2>1. StartupOver /\ StartupOver' BY <1>1 DEF runDoctor, StartupOver
  <2>2. \A c \in RegSet : c \in byIndex /\ (Expected(c) <=> outcome[c].actionable)
                           /\ (outcome[c].actionable => outcome[c].visible)
    BY <2>1 DEF StartupOver, RegInv, SentOK, Says
  <2>3. \A c \in RegSet : Expected(c) => c \in Range(shown) BY <2>2 DEF RegInv, ShownOK
  <2>4. Range(shown) \subseteq RegSet BY <2>1 DEF RegInv, ShownOK, StartupOver
  <2>5. connectorHealth(shown) <=> \A c \in RegSet : ~Expected(c)
    <3>1. connectorHealth(shown) <=> \A c \in Range(shown) : ~outcome[c].actionable
      BY DEF connectorHealth, Range
    <3> QED BY <2>2, <2>3, <2>4, <3>1
  <2>6. doctor' = "ready" => connectorHealth(shown) BY DEF runDoctor
  <2>7. doctor' = "not ready" => ~connectorHealth(shown) BY DEF runDoctor
  <2> QED BY <1>1, <1>2, <2>1, <2>5, <2>6, <2>7 DEF DoctorOK
<1> QED BY <1>3, <1>4, <1>5 DEF RegInv

LEMMA RegStart == RegInit => RegInv
<1> SUFFICES ASSUME RegInit PROVE RegInv OBVIOUS
<1>1. at = [c \in RegSet |-> "load"] /\ failed = [c \in RegSet |-> <<"", "">>] /\ outcome = [c \in RegSet |-> NoOutcome]
  BY DEF RegInit, RegSet
<1>2. NoOutcome \in Outcomes BY DEF NoOutcome, Outcomes
<1>3. Range(<<>>) = {} BY DEF Range
<1>4. channel = <<>> /\ shown = <<>> /\ byIndex = {} /\ doctor = "not run" BY DEF RegInit
<1>5. RegTypeOK
  <2>1. at \in [RegSet -> RegSteps] BY <1>1 DEF RegSteps
  <2>2. outcome \in [RegSet -> Outcomes] /\ DOMAIN failed = RegSet BY <1>1, <1>2
  <2>3. channel \in Seq(RegSet) /\ shown \in Seq(RegSet) /\ byIndex \subseteq RegSet BY <1>4, EmptySeq
  <2>4. registrars \in Registrars /\ verbose \in BOOLEAN BY DEF RegInit
  <2> QED BY <2>1, <2>2, <2>3, <2>4 DEF RegTypeOK
<1>6. SentOK BY <1>1, <1>3, <1>4 DEF SentOK
<1>7. ShownOK /\ DoctorOK BY <1>3, <1>4 DEF ShownOK, DoctorOK
<1> QED BY <1>5, <1>6, <1>7 DEF RegInv

LEMMA RegStep == RegInv /\ [RegNext]_regVars => RegInv'
<1> SUFFICES ASSUME RegInv, [RegNext]_regVars PROVE RegInv' OBVIOUS
<1>1. CASE UNCHANGED regVars
  <2>1. UNCHANGED <<registrars, explicit, verbose, at, failed, outcome, channel, shown, byIndex, doctor>>
    BY <1>1 DEF regVars, configured
  <2>2. RegSet' = RegSet BY <2>1 DEF RegSet
  <2>3. \A d \in RegSet : Expected(d)' <=> Expected(d) BY <2>1 DEF Expected
  <2>4. \A d \in RegSet : Says(outcome[d], Expected(d), failed[d]) => Says(outcome[d], Expected(d), failed[d])'
    BY <2>1, <2>3 DEF Says
  <2>5. SentOK' BY <2>1, <2>2, <2>4 DEF RegInv, SentOK
  <2>6. RegTypeOK' /\ ShownOK' BY <2>1, <2>2 DEF RegInv, RegTypeOK, ShownOK
  <2>7. DoctorOK' BY <2>1, <2>2, <2>3 DEF RegInv, DoctorOK, StartupOver
  <2> QED BY <2>5, <2>6, <2>7 DEF RegInv
<1>2. ASSUME NEW c \in RegSet, Load(c) \/ Probe(c) \/ ValidateCeiling(c) \/ awaitMetadata(c) \/ Build(c)
      PROVE  RegInv'
  BY <1>2, LoadKeeps, ProbeKeeps, ValidateCeilingKeeps, AwaitMetadataKeeps, BuildKeeps
<1>3. CASE driveConcurrent BY <1>3, DriveKeeps
<1>4. CASE runDoctor BY <1>4, DoctorKeeps
<1> QED BY <1>1, <1>2, <1>3, <1>4 DEF RegNext

(* registration.go and doctor.go: however the registrars interleave, once  *)
(* startup is over the operator has been told of every connector that is   *)
(* missing for a reason, and of no other unless asked to; the doctor's     *)
(* verdict agrees.                                                         *)
THEOREM SkipsTold == RegSpec => []SkipsAreTold
<1>1. RegSpec => []RegInv
  BY RegStart, RegStep, PTL DEF RegSpec
<1>2. RegInv => SkipsAreTold
  <2> SUFFICES ASSUME RegInv PROVE SkipsAreTold OBVIOUS
  <2>1. ASSUME StartupOver, NEW c \in RegSet
        PROVE  /\ outcome[c].registered => failed[c][1] = "" /\ c \in Range(shown)
               /\ Expected(c) => ~outcome[c].registered /\ c \in Range(shown)
               /\ ~outcome[c].registered /\ ~Expected(c) /\ c \in Range(shown) => verbose
    <3>1. c \in byIndex /\ Says(outcome[c], Expected(c), failed[c])
      BY <2>1 DEF StartupOver, RegInv, SentOK
    <3>2. outcome[c].visible <=> c \in Range(shown) BY <3>1 DEF RegInv, ShownOK
    <3>3. outcome[c].registered => failed[c][1] = "" /\ failed[c][2] = ""
      <4>1. PICK why : why = <<"", "">> OBVIOUS
      <4>2. why[1] = "" /\ why[2] = "" BY <4>1
      <4>3. outcome[c].registered => failed[c] = why BY <3>1, <4>1 DEF Says
      <4> QED BY <4>2, <4>3
    <3>4. outcome[c].registered => ~Expected(c) BY <3>3 DEF Expected
    <3> QED BY <3>1, <3>2, <3>3, <3>4 DEF Says
  <2> QED BY <2>1 DEF RegInv, DoctorOK, SkipsAreTold
<1> QED BY <1>1, <1>2, PTL
-----------------------------------------------------------------------------
(* A set of places has a first and a last. *)
LEMMA FirstPlace ==
  \A n \in Nat : \A P \in SUBSET (1..n) : P # {} => \E i \in P : \A j \in P : i <= j
<1> TAKE n \in Nat
<1> TAKE P \in SUBSET (1..n)
<1> HAVE P # {}
<1>1. P \subseteq Nat  OBVIOUS
<1>2. PICK i \in P : \A j \in P : ~(j < i)
  <2>1. IsWellFoundedOn(OpToRel(<, Nat), Nat)  BY NatLessThanWellFounded
  <2>2. \E i \in P : \A j \in P : ~(<<j, i>> \in OpToRel(<, Nat))
    BY <1>1, <2>1, WFMin
  <2> QED  BY <1>1, <2>2 DEF OpToRel
<1> QED  BY <1>1, <1>2

LEMMA LastPlace ==
  \A n \in Nat : \A P \in SUBSET (1..n) : P # {} => \E i \in P : \A j \in P : j <= i
<1> TAKE n \in Nat
<1> TAKE P \in SUBSET (1..n)
<1> HAVE P # {}
<1> DEFINE Q == {k \in 1..n : n + 1 - k \in P}
<1>1. Q \in SUBSET (1..n) /\ Q # {}
  <2>1. PICK i \in P : TRUE  OBVIOUS
  <2>2. i \in 1..n  OBVIOUS
  <2>3. n + 1 - i \in 1..n /\ n + 1 - (n + 1 - i) = i  BY <2>2
  <2>4. n + 1 - i \in Q  BY <2>1, <2>3
  <2> QED  BY <2>4
<1>2. PICK k \in Q : \A j \in Q : k <= j  BY <1>1, FirstPlace
<1>3. n + 1 - k \in P  BY <1>2
<1>4. ASSUME NEW j \in P PROVE j <= n + 1 - k
  <2>1. j \in 1..n  OBVIOUS
  <2>2. n + 1 - j \in 1..n /\ n + 1 - (n + 1 - j) = j  BY <2>1
  <2>3. n + 1 - j \in Q  BY <2>2
  <2>4. k <= n + 1 - j  BY <2>3, <1>2
  <2>5. k \in 1..n  BY <1>2
  <2> QED  BY <2>1, <2>4, <2>5
<1> QED  BY <1>3, <1>4

LEMMA SplitPathType ==
  \A S : \A path \in Seq(S) : Kube!splitPath(path) \in Seq(S)
<1> TAKE S
<1> TAKE path \in Seq(S)
<1> DEFINE named == {i \in DOMAIN path : path[i] # Kube!Empty}
           first == CHOOSE i \in named : \A j \in named : i <= j
           last == CHOOSE i \in named : \A j \in named : j <= i
<1>1. named \in SUBSET (1..Len(path)) /\ Len(path) \in Nat
  <2>1. DOMAIN path = 1..Len(path) /\ Len(path) \in Nat  OBVIOUS
  <2> QED  BY <2>1
<1>2. CASE named = {}
  <2>1. Kube!splitPath(path) = <<>>  BY <1>2 DEF Kube!splitPath
  <2> QED  BY <2>1, EmptySeq
<1>3. CASE named # {}
  <2>1. \E i \in named : \A j \in named : i <= j  BY <1>1, <1>3, FirstPlace
  <2>2. \E i \in named : \A j \in named : j <= i  BY <1>1, <1>3, LastPlace
  <2>3. first \in named  BY <2>1
  <2>4. last \in named  BY <2>2
  <2>5. Kube!splitPath(path) = SubSeq(path, first, last)  BY <1>3 DEF Kube!splitPath
  <2> HIDE DEF named, first, last
  <2>6. first \in 1..Len(path) /\ last \in 1..Len(path)  BY <1>1, <2>3, <2>4
  <2>7. \A i \in first..last : i \in 1..Len(path)  BY <2>6, <1>1
  <2>8. SubSeq(path, first, last) \in Seq(S)
    BY <2>6, <2>7, SubSeqProperties
  <2> QED  BY <2>5, <2>8
<1> QED  BY <1>2, <1>3

LEMMA FromProperties ==
  \A S : \A s \in Seq(S), n \in {3, 4} : Len(s) >= n =>
    /\ Kube!From(s, n) \in Seq(S) /\ Len(Kube!From(s, n)) = Len(s) - n + 1
    /\ Kube!From(s, n)[1] = s[n]
<1> TAKE S
<1> TAKE s \in Seq(S), n \in {3, 4}
<1> HAVE Len(s) >= n
<1>1. Len(s) \in Nat /\ n \in 1..Len(s)  OBVIOUS
<1>2. \A i \in n..Len(s) : i \in 1..Len(s)  BY <1>1
<1>3. SubSeq(s, n, Len(s)) \in Seq(S)
      /\ Len(SubSeq(s, n, Len(s))) = Len(s) - n + 1
      /\ \A i \in 1..(Len(s) - n + 1) : SubSeq(s, n, Len(s))[i] = s[n + i - 1]
  BY <1>1, <1>2, SubSeqProperties
<1>4. 1 \in 1..(Len(s) - n + 1) /\ n + 1 - 1 = n  BY <1>1
<1> QED  BY <1>3, <1>4 DEF Kube!From

(* What a server reads below a version is what consumeNamespace leaves.    *)
LEMMA OneScope ==
  \A S : \A tail \in Seq(S) : \A t \in Kube!Below(tail) :
    /\ t = Kube!consumeNamespace(tail) /\ t \in Seq(S)
    /\ Len(t) \in 1..3 /\ (\A i \in DOMAIN t : t[i] # Kube!Empty)
    /\ t[1] \notin {"watch", "proxy"}
    /\ tail # <<>> /\ (t = tail \/ tail[1] = "namespaces")
<1> TAKE S
<1> TAKE tail \in Seq(S)
<1> TAKE t \in Kube!Below(tail)
<1>1. /\ t \in {tail} \cup (IF Kube!At(tail, 1) = "namespaces" /\ Len(tail) >= 3 THEN {Kube!From(tail, 3)} ELSE {})
      /\ Len(t) \in 1..3 /\ \A i \in DOMAIN t : t[i] # Kube!Empty
      /\ t[1] \notin {"status", "finalize", "watch", "proxy"}
      /\ t[1] = "namespaces" /\ Len(t) = 3 => t[3] \in {"status", "finalize"}
  BY DEF Kube!Below
<1>2. CASE t = tail
  <2>1. Kube!consumeNamespace(tail) = tail
    BY <1>1, <1>2 DEF Kube!consumeNamespace, Kube!isNamespaceSubresource, Kube!At
  <2> QED  BY <1>1, <1>2, <2>1
<1>3. CASE t # tail
  <2>1. Kube!At(tail, 1) = "namespaces" /\ Len(tail) >= 3 /\ t = Kube!From(tail, 3)  BY <1>1, <1>3
  <2>2. t \in Seq(S) /\ t[1] = tail[3]  BY <2>1, FromProperties
  <2>3. tail[1] = "namespaces" /\ tail # <<>>  BY <2>1 DEF Kube!At
  <2>4. Kube!consumeNamespace(tail) = t
    BY <1>1, <2>1, <2>2 DEF Kube!consumeNamespace, Kube!isNamespaceSubresource
  <2> QED  BY <1>1, <2>2, <2>3, <2>4
<1> QED  BY <1>2, <1>3

LEMMA EmptyIsNoVerb == Kube!Empty \notin {"watch", "proxy"}
BY Zenon DEF Kube!Empty

Methods == DOMAIN Kube!methodVerb

(* The verb is the one of the method for what is named, and of the         *)
(* collection for what is not.                                             *)
LEMMA OneVerb ==
  ASSUME NEW S, NEW t \in Seq(S), Len(t) \in 1..3, \A i \in DOMAIN t : t[i] # Kube!Empty,
         NEW method \in Methods, NEW watch \in BOOLEAN, NEW verb \in Kube!Verbs(method, t, watch)
  PROVE  verb = Kube!applyVerb(Kube!Empty, method, Kube!At(t, 2), watch)
<1>1. Kube!At(t, 2) = Kube!Empty <=> Len(t) = 1
  BY DEF Kube!At
<1>2. method \in {"POST", "GET", "HEAD", "PUT", "PATCH", "DELETE", "OPTIONS"}
  BY DEF Methods, Kube!methodVerb
<1>3. /\ Kube!methodVerb["POST"] = "create" /\ Kube!methodVerb["GET"] = "get" /\ Kube!methodVerb["HEAD"] = "get"
      /\ Kube!methodVerb["PUT"] = "update" /\ Kube!methodVerb["PATCH"] = "patch"
      /\ Kube!methodVerb["DELETE"] = "delete" /\ Kube!methodVerb["OPTIONS"] = "options"
  BY DEF Kube!methodVerb
<1>4. Len(t) = 1 \/ Len(t) > 1  OBVIOUS
<1> QED  BY <1>1, <1>2, <1>3, <1>4 DEF Kube!applyVerb, Kube!Verbs

(* A role that allows what the connector made of a request grants it.      *)
LEMMA AllowsGrants ==
  ASSUME NEW rules, NEW ri, Kube!Allows(rules, ri)
  PROVE  Kube!Granted(rules, Kube!Runs(ri.group, ri.verb, ri.resource, ri.subresource, ri.name))
BY DEF Kube!Allows, Kube!Granted, Kube!Runs, Kube!matchItem, Kube!resourceNameMatches, Kube!target

(* Whatever an API server runs for a request that authorizeAction admitted *)
(* (k8s/policy.go), below a namespace or not, watched or not, is in the    *)
(* ClusterRole that was fetched: for every role, path and method, what     *)
(* Classify makes of the path is what the routes of the server make of it. *)
THEOREM KubeOnlyGranted ==
  ASSUME NEW cluster, NEW answer, NEW r, r.path \in Seq(STRING), r.method \in Methods, r.watch \in BOOLEAN,
         Kube!authorizeAction(cluster, answer, r)
  PROVE  \A op \in Kube!Served(r.method, r.path, r.watch) : Kube!Granted(answer.rules, op)
<1> DEFINE parts == Kube!splitPath(r.path)
           named == Kube!At(parts, 1) = "apis"
           version == IF named THEN 3 ELSE 2
           group == IF named THEN Kube!At(parts, 2) ELSE Kube!Empty
           tail == Kube!From(parts, version + 1)
           ri == Kube!Classify(r.method, r.path, r.watch)
<1>0. parts \in Seq(STRING)  BY SplitPathType
<1>1. Kube!Authorize(ri, answer.rules)  BY DEF Kube!authorizeAction
<1> SUFFICES ASSUME NEW op \in Kube!Served(r.method, r.path, r.watch)
             PROVE  Kube!Granted(answer.rules, op)
  OBVIOUS
<1>2. Kube!At(parts, 1) \in {"api", "apis"} /\ ~(Len(parts) <= version)
  BY DEF Kube!Served
<1>3. Len(parts) \in Nat /\ Len(parts) >= version + 1 /\ version + 1 \in {3, 4}
  BY <1>0, <1>2
<1>4. tail \in Seq(STRING) /\ Len(tail) >= 1 /\ Len(tail) \in Nat
  BY <1>0, <1>3, FromProperties
<1>5. parts[1] \in {"api", "apis"} /\ (named => parts[2] = Kube!At(parts, 2))
  BY <1>2, <1>3 DEF Kube!At
<1> DEFINE special == IF Kube!At(tail, 1) \in {"proxy", "watch"} THEN tail[1] ELSE Kube!Empty
           rest == IF special = Kube!Empty THEN tail ELSE Tail(tail)
<1>6. ri = Kube!consumeResource(Kube!consumeNamespace(rest), special, group, r.method, r.watch)
  <2>1. version + 1 = (IF named THEN 4 ELSE 3)  OBVIOUS
  <2>2. ~(Len(parts) < (IF named THEN 4 ELSE 3) \/ parts[1] \notin {"api", "apis"})
    BY <1>3, <1>5
  <2>3. group = (IF named THEN parts[2] ELSE Kube!Empty)  BY <1>5
  <2> QED  BY <2>1, <2>2, <2>3 DEF Kube!Classify
<1>7. Kube!At(tail, 1) = tail[1]  BY <1>4 DEF Kube!At
<1>8. ri.isResource  BY <1>6 DEF Kube!consumeResource
<1>9. Kube!Granted(answer.rules, Kube!Runs(ri.group, ri.verb, ri.resource, ri.subresource, ri.name))
  BY <1>1, <1>8, AllowsGrants DEF Kube!Authorize
<1>10. \/ \E t \in Kube!Below(tail) : \E verb \in Kube!Verbs(r.method, t, r.watch) :
             op = Kube!Runs(group, verb, t[1], Kube!At(t, 3), Kube!At(t, 2))
       \/ /\ tail[1] = "watch"
          /\ \E u \in Kube!Below(Tail(tail)) : Len(u) < 3 /\ op = Kube!Runs(group, "watch", u[1], Kube!Empty, Kube!At(u, 2))
  <2> DEFINE direct(t) == {Kube!Runs(group, verb, t[1], Kube!At(t, 3), Kube!At(t, 2)) : verb \in Kube!Verbs(r.method, t, r.watch)}
             below == UNION {direct(t) : t \in Kube!Below(tail)}
             watched == {Kube!Runs(group, "watch", t[1], Kube!Empty, Kube!At(t, 2)) :
                           t \in {u \in Kube!Below(Tail(tail)) : tail[1] = "watch" /\ Len(u) < 3 /\ r.method = "GET"}}
  <2>1. op \in below \cup watched  BY <1>2, Zenon DEF Kube!Served
  <2> HIDE DEF parts, named, version, group, tail, ri
  <2>2. \A t : op \in direct(t) => \E verb \in Kube!Verbs(r.method, t, r.watch) :
             op = Kube!Runs(group, verb, t[1], Kube!At(t, 3), Kube!At(t, 2))
    OBVIOUS
  <2> HIDE DEF direct
  <2>3. ASSUME op \in below PROVE \E t \in Kube!Below(tail) : op \in direct(t)
    BY <2>3
  <2>4. ASSUME op \in watched
        PROVE  /\ tail[1] = "watch"
               /\ \E u \in Kube!Below(Tail(tail)) : Len(u) < 3 /\ op = Kube!Runs(group, "watch", u[1], Kube!Empty, Kube!At(u, 2))
    BY <2>4
  <2> HIDE DEF below, watched
  <2> QED  BY <2>1, <2>2, <2>3, <2>4
<1> HIDE DEF parts, named, version, group, tail, ri
<1>11. CASE \E t \in Kube!Below(tail) : \E verb \in Kube!Verbs(r.method, t, r.watch) :
             op = Kube!Runs(group, verb, t[1], Kube!At(t, 3), Kube!At(t, 2))
  <2>0. PICK t \in Kube!Below(tail) : \E verb \in Kube!Verbs(r.method, t, r.watch) :
             op = Kube!Runs(group, verb, t[1], Kube!At(t, 3), Kube!At(t, 2))
    BY <1>11
  <2>1. PICK verb \in Kube!Verbs(r.method, t, r.watch) : op = Kube!Runs(group, verb, t[1], Kube!At(t, 3), Kube!At(t, 2))
    BY <2>0
  <2>2. /\ t = Kube!consumeNamespace(tail) /\ t \in Seq(STRING)
        /\ Len(t) \in 1..3 /\ (\A i \in DOMAIN t : t[i] # Kube!Empty)
        /\ t[1] \notin {"watch", "proxy"}
        /\ (t = tail \/ tail[1] = "namespaces")
    BY <1>4, OneScope
  <2>3. special = Kube!Empty /\ rest = tail  BY <1>7, <2>2
  <2>4. verb = Kube!applyVerb(Kube!Empty, r.method, Kube!At(t, 2), r.watch)  BY <2>2, OneVerb
  <2>5. Kube!At(t, 1) = t[1]  BY <2>2 DEF Kube!At
  <2> HIDE DEF special, rest
  <2>6. /\ ri.group = group /\ ri.verb = verb /\ ri.resource = t[1]
        /\ ri.subresource = Kube!At(t, 3) /\ ri.name = Kube!At(t, 2)
    BY <1>6, <2>2, <2>3, <2>4, <2>5, EmptyIsNoVerb DEF Kube!consumeResource
  <2> QED  BY <1>9, <2>1, <2>6
<1>12. CASE /\ tail[1] = "watch"
            /\ \E u \in Kube!Below(Tail(tail)) : Len(u) < 3 /\ op = Kube!Runs(group, "watch", u[1], Kube!Empty, Kube!At(u, 2))
  <2>1. PICK u \in Kube!Below(Tail(tail)) : Len(u) < 3 /\ op = Kube!Runs(group, "watch", u[1], Kube!Empty, Kube!At(u, 2))
    BY <1>12
  <2>2. special = "watch" /\ rest = Tail(tail)  BY <1>7, <1>12, EmptyIsNoVerb
  <2>3. Tail(tail) \in Seq(STRING)  BY <1>4
  <2>4. u = Kube!consumeNamespace(Tail(tail)) /\ u \in Seq(STRING) /\ Len(u) \in 1..3
    BY <2>3, OneScope
  <2>5. Kube!At(u, 1) = u[1] /\ Kube!At(u, 3) = Kube!Empty  BY <2>1, <2>4 DEF Kube!At
  <2>6. Kube!applyVerb("watch", r.method, Kube!At(u, 2), r.watch) = "watch"
    BY EmptyIsNoVerb DEF Kube!applyVerb
  <2> HIDE DEF special, rest
  <2>7. /\ ri.group = group /\ ri.verb = "watch" /\ ri.resource = u[1]
        /\ ri.subresource = Kube!Empty /\ ri.name = Kube!At(u, 2)
    BY <1>6, <2>2, <2>4, <2>5, <2>6 DEF Kube!consumeResource
  <2> QED  BY <1>9, <2>1, <2>7
<1> QED  BY <1>10, <1>11, <1>12

(* Of two templates of one length the more specific is before the other at *)
(* some segment.                                                           *)
LEMMA MoreSpecificIsBefore ==
  ASSUME NEW S, NEW a \in Seq(S), NEW b \in Seq(S), Len(a) = Len(b), Gcp!moreSpecific(a, b)
  PROVE  \E i \in DOMAIN b :
           /\ ~Gcp!isPlaceholder(Gcp!segmentBase(a[i])) /\ Gcp!isPlaceholder(Gcp!segmentBase(b[i]))
           /\ \A j \in 1..(i - 1) : Gcp!isPlaceholder(Gcp!segmentBase(a[j])) <=> Gcp!isPlaceholder(Gcp!segmentBase(b[j]))
<1> DEFINE literal(t, i) == ~Gcp!isPlaceholder(Gcp!segmentBase(t[i]))
           differ == {i \in DOMAIN a : literal(a, i) # literal(b, i)}
           first == CHOOSE i \in differ : \A j \in differ : i <= j
<1>1. DOMAIN a = 1..Len(a) /\ DOMAIN b = 1..Len(a) /\ Len(a) \in Nat  OBVIOUS
<1>2. differ # {} /\ literal(a, first)  BY DEF Gcp!moreSpecific
<1>3. differ \in SUBSET (1..Len(a))  BY <1>1
<1>4. \E i \in differ : \A j \in differ : i <= j  BY <1>1, <1>2, <1>3, FirstPlace
<1>5. first \in differ /\ \A j \in differ : first <= j  BY <1>4
<1>6. literal(a, first) # literal(b, first) /\ first \in DOMAIN a  BY <1>5
<1>7. \A i \in DOMAIN a : literal(a, i) \in BOOLEAN /\ literal(b, i) \in BOOLEAN  BY DEF Gcp!isPlaceholder
<1>8. ~literal(b, first)  BY <1>2, <1>6, <1>7
<1>9. ASSUME NEW j \in 1..(first - 1) PROVE literal(a, j) = literal(b, j)
  <2>1. first \in 1..Len(a)  BY <1>1, <1>6
  <2> HIDE DEF first
  <2>2. j \in 1..Len(a) /\ ~(first <= j)  BY <1>1, <2>1
  <2>3. j \in DOMAIN a  BY <1>1, <2>2
  <2>4. j \notin differ  BY <1>5, <2>2
  <2> QED  BY <2>3, <2>4
<1> HIDE DEF first, differ
<1> QED  BY <1>1, <1>2, <1>6, <1>8, <1>9

(* What a server of Google routes a reading to is what the connector made  *)
(* of it, whether the server tells cases apart or not.                     *)
LEMMA RoutedSurvive ==
  ASSUME NEW S, NEW index, \A m \in index : m.template \in Seq(S),
         NEW method, NEW segs, NEW folds \in BOOLEAN,
         NEW m \in Gcp!Narrow(Gcp!Routes(index, method, segs, folds))
  PROVE  m.id \in Gcp!appendSurvivors(index, method, segs)
<1> DEFINE matched == {n \in index : n.method = method /\ Gcp!matchTemplate(n.template, segs)}
           routed == Gcp!Routes(index, method, segs, folds)
           folded == \E n \in matched : ~Gcp!literalsExact(n.template, segs)
<1>1. m \in routed  BY DEF Gcp!Narrow
<1>2. m \in matched  BY <1>1 DEF Gcp!Routes
<1> DEFINE kept == {n \in matched : folded \/ \A o \in matched : ~Gcp!moreSpecific(o.template, n.template)}
<1>0. Gcp!appendSurvivors(index, method, segs) = {n.id : n \in kept}
  BY DEF Gcp!appendSurvivors
<1>3. CASE folded
  <2>1. m \in kept  BY <1>2, <1>3
  <2> QED  BY <1>0, <2>1
<1>4. CASE ~folded
  <2>1. routed = matched  BY <1>4 DEF Gcp!Routes
  <2>2. ASSUME NEW o \in matched, Gcp!moreSpecific(o.template, m.template) PROVE FALSE
    <3>1. /\ o.template \in Seq(S) /\ m.template \in Seq(S) /\ Len(o.template) = Len(m.template)
      BY <1>2 DEF Gcp!matchTemplate
    <3>2. PICK i \in DOMAIN m.template :
           /\ ~Gcp!isPlaceholder(Gcp!segmentBase(o.template[i])) /\ Gcp!isPlaceholder(Gcp!segmentBase(m.template[i]))
           /\ \A j \in 1..(i - 1) : Gcp!isPlaceholder(Gcp!segmentBase(o.template[j])) <=> Gcp!isPlaceholder(Gcp!segmentBase(m.template[j]))
      BY <2>2, <3>1, MoreSpecificIsBefore
    <3>3. o \in routed  BY <2>1
    <3> HIDE DEF matched
    <3> DEFINE literal(n, k) == ~Gcp!isPlaceholder(Gcp!segmentBase(n.template[k]))
    <3>4. ~(literal(o, i) /\ ~literal(m, i) /\ \A j \in 1..(i - 1) : literal(o, j) = literal(m, j))
      BY <3>3 DEF Gcp!Narrow
    <3>5. \A j \in 1..(i - 1) : literal(o, j) = literal(m, j)
      BY <3>2 DEF Gcp!isPlaceholder
    <3> QED  BY <3>2, <3>4, <3>5
  <2>3. m \in kept  BY <1>2, <2>2
  <2> QED  BY <1>0, <2>3
<1> QED  BY <1>3, <1>4

(* A method that needs no permission, or whose permissions are known and   *)
(* all in the role.                                                        *)
Permitted(perms, granted, id) ==
  Gcp!permissionless(id, perms.pinned) \/ (Gcp!Resolve(id, perms) # {} /\ Gcp!Resolve(id, perms) \subseteq granted)

(* Whatever Google runs for a request that AuthorizeAction admitted        *)
(* (gcp/provider.go), with an escaped slash as a separator or as a part of *)
(* a name, with the case of literals or without, and of several templates  *)
(* the one it prefers, is permitted by the role: for every catalog, role   *)
(* and path.                                                               *)
THEOREM GcpOnlyGranted ==
  ASSUME NEW services, NEW perms, NEW granted, NEW r, NEW claim,
         \A svc \in DOMAIN services : \A m \in services[svc].methods : m.template \in Seq(Seq(STRING)),
         Gcp!AuthorizeAction(services, perms, granted, r, claim)
  PROVE  \E svc \in Gcp!resolveService(services, r) :
           \A id \in Gcp!GcpRuns(services, svc, r) : Permitted(perms, granted, id)
<1> DEFINE classified(svc) ==
             IF svc = "storage" THEN Gcp!ClassifyAsSent(services[svc].methods, r) ELSE Gcp!Classify(services[svc].methods, r)
<1>1. PICK svc \in Gcp!resolveService(services, r) : \A id \in classified(svc) : Permitted(perms, granted, id)
  BY DEF Gcp!AuthorizeAction, Gcp!AllowedAll, Permitted
<1> DEFINE index == services[svc].methods
           ids == classified(svc)
           sent == {r.path} \cup (IF svc = "storage" THEN {} ELSE {Gcp!decoded(r.path)})
           read == IF svc = "storage" THEN Gcp!WireReadings(r.path) ELSE Gcp!PathReadings(r.path)
           survivors(segs) == Gcp!appendSurvivors(index, r.method, Gcp!trimEmptyEdges(segs))
           routed(segs, folds) == Gcp!Narrow(Gcp!Routes(index, r.method, Gcp!trimEmptyEdges(segs), folds))
           runs(segs, folds) == {m.id : m \in routed(segs, folds)}
<1>2. svc \in DOMAIN services
  BY DEF Gcp!resolveService, Gcp!ResolveWWWService, Gcp!ResolveService, Gcp!hostToService
<1>3. \A m \in index : m.template \in Seq(Seq(STRING))  BY <1>2
<1>4. sent \subseteq read
  BY DEF Gcp!WireReadings, Gcp!PathReadings, Gcp!withTrailingDrops
<1>5. ids = UNION {survivors(segs) : segs \in read}
  BY DEF Gcp!ClassifyAsSent, Gcp!Classify, Gcp!classify
<1>6. Gcp!GcpRuns(services, svc, r) = UNION {runs(segs, folds) : segs \in sent, folds \in BOOLEAN}
  BY DEF Gcp!GcpRuns
<1>7. ASSUME NEW segs, NEW folds \in BOOLEAN, NEW id \in runs(segs, folds) PROVE id \in survivors(segs)
  <2>1. PICK m \in routed(segs, folds) : id = m.id  BY <1>7
  <2> HIDE DEF index
  <2> QED  BY <1>3, <2>1, RoutedSurvive
<1> HIDE DEF index, sent, read, survivors, runs
<1>8. \A id \in Gcp!GcpRuns(services, svc, r) : \E segs \in sent : id \in survivors(segs)
  BY <1>6, <1>7
<1>9. \A id \in Gcp!GcpRuns(services, svc, r) : id \in ids
  BY <1>4, <1>5, <1>8
<1>10. \A id \in ids : Permitted(perms, granted, id)  BY <1>1
<1> HIDE DEF ids
<1> QED  BY <1>9, <1>10
-----------------------------------------------------------------------------
(* The k-th value of f follows from the one before it, by next. *)
Follows(f, a, n, next) == f[0] = a /\ \A i \in 1..n : f[i] = next[<<i, f[i - 1]>>]

(* A function given by its value at 0 and by its steps exists. *)
LEMMA Recursion ==
  ASSUME NEW S, NEW n \in Nat, NEW a \in S, NEW next \in [(1..n) \X S -> S]
  PROVE  \E f \in [0..n -> S] : Follows(f, a, n, next)
<1> DEFINE Good(k) == \E f \in [0..k -> S] : f[0] = a /\ \A i \in 1..k : f[i] = next[<<i, f[i - 1]>>]
           Bad == {k \in 1..n : ~Good(k)}
<1>1. Good(0)
  <2>1. [i \in 0..0 |-> a] \in [0..0 -> S] /\ [i \in 0..0 |-> a][0] = a  OBVIOUS
  <2>2. 1..0 = {}  OBVIOUS
  <2> QED  BY <2>1, <2>2
<1>2. ASSUME NEW k \in 1..n, Good(k - 1) PROVE Good(k)
  <2>1. PICK f \in [0..(k - 1) -> S] : f[0] = a /\ \A i \in 1..(k - 1) : f[i] = next[<<i, f[i - 1]>>]
    BY <1>2
  <2>2. k - 1 \in 0..(k - 1)  OBVIOUS
  <2>3. next[<<k, f[k - 1]>>] \in S  BY <2>2
  <2> DEFINE g == [i \in 0..k |-> IF i = k THEN next[<<k, f[k - 1]>>] ELSE f[i]]
  <2>4. g \in [0..k -> S]
    <3> SUFFICES ASSUME NEW i \in 0..k PROVE (IF i = k THEN next[<<k, f[k - 1]>>] ELSE f[i]) \in S  OBVIOUS
    <3>1. i # k => i \in 0..(k - 1)  OBVIOUS
    <3> QED  BY <2>3, <3>1
  <2>5. g[0] = a  BY <2>1
  <2>6. ASSUME NEW i \in 1..k PROVE g[i] = next[<<i, g[i - 1]>>]
    <3>1. i - 1 \in 0..k /\ i - 1 # k /\ i \in 0..k  OBVIOUS
    <3>2. g[i - 1] = f[i - 1]  BY <3>1
    <3>3. CASE i = k  BY <3>1, <3>2, <3>3
    <3>4. CASE i # k
      <4>1. i \in 1..(k - 1)  BY <3>4
      <4>2. g[i] = f[i]  BY <3>1, <3>4
      <4> QED  BY <2>1, <3>2, <4>1, <4>2
    <3> QED  BY <3>3, <3>4
  <2> HIDE DEF g
  <2> QED  BY <2>4, <2>5, <2>6
<1>3. Bad = {}
  <2> SUFFICES ASSUME Bad # {} PROVE FALSE  OBVIOUS
  <2>1. PICK k \in Bad : \A j \in Bad : k <= j  BY FirstPlace
  <2>2. k \in 1..n /\ ~Good(k)  OBVIOUS
  <2>3. k - 1 = 0 \/ (k - 1 \in 1..n /\ k - 1 \notin Bad)  BY <2>1, <2>2
  <2>4. Good(k - 1)
    <3> HIDE DEF Good
    <3> QED  BY <1>1, <2>2, <2>3
  <2> HIDE DEF Good
  <2> QED  BY <1>2, <2>2, <2>4
<1>4. n = 0 \/ n \in 1..n  OBVIOUS
<1>5. Good(n)
  <2> HIDE DEF Good
  <2> QED  BY <1>1, <1>3, <1>4
<1> QED  BY <1>5 DEF Follows

(* FlattenSeq, from the left. *)
LEMMA FlattenSteps ==
  ASSUME NEW S, NEW seqs \in Seq(Seq(S))
  PROVE  \E f \in [0..Len(seqs) -> Seq(S)] :
           /\ f[0] = <<>>
           /\ \A i \in 1..Len(seqs) : f[i] = f[i - 1] \o seqs[i]
           /\ FlattenSeq(seqs) = f[Len(seqs)]
<1> DEFINE n == Len(seqs)
           T == Seq(S)
<1>0. n \in Nat /\ \A i \in 1..n : seqs[i] \in T  BY ElementOfSeq
<1>1. <<>> \in T  BY EmptySeq
<1>2. CASE n = 0
  <2>1. seqs = <<>>  BY <1>2, EmptySeq
  <2>2. FlattenSeq(seqs) = <<>>  BY <1>2, <2>1 DEF FlattenSeq
  <2>3. [i \in 0..0 |-> <<>>] \in [0..0 -> T] /\ [i \in 0..0 |-> <<>>][0] = <<>>  BY <1>1
  <2>4. 1..0 = {}  OBVIOUS
  <2> HIDE DEF T
  <2> QED  BY <1>2, <2>2, <2>3, <2>4 DEF T
<1>3. CASE n # 0
  <2> DEFINE next == [p \in (1..n) \X T |-> p[2] \o seqs[p[1]]]
             Steps(f) == f = [i \in 1..n |-> IF i = 1 THEN seqs[i] ELSE f[i - 1] \o seqs[i]]
             flatten == CHOOSE f : Steps(f)
  <2>1. next \in [(1..n) \X T -> T]
    <3>1. ASSUME NEW i \in 1..n, NEW t \in T PROVE t \o seqs[i] \in T  BY <1>0, ConcatProperties
    <3> HIDE DEF T
    <3> QED  BY <3>1
  <2>2. PICK f \in [0..n -> T] : f[0] = <<>> /\ \A i \in 1..n : f[i] = next[<<i, f[i - 1]>>]
    <3>1. PICK a \in T : a = <<>>  BY <1>1
    <3>2. n \in Nat  BY <1>0
    <3> HIDE DEF next, T, n
    <3>3. \E f \in [0..n -> T] : Follows(f, a, n, next)
      BY <2>1, <3>2, Recursion
    <3> QED  BY <3>1, <3>3 DEF Follows
  <2>3. ASSUME NEW i \in 1..n PROVE f[i] = f[i - 1] \o seqs[i] /\ f[i - 1] \in T
    <3> HIDE DEF T, n
    <3>1. i - 1 \in 0..n  BY <1>0
    <3>2. f[i - 1] \in T  BY <3>1
    <3>3. next[<<i, f[i - 1]>>] = f[i - 1] \o seqs[i]  BY <3>2
    <3> QED  BY <2>2, <3>2, <3>3
  <2>9. f[1] = seqs[1]
    <3>1. 1 \in 1..n /\ 1 - 1 = 0  BY <1>0, <1>3
    <3>2. f[1] = f[0] \o seqs[1]  BY <2>3, <3>1
    <3>3. f[1] = <<>> \o seqs[1]  BY <2>2, <3>2
    <3>4. seqs[1] \in Seq(S)  BY <1>0, <3>1
    <3> QED  BY <3>3, <3>4, ConcatEmptySeq
  <2>4. FlattenSeq(seqs) = flatten[n]  BY <1>3 DEF FlattenSeq
  <2>5. Steps(flatten)
    <3> DEFINE g == [i \in 1..n |-> f[i]]
    <3>1. ASSUME NEW i \in 1..n PROVE g[i] = IF i = 1 THEN seqs[i] ELSE g[i - 1] \o seqs[i]
      <4>1. CASE i = 1  BY <2>9, <4>1
      <4>2. CASE i # 1
        <5>1. i - 1 \in 1..n  BY <1>0, <4>2
        <5> QED  BY <2>3, <4>2, <5>1
      <4> QED  BY <4>1, <4>2
    <3>2. Steps(g)  BY <3>1
    <3> HIDE DEF g, Steps
    <3> QED  BY <3>2
  <2>6. ASSUME NEW i \in 1..n PROVE flatten[i] = IF i = 1 THEN seqs[i] ELSE flatten[i - 1] \o seqs[i]
    <3> HIDE DEF flatten
    <3> QED  BY <2>5
  <2>7. \A i \in 1..n : flatten[i] = f[i]
    <3> HIDE DEF flatten, Steps
    <3> DEFINE Bad == {i \in 1..n : flatten[i] # f[i]}
    <3> SUFFICES ASSUME Bad # {} PROVE FALSE  OBVIOUS
    <3>1. PICK i \in Bad : \A j \in Bad : i <= j  BY <1>0, FirstPlace
    <3>2. CASE i = 1  BY <2>6, <2>9, <3>1, <3>2
    <3>3. CASE i # 1
      <4>1. i \in 1..n /\ i - 1 \in 1..n /\ ~(i <= i - 1)  BY <1>0, <3>3
      <4>2. flatten[i - 1] = f[i - 1]  BY <3>1, <4>1
      <4> QED  BY <2>3, <2>6, <3>1, <3>3, <4>1, <4>2, ZenonT(60)
    <3> QED  BY <3>2, <3>3
  <2>8. n \in 1..n  BY <1>0, <1>3
  <2> HIDE DEF flatten, Steps, next
  <2> QED  BY <2>2, <2>3, <2>4, <2>7, <2>8
<1> QED  BY <1>2, <1>3

(* The ranges of a text of n letters, such as do not touch and come from   *)
(* the left, and the letters that are in one.                              *)
Ranges(n) == [start : 1..n, end : 1..(n + 1)]
Apart(n, m) ==
  /\ m \in Seq(Ranges(n))
  /\ \A k \in 1..Len(m) : m[k].start < m[k].end
  /\ \A k \in 1..(Len(m) - 1) : m[k].end < m[k + 1].start
Within(m, j) == \E k \in 1..Len(m) : m[k].start <= j /\ j < m[k].end
Started(S, i, j) == \E sp \in S : sp.start <= i /\ sp.start <= j /\ j < sp.end

(* The loop of credentialSpans, having taken the ranges that start up to i. *)
MergedOK(n, S, i, m) ==
  /\ Apart(n, m)
  /\ \A k \in 1..Len(m) : m[k].start <= i
  /\ \A j \in 1..n : Within(m, j) <=> Started(S, i, j)

LEMMA MergeType ==
  ASSUME NEW n \in Nat, NEW m \in Seq(Ranges(n)), NEW sp \in Ranges(n)
  PROVE  merge(m, sp) \in Seq(Ranges(n))
<1> DEFINE l == Len(m)
           e == IF sp.end > m[l].end THEN sp.end ELSE m[l].end
           r == [m[l] EXCEPT !.end = e]
<1>1. CASE m # <<>> /\ sp.start <= Last(m).end
  <2>1. l \in 1..Len(m)  BY <1>1, EmptySeq
  <2>2. m[l] \in Ranges(n)  BY <2>1, ElementOfSeq
  <2>3. r \in Ranges(n)  BY <2>2 DEF Ranges
  <2>4. merge(m, sp) = [m EXCEPT ![l] = r]  BY <1>1 DEF merge
  <2> HIDE DEF r, l
  <2> QED  BY <2>1, <2>3, <2>4, ExceptSeq
<1>2. CASE ~(m # <<>> /\ sp.start <= Last(m).end)
  <2>1. merge(m, sp) = Append(m, sp)  BY <1>2 DEF merge
  <2> QED  BY <2>1, AppendProperties
<1> QED  BY <1>1, <1>2

(* What has started by i has started before, or is in the longest that     *)
(* starts at i.                                                            *)
LEMMA StartedNext ==
  ASSUME NEW n \in Nat, NEW S \in SUBSET Ranges(n), NEW i \in 1..n, NEW sp \in S, sp.start = i,
         \A o \in S : o.start = i => o.end <= sp.end, NEW j \in 1..n
  PROVE  Started(S, i, j) <=> Started(S, i - 1, j) \/ (i <= j /\ j < sp.end)
<1>0. ASSUME NEW o \in S PROVE o.start \in Int /\ o.end \in Int  BY DEF Ranges
<1>1. ASSUME NEW o \in S, o.start <= i, o.start <= j, j < o.end
      PROVE  Started(S, i - 1, j) \/ (i <= j /\ j < sp.end)
  <2>1. CASE o.start = i  BY <1>0, <1>1, <2>1
  <2>2. CASE o.start # i
    <3>1. o.start <= i - 1  BY <1>0, <1>1, <2>2
    <3> QED  BY <1>1, <3>1 DEF Started
  <2> QED  BY <2>1, <2>2
<1>2. ASSUME Started(S, i - 1, j) PROVE Started(S, i, j)
  <2>1. PICK o \in S : o.start <= i - 1 /\ o.start <= j /\ j < o.end  BY <1>2 DEF Started
  <2>2. o.start <= i  BY <1>0, <2>1
  <2> QED  BY <2>1, <2>2 DEF Started
<1>3. ASSUME i <= j, j < sp.end PROVE Started(S, i, j)
  BY <1>3 DEF Started
<1> QED  BY <1>1, <1>2, <1>3 DEF Started

LEMMA MergeOne ==
  ASSUME NEW n \in Nat, NEW S \in SUBSET Ranges(n), NEW i \in 1..n, NEW sp \in S, sp.start = i, sp.start < sp.end,
         \A o \in S : o.start = i => o.end <= sp.end,
         NEW m, MergedOK(n, S, i - 1, m)
  PROVE  MergedOK(n, S, i, merge(m, sp))
<1> DEFINE l == Len(m)
           new == merge(m, sp)
<1>0. m \in Seq(Ranges(n)) /\ l \in Nat /\ new \in Seq(Ranges(n)) /\ sp \in Ranges(n)
  <2>1. m \in Seq(Ranges(n)) /\ sp \in Ranges(n)  BY DEF MergedOK, Apart
  <2> QED  BY <2>1, MergeType
<1>1. ASSUME NEW k \in 1..l
      PROVE  /\ m[k] \in Ranges(n) /\ m[k].start \in Int /\ m[k].end \in Int
             /\ m[k].start < m[k].end /\ m[k].start < i
  <2>1. m[k] \in Ranges(n)  BY <1>0, ElementOfSeq
  <2>2. m[k].start \in Int /\ m[k].end \in Int  BY <2>1 DEF Ranges
  <2> QED  BY <2>1, <2>2 DEF MergedOK, Apart
<1>2. sp.start \in Int /\ sp.end \in Int  BY <1>0 DEF Ranges
<1>3. \A k \in 1..(l - 1) : m[k].end < m[k + 1].start  BY DEF MergedOK, Apart
<1>4. ASSUME NEW j \in 1..n PROVE Started(S, i, j) <=> Within(m, j) \/ (i <= j /\ j < sp.end)
  BY StartedNext DEF MergedOK
<1>5. CASE m # <<>> /\ sp.start <= Last(m).end
  <2> DEFINE e == IF sp.end > m[l].end THEN sp.end ELSE m[l].end
             r == [m[l] EXCEPT !.end = e]
  <2>1. l \in 1..l  BY <1>0, <1>5, EmptySeq
  <2>2. sp.start <= m[l].end  BY <1>5 DEF Last
  <2>3. r \in Ranges(n) /\ r.start = m[l].start /\ r.end = e  BY <1>0, <1>1, <2>1 DEF Ranges
  <2>4. new = [m EXCEPT ![l] = r]  BY <1>5 DEF merge
  <2>5. e \in Int /\ e >= sp.end /\ e >= m[l].end /\ (e = sp.end \/ e = m[l].end)  BY <1>1, <1>2, <2>1
  <2> HIDE DEF r, e, l, new
  <2>6. Len(new) = l /\ \A k \in 1..l : new[k] = IF k = l THEN r ELSE m[k]
    BY <1>0, <2>1, <2>3, <2>4, ExceptSeq DEF l
  <2>7. \A k \in 1..l : /\ new[k].start = m[k].start
                        /\ new[k].end = IF k = l THEN e ELSE m[k].end
    BY <2>3, <2>6
  <2>8. \A k \in 1..l : new[k].start < new[k].end /\ new[k].start <= i  BY <1>1, <2>1, <2>5, <2>7
  <2>9. ASSUME NEW k \in 1..(l - 1) PROVE new[k].end < new[k + 1].start
    <3>1. k \in 1..l /\ k + 1 \in 1..l /\ k # l  BY <1>0
    <3> QED  BY <1>3, <2>7, <3>1
  <2>10. ASSUME NEW j \in 1..n PROVE Within(new, j) <=> Within(m, j) \/ (i <= j /\ j < sp.end)
    <3>1. ASSUME NEW k \in 1..l, new[k].start <= j, j < new[k].end
          PROVE  Within(m, j) \/ (i <= j /\ j < sp.end)
      <4>1. CASE k # l \/ j < m[l].end  BY <1>1, <2>7, <3>1, <4>1 DEF Within, l
      <4>2. CASE k = l /\ ~(j < m[l].end)
        <5>1. m[l].end <= j  BY <1>1, <2>1, <4>2
        <5>2. i <= j  BY <1>1, <1>2, <2>1, <2>2, <5>1
        <5>3. j < e  BY <2>7, <3>1, <4>2
        <5>4. e = sp.end  BY <1>1, <2>1, <2>5, <5>1, <5>3
        <5> QED  BY <5>2, <5>3, <5>4
      <4> QED  BY <4>1, <4>2
    <3>2. ASSUME NEW k \in 1..l, m[k].start <= j, j < m[k].end PROVE Within(new, j)
      <4>1. new[k].start <= j /\ j < new[k].end  BY <1>1, <2>1, <2>5, <2>7, <3>2
      <4> QED  BY <2>6, <4>1 DEF Within
    <3>3. ASSUME i <= j, j < sp.end PROVE Within(new, j)
      <4>1. new[l].start <= j  BY <1>1, <2>1, <2>7, <3>3
      <4>2. j < new[l].end  BY <1>2, <2>1, <2>5, <2>7, <3>3
      <4> QED  BY <2>1, <2>6, <4>1, <4>2 DEF Within
    <3> QED  BY <2>6, <3>1, <3>2, <3>3 DEF Within, l
  <2> QED  BY <1>0, <1>4, <2>6, <2>8, <2>9, <2>10 DEF MergedOK, Apart, new
<1>6. CASE ~(m # <<>> /\ sp.start <= Last(m).end)
  <2>1. new = Append(m, sp)  BY <1>6 DEF merge
  <2> HIDE DEF new, l
  <2>2. Len(new) = l + 1 /\ new[l + 1] = sp /\ \A k \in 1..l : new[k] = m[k]
    BY <1>0, <2>1, AppendProperties DEF l
  <2>3. \A k \in 1..(l + 1) : new[k].start < new[k].end /\ new[k].start <= i
    <3> TAKE k \in 1..(l + 1)
    <3>1. k \in 1..l \/ k = l + 1  BY <1>0
    <3> QED  BY <1>1, <1>2, <2>2, <3>1
  <2>4. ASSUME NEW k \in 1..l PROVE new[k].end < new[k + 1].start
    <3>1. CASE k = l
      <4>1. m # <<>>  BY <3>1, EmptySeq DEF l
      <4>2. ~(sp.start <= m[l].end)  BY <1>6, <4>1 DEF Last, l
      <4> QED  BY <1>1, <1>2, <2>2, <3>1, <4>2
    <3>2. CASE k # l
      <4>1. k \in 1..(l - 1) /\ k + 1 \in 1..l  BY <1>0, <3>2
      <4> QED  BY <1>3, <2>2, <4>1
    <3> QED  BY <3>1, <3>2
  <2>5. ASSUME NEW j \in 1..n PROVE Within(new, j) <=> Within(m, j) \/ (i <= j /\ j < sp.end)
    <3>1. ASSUME NEW k \in 1..(l + 1), new[k].start <= j, j < new[k].end
          PROVE  Within(m, j) \/ (i <= j /\ j < sp.end)
      <4>1. k \in 1..l \/ k = l + 1  BY <1>0
      <4> QED  BY <2>2, <3>1, <4>1 DEF Within, l
    <3>2. ASSUME NEW k \in 1..l, m[k].start <= j, j < m[k].end PROVE Within(new, j)
      <4>1. k \in 1..Len(new)  BY <1>0, <2>2
      <4> QED  BY <2>2, <3>2, <4>1 DEF Within
    <3>3. ASSUME i <= j, j < sp.end PROVE Within(new, j)
      <4>1. l + 1 \in 1..Len(new)  BY <1>0, <2>2
      <4> QED  BY <2>2, <3>3, <4>1 DEF Within
    <3> QED  BY <2>2, <3>1, <3>2, <3>3 DEF Within, l
  <2>6. Len(new) - 1 = l  BY <1>0, <2>2
  <2> QED  BY <1>0, <1>4, <2>2, <2>3, <2>4, <2>5, <2>6 DEF MergedOK, Apart, new
<1> QED  BY <1>5, <1>6

LEMMA LongestStarts ==
  ASSUME NEW n \in Nat, NEW S \in SUBSET Ranges(n), NEW i \in 1..n, ~(\A sp \in S : sp.start # i)
  PROVE  /\ longest(S, i) \in S /\ longest(S, i).start = i
         /\ \A o \in S : o.start = i => o.end <= longest(S, i).end
<1> DEFINE ends == {e \in 1..(n + 1) : \E sp \in S : sp.start = i /\ sp.end = e}
<1>1. \A sp \in S : sp.start = i => sp.end \in ends  BY DEF Ranges
<1>2. ends # {} /\ ends \in SUBSET (1..(n + 1))  BY <1>1
<1>3. n + 1 \in Nat  OBVIOUS
<1>4. PICK e \in ends : \A d \in ends : d <= e
  <2> HIDE DEF ends
  <2> QED  BY <1>2, <1>3, LastPlace
<1>5. PICK sp \in S : sp.start = i /\ sp.end = e  OBVIOUS
<1>6. \E sp2 \in S : sp2.start = i /\ \A o \in S : o.start = i => o.end <= sp2.end  BY <1>1, <1>4, <1>5
<1> QED  BY <1>6 DEF longest

LEMMA MergeNone ==
  ASSUME NEW n \in Nat, NEW S \in SUBSET Ranges(n), NEW i \in 1..n, \A sp \in S : sp.start # i,
         NEW m, MergedOK(n, S, i - 1, m)
  PROVE  MergedOK(n, S, i, m)
<1>0. ASSUME NEW o \in S PROVE o.start \in Int  BY DEF Ranges
<1>1. ASSUME NEW k \in 1..Len(m) PROVE m[k].start <= i
  <2>1. m[k] \in Ranges(n)  BY ElementOfSeq DEF MergedOK, Apart
  <2> QED  BY <2>1 DEF MergedOK, Ranges
<1>2. ASSUME NEW j \in 1..n PROVE Started(S, i, j) <=> Started(S, i - 1, j)
  <2>1. \A o \in S : o.start <= i <=> o.start <= i - 1  BY <1>0
  <2> QED  BY <2>1 DEF Started
<1> QED  BY <1>1, <1>2 DEF MergedOK

LEMMA MergeNothing ==
  ASSUME NEW n \in Nat, NEW S \in SUBSET Ranges(n)
  PROVE  MergedOK(n, S, 0, <<>>)
<1>1. <<>> \in Seq(Ranges(n)) /\ Len(<<>>) = 0  BY EmptySeq
<1>2. 1..0 = {} /\ 1..(0 - 1) = {}  OBVIOUS
<1>3. \A o \in S : ~(o.start <= 0)  BY DEF Ranges
<1>4. \A j \in 1..n : ~Started(S, 0, j)  BY <1>3 DEF Started
<1>5. \A j \in 1..n : ~Within(<<>>, j)  BY <1>1, <1>2 DEF Within
<1> QED  BY <1>1, <1>2, <1>4, <1>5 DEF MergedOK, Apart

(* What texts, before and after, are made of. *)
Letters == STRING \cup {":", Placeholder}

LEMMA FoundRanges ==
  ASSUME NEW s \in Seq(Letters), NEW forms, <<>> \notin forms
  PROVE  /\ Len(s) \in Nat /\ DOMAIN s = 1..Len(s)
         /\ found(s, forms) \in SUBSET Ranges(Len(s))
         /\ \A sp \in found(s, forms) : sp.start < sp.end
<1>1. Len(s) \in Nat /\ DOMAIN s = 1..Len(s)  BY LenProperties
<1>2. found(s, forms) \in SUBSET Ranges(Len(s))  BY <1>1 DEF found, Ranges
<1>3. ASSUME NEW sp \in found(s, forms) PROVE sp.start < sp.end
  <2>1. sp.start \in Int /\ sp.end \in Int  BY <1>2 DEF Ranges
  <2>2. SubSeq(s, sp.start, sp.end - 1) # <<>>  BY DEF found
  <2> SUFFICES ASSUME ~(sp.start < sp.end) PROVE FALSE  OBVIOUS
  <2>3. sp.end - 1 < sp.start /\ sp.end - 1 \in Int  BY <2>1
  <2> QED  BY <2>1, <2>2, <2>3, SubSeqEmpty
<1> QED  BY <1>1, <1>2, <1>3

(* The spans of a text do not touch, and hold the letters of every place   *)
(* where a form is found and no other.                                     *)
LEMMA SpansRight ==
  ASSUME NEW s \in Seq(Letters), NEW forms, <<>> \notin forms
  PROVE  MergedOK(Len(s), found(s, forms), Len(s), credentialSpans(s, forms))
<1> DEFINE n == Len(s)
           S == found(s, forms)
           T == Seq(Ranges(n))
           onward(i, m) == IF \A sp \in S : sp.start # i THEN m ELSE merge(m, longest(S, i))
           next == [p \in (1..n) \X T |-> onward(p[1], p[2])]
           Steps(f) == f = [i \in 0..n |-> IF i = 0 THEN <<>>
                                           ELSE IF \A sp \in S : sp.start # i THEN f[i - 1] ELSE merge(f[i - 1], longest(S, i))]
           merged == CHOOSE f : Steps(f)
<1>0. n \in Nat /\ S \in SUBSET Ranges(n) /\ \A sp \in S : sp.start < sp.end  BY FoundRanges
<1>1. credentialSpans(s, forms) = merged[n]  BY DEF credentialSpans
<1>2. ASSUME NEW i \in 1..n, NEW m \in T PROVE onward(i, m) \in T
  <2> HIDE DEF n, S
  <2>1. CASE \A sp \in S : sp.start # i  BY <2>1
  <2>2. CASE ~(\A sp \in S : sp.start # i)
    <3>1. longest(S, i) \in Ranges(n)  BY <1>0, <2>2, LongestStarts
    <3>2. merge(m, longest(S, i)) \in T  BY <1>0, <3>1, MergeType
    <3> QED  BY <2>2, <3>2
  <2> QED  BY <2>1, <2>2
<1>3. \E f : Steps(f)
  <2> HIDE DEF n, S, T, onward, merged
  <2>1. next \in [(1..n) \X T -> T]  BY <1>2
  <2>2. PICK a \in T : a = <<>>  BY EmptySeq DEF T
  <2>3. PICK f \in [0..n -> T] : Follows(f, a, n, next)
    <3> HIDE DEF next
    <3> QED  BY <1>0, <2>1, Recursion
  <2>4. ASSUME NEW i \in 0..n PROVE f[i] = IF i = 0 THEN <<>> ELSE onward(i, f[i - 1])
    <3>1. CASE i = 0  BY <2>2, <2>3, <3>1 DEF Follows
    <3>2. CASE i # 0
      <4>1. i \in 1..n /\ i - 1 \in 0..n  BY <1>0, <3>2
      <4>2. f[i - 1] \in T  BY <4>1
      <4>3. next[<<i, f[i - 1]>>] = onward(i, f[i - 1])  BY <4>1, <4>2
      <4> QED  BY <2>3, <3>2, <4>1, <4>3 DEF Follows
    <3> QED  BY <3>1, <3>2
  <2>5. f = [i \in 0..n |-> IF i = 0 THEN <<>> ELSE onward(i, f[i - 1])]  BY <2>4
  <2> QED  BY <2>5 DEF onward
<1>4. Steps(merged)
  <2> HIDE DEF Steps
  <2> QED  BY <1>3
<1>5. merged[0] = <<>> /\ \A i \in 1..n : merged[i] = onward(i, merged[i - 1])
  <2> HIDE DEF n, S, merged
  <2>1. 0 \in 0..n /\ \A i \in 1..n : i \in 0..n /\ i # 0  BY <1>0
  <2> QED  BY <1>4, <2>1
<1> HIDE DEF n, S, merged, Steps, next
<1> DEFINE Bad == {i \in 1..n : ~MergedOK(n, S, i, merged[i])}
<1>6. ASSUME NEW i \in 1..n, MergedOK(n, S, i - 1, merged[i - 1]) PROVE MergedOK(n, S, i, merged[i])
  <2>1. merged[i] = onward(i, merged[i - 1])  BY <1>5
  <2>2. CASE \A sp \in S : sp.start # i  BY <1>0, <1>6, <2>1, <2>2, MergeNone
  <2>3. CASE ~(\A sp \in S : sp.start # i)
    <3>1. /\ longest(S, i) \in S /\ longest(S, i).start = i
          /\ \A o \in S : o.start = i => o.end <= longest(S, i).end
      BY <1>0, <2>3, LongestStarts
    <3>2. PICK sp \in S : sp = longest(S, i)  BY <3>1
    <3>3. sp.start = i /\ sp.start < sp.end /\ \A o \in S : o.start = i => o.end <= sp.end  BY <1>0, <3>1, <3>2
    <3>4. merged[i] = merge(merged[i - 1], sp)  BY <2>1, <2>3, <3>2
    <3>5. MergedOK(n, S, i, merge(merged[i - 1], sp))  BY <1>0, <1>6, <3>3, MergeOne
    <3> QED  BY <3>4, <3>5
  <2> QED  BY <2>2, <2>3
<1>7. MergedOK(n, S, 0, merged[0])  BY <1>0, <1>5, MergeNothing
<1>8. Bad = {}
  <2> SUFFICES ASSUME Bad # {} PROVE FALSE  OBVIOUS
  <2>1. PICK i \in Bad : \A j \in Bad : i <= j  BY <1>0, FirstPlace
  <2>2. i \in 1..n /\ ~MergedOK(n, S, i, merged[i])  OBVIOUS
  <2>3. CASE i = 1  BY <1>6, <1>7, <2>2, <2>3
  <2>4. CASE i # 1
    <3>1. i - 1 \in 1..n /\ ~(i <= i - 1)  BY <1>0, <2>2, <2>4
    <3> QED  BY <1>6, <2>1, <2>2, <3>1
  <2> QED  BY <2>3, <2>4
<1>9. n = 0 \/ n \in 1..n  BY <1>0
<1> QED  BY <1>1, <1>7, <1>8, <1>9 DEF n, S

LEMMA ApartOrdered ==
  ASSUME NEW n \in Nat, NEW m, Apart(n, m), NEW p \in 1..Len(m), NEW q \in 1..Len(m), p < q
  PROVE  m[p].end < m[q].start
<1> DEFINE l == Len(m)
           Bad == {i \in 1..l : p < i /\ ~(m[p].end < m[i].start)}
<1>0. l \in Nat  BY DEF Apart
<1>1. ASSUME NEW k \in 1..l PROVE m[k].start \in Int /\ m[k].end \in Int /\ m[k].start < m[k].end
  <2>1. m[k] \in Ranges(n)  BY ElementOfSeq DEF Apart
  <2> QED  BY <2>1, SMTT(30) DEF Ranges, Apart
<1>2. \A k \in 1..(l - 1) : m[k].end < m[k + 1].start  BY DEF Apart
<1>3. Bad = {}
  <2> SUFFICES ASSUME Bad # {} PROVE FALSE  OBVIOUS
  <2>1. PICK i \in Bad : \A j \in Bad : i <= j  BY <1>0, FirstPlace
  <2>2. i \in 1..l /\ p < i /\ ~(m[p].end < m[i].start)  OBVIOUS
  <2>3. i - 1 \in 1..(l - 1) /\ i - 1 \in 1..l /\ (i - 1) + 1 = i  BY <1>0, <2>2
  <2>4. m[i - 1].end < m[i].start  BY <1>2, <2>3
  <2>5. i - 1 # p  BY <2>2, <2>4
  <2>6. p < i - 1 /\ ~(i <= i - 1)  BY <2>2, <2>5
  <2>7. m[p].end < m[i - 1].start  BY <2>1, <2>3, <2>6
  <2> QED  BY <1>1, <2>2, <2>3, <2>4, <2>7, SMTT(30)
<1> QED  BY <1>3

(* What ProxySettingsKept says a letter of a text leaves as, and what the  *)
(* first letters do together.                                              *)
LeavesAs(s, secret, i) ==
  IF i \notin secret THEN <<s[i]>> ELSE IF i - 1 \notin secret THEN <<Placeholder>> ELSE <<>>
Leaving(s, secret, g) ==
  /\ g \in [0..Len(s) -> Seq(Letters)]
  /\ g[0] = <<>>
  /\ \A i \in 1..Len(s) : g[i] = g[i - 1] \o LeavesAs(s, secret, i)

(* What has left by the letter a is followed by the letters up to b. *)
Extends(g, s, a, b) == g[b] = g[a] \o SubSeq(s, a + 1, b)

LEMMA JoinThree ==
  ASSUME NEW x \in Seq(Letters), NEW y \in Seq(Letters), NEW z \in Seq(Letters)
  PROVE  (x \o y) \o z = x \o (y \o z)
BY ConcatAssociative

LEMMA StretchKept ==
  ASSUME NEW s \in Seq(Letters), NEW secret, NEW g, Leaving(s, secret, g),
         NEW a \in 0..Len(s), NEW b \in 0..Len(s), a <= b, \A j \in (a + 1)..b : j \notin secret
  PROVE  Extends(g, s, a, b)
<1> DEFINE n == Len(s)
           part(i) == SubSeq(s, a + 1, i)
           Bad == {i \in 1..n : a <= i /\ i <= b /\ g[i] # g[a] \o part(i)}
<1>0. n \in Nat /\ \A i \in 0..n : g[i] \in Seq(Letters)  BY LenProperties DEF Leaving
<1>1. g[a] = g[a] \o part(a)
  <2>1. part(a) = <<>>  BY <1>0, SubSeqEmpty
  <2>2. g[a] \in Seq(Letters)  BY <1>0
  <2> QED  BY <2>1, <2>2, ConcatEmptySeq
<1>2. ASSUME NEW i \in 1..n, a < i, i <= b, g[i - 1] = g[a] \o part(i - 1) PROVE g[i] = g[a] \o part(i)
  <2>0. i \notin secret  BY <1>0, <1>2
  <2>1. g[i] = g[i - 1] \o <<s[i]>>
    <3>1. LeavesAs(s, secret, i) = <<s[i]>>  BY <2>0 DEF LeavesAs
    <3> QED  BY <3>1 DEF Leaving
  <2>2. a + 1 \in 1..n /\ i \in (a + 1)..n /\ i - 1 \in Int /\ a + 1 \in Int  BY <1>0, <1>2
  <2>3. part(i) = part(i - 1) \o <<s[i]>>  BY <2>2, SubSeqRecursiveSecond
  <2>4. s[i] \in Letters  BY <1>2, ElementOfSeq
  <2>5. \A j \in (a + 1)..(i - 1) : s[j] \in Letters
    <3> TAKE j \in (a + 1)..(i - 1)
    <3>1. j \in 1..n  BY <1>0, <1>2
    <3> QED  BY <3>1, ElementOfSeq
  <2>6. part(i - 1) \in Seq(Letters)  BY <2>2, <2>5, SubSeqProperties
  <2>7. <<s[i]>> \in Seq(Letters) /\ g[a] \in Seq(Letters)  BY <1>0, <2>4
  <2> HIDE DEF part
  <2>8. PICK x \in Seq(Letters), y \in Seq(Letters), z \in Seq(Letters) : x = g[a] /\ y = part(i - 1) /\ z = <<s[i]>>
    BY <2>6, <2>7
  <2>9. (x \o y) \o z = x \o (y \o z)  BY JoinThree, ZenonT(60)
  <2> QED  BY <1>2, <2>1, <2>3, <2>8, <2>9
<1>3. Bad = {}
  <2> SUFFICES ASSUME Bad # {} PROVE FALSE  OBVIOUS
  <2>1. PICK i \in Bad : \A j \in Bad : i <= j  BY <1>0, FirstPlace
  <2>2. i \in 1..n /\ a <= i /\ i <= b /\ g[i] # g[a] \o part(i)  OBVIOUS
  <2> HIDE DEF part
  <2>6. i # a  BY <1>1, <2>2
  <2>3. a < i  BY <1>0, <2>2, <2>6
  <2>4. CASE i - 1 = a  BY <1>1, <1>2, <2>2, <2>3, <2>4
  <2>5. CASE i - 1 # a
    <3>1. i - 1 \in 1..n /\ a <= i - 1 /\ i - 1 <= b /\ ~(i <= i - 1)  BY <1>0, <2>2, <2>3, <2>5
    <3>2. g[i - 1] = g[a] \o part(i - 1)  BY <2>1, <3>1
    <3> QED  BY <1>2, <2>2, <2>3, <3>2
  <2> QED  BY <2>4, <2>5
<1>4. b = a \/ b \in 1..n  BY <1>0
<1>5. a <= b /\ b <= b  BY <1>0
<1> HIDE DEF part
<1>6. g[b] = g[a] \o part(b)  BY <1>1, <1>3, <1>4, <1>5
<1> QED  BY <1>6 DEF part, Extends

LEMMA StretchMasked ==
  ASSUME NEW s \in Seq(Letters), NEW secret, NEW g, Leaving(s, secret, g),
         NEW a \in 0..Len(s), NEW b \in (a + 1)..Len(s), a \notin secret, \A j \in (a + 1)..b : j \in secret
  PROVE  g[b] = g[a] \o <<Placeholder>>
<1> DEFINE n == Len(s)
           Bad == {i \in 1..n : a < i /\ i <= b /\ g[i] # g[a] \o <<Placeholder>>}
<1>0. n \in Nat /\ \A i \in 0..n : g[i] \in Seq(Letters)  BY LenProperties DEF Leaving
<1>1. g[a + 1] = g[a] \o <<Placeholder>>
  <2>1. a + 1 \in 1..n /\ a + 1 \in (a + 1)..b /\ (a + 1) - 1 = a  BY <1>0
  <2> QED  BY <2>1 DEF Leaving, LeavesAs
<1>2. ASSUME NEW i \in 1..n, a + 1 < i, i <= b PROVE g[i] = g[i - 1]
  <2>1. i \in secret /\ i - 1 \in secret  BY <1>0, <1>2
  <2>2. g[i] = g[i - 1] \o <<>>  BY <2>1 DEF Leaving, LeavesAs
  <2>3. g[i - 1] \in Seq(Letters)  BY <1>0
  <2> QED  BY <2>2, <2>3, ConcatEmptySeq
<1>3. Bad = {}
  <2> SUFFICES ASSUME Bad # {} PROVE FALSE  OBVIOUS
  <2>1. PICK i \in Bad : \A j \in Bad : i <= j  BY <1>0, FirstPlace
  <2>2. i \in 1..n /\ a < i /\ i <= b /\ g[i] # g[a] \o <<Placeholder>>  OBVIOUS
  <2>6. i # a + 1  BY <1>1, <2>2
  <2>3. a + 1 < i  BY <1>0, <2>2, <2>6
  <2>4. i - 1 \in 1..n /\ a < i - 1 /\ i - 1 <= b /\ ~(i <= i - 1)  BY <1>0, <2>2, <2>3
  <2>5. g[i - 1] = g[a] \o <<Placeholder>>  BY <2>1, <2>4
  <2> QED  BY <1>2, <2>2, <2>3, <2>5
<1>4. b \in 1..n /\ a < b /\ b <= b  BY <1>0
<1> QED  BY <1>3, <1>4

LEMMA OneLetter ==
  ASSUME NEW x \in Letters
  PROVE  <<x>> \in Seq(Letters)
OBVIOUS

LEMMA PlaceholderType == Placeholder \in Letters
BY DEF Letters

LEMMA LeavesType ==
  ASSUME NEW s \in Seq(Letters), NEW secret, NEW i \in 1..Len(s)
  PROVE  LeavesAs(s, secret, i) \in Seq(Letters)
<1>1. s[i] \in Letters  BY ElementOfSeq
<1>2. <<s[i]>> \in Seq(Letters)  BY <1>1, OneLetter
<1>3. <<Placeholder>> \in Seq(Letters)  BY PlaceholderType, OneLetter
<1>4. <<>> \in Seq(Letters)  BY EmptySeq
<1> QED  BY <1>2, <1>3, <1>4 DEF LeavesAs

(* Where the k-th span ends, and the text begins where there is none. *)
Edge(m, k) == IF k = 0 THEN 1 ELSE m[k].end

LEMMA EdgeParts ==
  ASSUME NEW n \in Nat, NEW m, Apart(n, m)
  PROVE  /\ Len(m) \in Nat
         /\ \A k \in 0..Len(m) : Edge(m, k) \in 1..(n + 1)
         /\ \A k \in 1..Len(m) : /\ m[k].start \in 1..n /\ m[k].end \in 1..(n + 1)
                                 /\ Edge(m, k - 1) <= m[k].start /\ m[k].start < m[k].end
                                 /\ k # 1 => Edge(m, k - 1) < m[k].start
<1>1. Len(m) \in Nat  BY DEF Apart
<1>2. ASSUME NEW k \in 1..Len(m)
      PROVE  m[k].start \in 1..n /\ m[k].end \in 1..(n + 1) /\ m[k].start < m[k].end
  <2>1. m[k] \in Ranges(n)  BY ElementOfSeq DEF Apart
  <2> QED  BY <2>1 DEF Apart, Ranges
<1>3. ASSUME NEW k \in 0..Len(m) PROVE Edge(m, k) \in 1..(n + 1)
  <2>1. k = 0 \/ k \in 1..Len(m)  BY <1>1
  <2> QED  BY <1>2, <2>1 DEF Edge
<1>4. ASSUME NEW k \in 1..Len(m), k # 1 PROVE Edge(m, k - 1) < m[k].start
  <2>1. k - 1 \in 1..(Len(m) - 1) /\ k - 1 # 0 /\ (k - 1) + 1 = k  BY <1>1, <1>4
  <2>2. m[k - 1].end < m[(k - 1) + 1].start  BY <2>1 DEF Apart
  <2> QED  BY <2>1, <2>2 DEF Edge
<1>5. ASSUME NEW k \in 1..Len(m) PROVE Edge(m, k - 1) <= m[k].start
  <2>1. CASE k = 1  BY <1>2, <2>1 DEF Edge
  <2>2. CASE k # 1
    <3>1. k - 1 \in 0..Len(m)  BY <1>1
    <3> QED  BY <1>2, <1>3, <1>4, <2>2, <3>1
  <2> QED  BY <2>1, <2>2
<1> QED  BY <1>1, <1>2, <1>3, <1>4, <1>5

(* Between two spans, and after the last, no letter is in a span. *)
LEMMA GapsAreClear ==
  ASSUME NEW n \in Nat, NEW m, Apart(n, m), NEW k \in 0..Len(m), NEW j \in 1..n, Edge(m, k) <= j,
         k < Len(m) => j < m[k + 1].start
  PROVE  ~Within(m, j)
<1> SUFFICES ASSUME NEW q \in 1..Len(m), m[q].start <= j, j < m[q].end PROVE FALSE  BY DEF Within
<1>0. Len(m) \in Nat /\ \A p \in 1..Len(m) : m[p].start \in Int /\ m[p].end \in Int /\ m[p].start < m[p].end
  <2>1. Len(m) \in Nat  BY EdgeParts
  <2>2. ASSUME NEW p \in 1..Len(m) PROVE m[p].start \in Int /\ m[p].end \in Int /\ m[p].start < m[p].end
    <3>1. m[p].start \in 1..n /\ m[p].end \in 1..(n + 1) /\ m[p].start < m[p].end  BY EdgeParts
    <3> QED  BY <3>1
  <2> QED  BY <2>1, <2>2
<1>1. CASE q <= k
  <2>1. k \in 1..Len(m) /\ k # 0  BY <1>0, <1>1
  <2>2. m[k].end <= j  BY <2>1 DEF Edge
  <2>3. CASE q = k  BY <1>0, <2>2, <2>3
  <2>4. CASE q # k
    <3>1. q < k  BY <1>0, <1>1, <2>4
    <3>2. m[q].end < m[k].start  BY <2>1, <3>1, ApartOrdered
    <3> QED  BY <1>0, <2>1, <2>2, <3>2
  <2> QED  BY <2>3, <2>4
<1>2. CASE ~(q <= k)
  <2>1. k + 1 \in 1..Len(m) /\ k + 1 <= q /\ k < Len(m)  BY <1>0, <1>2
  <2>2. j < m[k + 1].start  BY <2>1
  <2>3. CASE q = k + 1  BY <1>0, <2>1, <2>2, <2>3
  <2>4. CASE q # k + 1
    <3>1. k + 1 < q  BY <1>0, <2>1, <2>4
    <3>2. m[k + 1].end < m[q].start  BY <2>1, <3>1, ApartOrdered
    <3> QED  BY <1>0, <2>1, <2>2, <3>2
  <2> QED  BY <2>3, <2>4
<1> QED  BY <1>1, <1>2

(* The k-th turn of Scrub's loop, said of what has left. *)
Writes(s, m, g, k) ==
  g[Edge(m, k) - 1] = g[Edge(m, k - 1) - 1] \o Append(SubSeq(s, Edge(m, k - 1), m[k].start - 1), Placeholder)

LEMMA Bounds ==
  ASSUME NEW n \in Nat, NEW e \in 1..(n + 1), NEW f \in 1..n, NEW h \in 1..(n + 1), e <= f, f < h
  PROVE  /\ e - 1 \in 0..n /\ f - 1 \in 0..n /\ e - 1 <= f - 1 /\ h - 1 \in ((f - 1) + 1)..n
         /\ (e - 1) + 1 = e /\ (f - 1) + 1 = f /\ (h - 1) + 1 = h
OBVIOUS

(* What Scrub has written with a span is what the letters up to its end    *)
(* leave as.                                                               *)
LEMMA SpanWritten ==
  ASSUME NEW s \in Seq(Letters), NEW m, Apart(Len(s), m), NEW secret, \A j \in 0..Len(s) : j \in secret <=> j # 0 /\ Within(m, j),
         NEW g, Leaving(s, secret, g), NEW k \in 1..Len(m)
  PROVE  Writes(s, m, g, k)
<1> DEFINE n == Len(s)
           a == Edge(m, k - 1) - 1
           b == m[k].start - 1
           c == Edge(m, k) - 1
<1>0. n \in Nat /\ Len(m) \in Nat  BY LenProperties, EdgeParts
<1>1. /\ k - 1 \in 0..Len(m) /\ Edge(m, k - 1) \in 1..(n + 1)
      /\ m[k].start \in 1..n /\ m[k].end \in 1..(n + 1) /\ Edge(m, k - 1) <= m[k].start /\ m[k].start < m[k].end
      /\ k # 1 => Edge(m, k - 1) < m[k].start
  <2>1. k - 1 \in 0..Len(m)  BY <1>0
  <2> QED  BY <1>0, <2>1, EdgeParts
<1>2. Edge(m, k) = m[k].end  BY DEF Edge
<1>3. a \in 0..n /\ b \in 0..n /\ a <= b /\ c \in (b + 1)..n /\ a + 1 = Edge(m, k - 1)
  <2>1. PICK e \in 1..(n + 1), f \in 1..n, h \in 1..(n + 1) : e = Edge(m, k - 1) /\ f = m[k].start /\ h = m[k].end  BY <1>1
  <2>2. e <= f /\ f < h  BY <1>1, <2>1
  <2>3. a = e - 1 /\ b = f - 1 /\ c = h - 1  BY <1>2, <2>1
  <2> HIDE DEF a, b, c, n
  <2>4. /\ e - 1 \in 0..n /\ f - 1 \in 0..n /\ e - 1 <= f - 1 /\ h - 1 \in ((f - 1) + 1)..n
        /\ (e - 1) + 1 = e
    BY <1>0, <2>2, Bounds
  <2> QED  BY <2>1, <2>3, <2>4
<1>4. ASSUME NEW j \in 1..n, Edge(m, k - 1) <= j, j < m[k].start PROVE j \notin secret
  <2>1. (k - 1) + 1 = k  BY <1>0
  <2>2. ~Within(m, j)  BY <1>0, <1>1, <1>4, <2>1, GapsAreClear
  <2>3. j \in 0..n  BY <1>0
  <2> QED  BY <2>2, <2>3
<1>5. b \notin secret
  <2>1. CASE b = 0  BY <1>3, <2>1
  <2>2. CASE b # 0
    <3>1. b \in 1..n /\ b < m[k].start  BY <1>0, <1>1, <1>3, <2>2, SMTT(30)
    <3>2. Edge(m, k - 1) <= b
      <4>1. CASE k # 1  BY <1>1, <4>1
      <4>2. CASE k = 1  BY <3>1, <4>2 DEF Edge
      <4> QED  BY <4>1, <4>2
    <3> QED  BY <1>4, <3>1, <3>2
  <2> QED  BY <2>1, <2>2
<1>6. \A j \in (a + 1)..b : j \notin secret
  <2> TAKE j \in (a + 1)..b
  <2>1. a + 1 = Edge(m, k - 1) /\ b + 1 = m[k].start  BY <1>0, <1>1
  <2>2. j \in Int /\ a + 1 <= j /\ j <= b  BY <1>0, <1>3
  <2>3. j \in 1..n /\ Edge(m, k - 1) <= j /\ j < m[k].start
    <3> HIDE DEF a, b, c, n
    <3> QED  BY <1>0, <1>1, <1>3, <2>1, <2>2
  <2> QED  BY <1>4, <2>3
<1>7. \A j \in (b + 1)..c : j \in secret
  <2> TAKE j \in (b + 1)..c
  <2>3. b + 1 = m[k].start /\ c + 1 = m[k].end  BY <1>0, <1>1, <1>2
  <2>4. j \in Int /\ b + 1 <= j /\ j <= c  BY <1>0, <1>3
  <2>1. j \in 0..n /\ j # 0 /\ m[k].start <= j /\ j < m[k].end
    <3> HIDE DEF a, b, c, n
    <3> QED  BY <1>0, <1>1, <1>3, <2>3, <2>4
  <2>2. Within(m, j)  BY <2>1 DEF Within
  <2> QED  BY <2>1, <2>2
<1>8. /\ g[a] \in Seq(Letters) /\ SubSeq(s, a + 1, b) \in Seq(Letters) /\ Placeholder \in Letters
  <2>1. \A j \in (a + 1)..b : s[j] \in Letters
    <3> TAKE j \in (a + 1)..b
    <3>1. j \in 1..n  BY <1>0, <1>3
    <3> QED  BY <3>1, ElementOfSeq
  <2>2. a + 1 \in Int /\ b \in Int  BY <1>0, <1>3
  <2>3. SubSeq(s, a + 1, b) \in Seq(Letters)  BY <2>1, <2>2, SubSeqProperties
  <2>4. g[a] \in Seq(Letters)
    <3> HIDE DEF a
    <3> QED  BY <1>3 DEF Leaving
  <2> QED  BY <2>3, <2>4, PlaceholderType
<1>15. g[b] = g[a] \o SubSeq(s, a + 1, b)
  <2> HIDE DEF a, b, c
  <2>1. a \in 0..Len(s) /\ b \in 0..Len(s) /\ a <= b  BY <1>3
  <2>2. Extends(g, s, a, b)  BY <1>6, <2>1, StretchKept
  <2> QED  BY <2>2 DEF Extends
<1> HIDE DEF a, b, c
<1>9. g[b] = g[a] \o SubSeq(s, a + 1, b)  BY <1>15
<1>10. g[c] = g[b] \o <<Placeholder>>  BY <1>3, <1>5, <1>7, StretchMasked DEF n
<1>11. PICK x \in Seq(Letters), y \in Seq(Letters), z \in Seq(Letters) : x = g[a] /\ y = SubSeq(s, a + 1, b) /\ z = <<Placeholder>>
  BY <1>8, OneLetter
<1>12. (x \o y) \o z = x \o (y \o z)  BY JoinThree
<1>13. y \o z = Append(y, Placeholder)  BY <1>8, <1>11, AppendIsConcat
<1>14. g[c] = g[a] \o Append(SubSeq(s, a + 1, b), Placeholder)  BY <1>9, <1>10, <1>11, <1>12, <1>13
<1> QED  BY <1>3, <1>14 DEF a, b, c, Writes

(* Scrub: of any text and any forms, exactly the letters that no form      *)
(* found in the text covers are left, and a placeholder for every stretch. *)
LEMMA ScrubRight ==
  ASSUME NEW s \in Seq(Letters), NEW forms, <<>> \notin forms,
         NEW secret, secret = {j \in DOMAIN s : Started(found(s, forms), Len(s), j)}
  PROVE  Scrub(s, forms) = FlattenSeq([i \in DOMAIN s |-> LeavesAs(s, secret, i)])
<1> DEFINE n == Len(s)
           m == credentialSpans(s, forms)
           l == Len(m)
           between(i) == SubSeq(s, IF i = 1 THEN 1 ELSE m[i - 1].end, m[i].start - 1)
           last == IF m = <<>> THEN 1 ELSE Last(m).end
           parts == [i \in DOMAIN m |-> Append(between(i), Placeholder)]
           pieces == [i \in DOMAIN s |-> LeavesAs(s, secret, i)]
<1>0. n \in Nat /\ DOMAIN s = 1..n  BY FoundRanges
<1>1. MergedOK(n, found(s, forms), n, m)  BY SpansRight
<1>2. Apart(n, m) /\ \A j \in 1..n : Within(m, j) <=> Started(found(s, forms), n, j)
  <2> HIDE DEF m, n
  <2> QED  BY <1>1 DEF MergedOK
<1>3. \A j \in 0..n : j \in secret <=> j # 0 /\ Within(m, j)
  <2> HIDE DEF m
  <2> QED  BY <1>0, <1>2
<1>4. Scrub(s, forms) = FlattenSeq(parts) \o SubSeq(s, last, n)  BY DEF Scrub
<1> HIDE DEF m
<1>5. m \in Seq(Ranges(n)) /\ l \in Nat /\ DOMAIN m = 1..l  BY <1>2, LenProperties DEF Apart
<1>6. pieces \in Seq(Seq(Letters)) /\ Len(pieces) = n
  <2>1. pieces \in [1..n -> Seq(Letters)]  BY <1>0, LeavesType
  <2> HIDE DEF pieces, n
  <2> QED  BY <1>0, <2>1
<1>7. PICK g : Leaving(s, secret, g) /\ FlattenSeq(pieces) = g[n]
  <2> DEFINE T == Letters
  <2>1. PICK g \in [0..Len(pieces) -> Seq(Letters)] :
          /\ g[0] = <<>>
          /\ \A i \in 1..Len(pieces) : g[i] = g[i - 1] \o pieces[i]
          /\ FlattenSeq(pieces) = g[Len(pieces)]
    <3> HIDE DEF pieces
    <3> QED  BY <1>6, FlattenSteps
  <2>2. \A i \in 1..n : pieces[i] = LeavesAs(s, secret, i)  BY <1>0
  <2> HIDE DEF pieces
  <2>3. Leaving(s, secret, g)  BY <1>6, <2>1, <2>2 DEF Leaving
  <2> QED  BY <1>6, <2>1, <2>3
<1>8. ASSUME NEW k \in 1..l
      PROVE  between(k) = SubSeq(s, Edge(m, k - 1), m[k].start - 1) /\ between(k) \in Seq(Letters)
  <2>1. Edge(m, k - 1) = IF k = 1 THEN 1 ELSE m[k - 1].end  BY <1>5 DEF Edge
  <2>2. k - 1 \in 0..l  BY <1>5
  <2>3. Edge(m, k - 1) \in 1..(n + 1) /\ m[k].start \in 1..n  BY <1>0, <1>2, <2>2, EdgeParts
  <2>4. \A j \in Edge(m, k - 1)..(m[k].start - 1) : s[j] \in Letters
    <3> TAKE j \in Edge(m, k - 1)..(m[k].start - 1)
    <3>1. j \in 1..n  BY <1>0, <2>3
    <3> QED  BY <3>1, ElementOfSeq
  <2>5. Edge(m, k - 1) \in Int /\ m[k].start - 1 \in Int  BY <2>3
  <2>6. SubSeq(s, Edge(m, k - 1), m[k].start - 1) \in Seq(Letters)  BY <2>4, <2>5, SubSeqProperties
  <2> QED  BY <2>1, <2>6
<1>9. parts \in Seq(Seq(Letters)) /\ Len(parts) = l /\ \A k \in 1..l : parts[k] = Append(between(k), Placeholder)
  <2>1. ASSUME NEW k \in 1..l PROVE Append(between(k), Placeholder) \in Seq(Letters)
    <3>1. between(k) \in Seq(Letters)  BY <1>8
    <3> HIDE DEF between
    <3> QED  BY <3>1, PlaceholderType, AppendProperties
  <2> HIDE DEF between, l
  <2>2. parts \in [1..l -> Seq(Letters)]  BY <1>5, <2>1
  <2>3. \A k \in 1..l : parts[k] = Append(between(k), Placeholder)  BY <1>5
  <2> HIDE DEF parts
  <2> QED  BY <1>5, <2>2, <2>3
<1>10. PICK h \in [0..l -> Seq(Letters)] :
         h[0] = <<>> /\ (\A k \in 1..l : h[k] = h[k - 1] \o parts[k]) /\ FlattenSeq(parts) = h[l]
  <2> HIDE DEF parts, l
  <2>1. PICK h \in [0..Len(parts) -> Seq(Letters)] :
          /\ h[0] = <<>>
          /\ \A k \in 1..Len(parts) : h[k] = h[k - 1] \o parts[k]
          /\ FlattenSeq(parts) = h[Len(parts)]
    BY <1>9, FlattenSteps
  <2> QED  BY <1>9, <2>1
<1>11. ASSUME NEW k \in 1..l PROVE h[k] = h[k - 1] \o Append(SubSeq(s, Edge(m, k - 1), m[k].start - 1), Placeholder)
  <2> HIDE DEF parts, between, l
  <2> QED  BY <1>8, <1>9, <1>10
<1>12. \A k \in 0..l : h[k] = g[Edge(m, k) - 1]
  <2> HIDE DEF parts, between, pieces, n
  <2> DEFINE Bad == {k \in 1..l : h[k] # g[Edge(m, k) - 1]}
  <2>1. h[0] = g[Edge(m, 0) - 1]
    <3>1. Edge(m, 0) - 1 = 0  BY DEF Edge
    <3> QED  BY <1>7, <1>10, <3>1 DEF Leaving
  <2>2. ASSUME NEW k \in 1..l, h[k - 1] = g[Edge(m, k - 1) - 1] PROVE h[k] = g[Edge(m, k) - 1]
    <3>1. Writes(s, m, g, k)  BY <1>2, <1>3, <1>7, SpanWritten DEF n
    <3> QED  BY <1>11, <2>2, <3>1 DEF Writes
  <2>3. Bad = {}
    <3> SUFFICES ASSUME Bad # {} PROVE FALSE  OBVIOUS
    <3>1. PICK k \in Bad : \A j \in Bad : k <= j  BY <1>5, FirstPlace
    <3>2. k \in 1..l /\ h[k] # g[Edge(m, k) - 1]  OBVIOUS
    <3>3. CASE k = 1  BY <2>1, <2>2, <3>2, <3>3
    <3>4. CASE k # 1
      <4>1. k - 1 \in 1..l /\ ~(k <= k - 1)  BY <1>5, <3>2, <3>4
      <4>2. h[k - 1] = g[Edge(m, k - 1) - 1]  BY <3>1, <4>1
      <4> QED  BY <2>2, <3>2, <4>2
    <3> QED  BY <3>3, <3>4
  <2>4. \A k \in 0..l : k = 0 \/ k \in 1..l  BY <1>5
  <2> QED  BY <2>1, <2>3, <2>4
<1>13. last = Edge(m, l)
  <2>1. m = <<>> <=> l = 0  BY <1>5, EmptySeq
  <2> QED  BY <2>1 DEF Edge, Last
<1>14. last \in 1..(n + 1)
  <2>1. l \in 0..l  BY <1>5
  <2> HIDE DEF last
  <2> QED  BY <1>0, <1>2, <1>13, <2>1, EdgeParts
<1>15. g[n] = g[last - 1] \o SubSeq(s, last, n)
  <2> HIDE DEF last, parts, pieces, between
  <2>1. last - 1 \in 0..n /\ n \in 0..n /\ last - 1 <= n /\ (last - 1) + 1 = last  BY <1>0, <1>14
  <2>2. \A j \in ((last - 1) + 1)..n : j \notin secret
    <3> TAKE j \in ((last - 1) + 1)..n
    <3>1. j \in 1..n /\ last <= j /\ j \in 0..n  BY <1>0, <1>14
    <3>2. l \in 0..Len(m) /\ ~(l < Len(m))  BY <1>5
    <3>3. ~Within(m, j)  BY <1>0, <1>2, <1>13, <3>1, <3>2, GapsAreClear
    <3> QED  BY <1>3, <3>1, <3>3
  <2> DEFINE a == last - 1
  <2>3. a \in 0..Len(s) /\ Len(s) \in 0..Len(s) /\ a <= Len(s) /\ \A j \in (a + 1)..Len(s) : j \notin secret
    BY <2>1, <2>2
  <2>4. Extends(g, s, a, Len(s))
    <3> HIDE DEF a
    <3> QED  BY <1>7, <2>3, StretchKept
  <2> QED  BY <2>1, <2>4 DEF Extends
<1>16. h[l] = g[last - 1]
  <2>1. l \in 0..l  BY <1>5
  <2> HIDE DEF last, parts, pieces, between
  <2> QED  BY <1>12, <1>13, <2>1
<1> HIDE DEF last, parts, pieces, between
<1>17. Scrub(s, forms) = FlattenSeq(pieces)  BY <1>4, <1>7, <1>10, <1>15, <1>16
<1> QED  BY <1>17 DEF pieces

(* The letters that ProxySettingsKept takes for covered are those of the   *)
(* places where found finds a form.                                        *)
LEMMA CoveredFound ==
  ASSUME NEW s \in Seq(Letters), Secrets \subseteq Seq(Letters), <<>> \notin Secrets
  PROVE  Covered(s) = {j \in DOMAIN s : Started(found(s, Secrets), Len(s), j)}
<1> DEFINE n == Len(s)
<1>0. /\ n \in Nat /\ DOMAIN s = 1..n /\ found(s, Secrets) \in SUBSET Ranges(n)
      /\ \A sp \in found(s, Secrets) : sp.start < sp.end
  BY FoundRanges
<1>1. ASSUME NEW j \in DOMAIN s, NEW f \in Secrets, NEW i \in 1..j, j < i + Len(f), i + Len(f) <= n + 1,
             SubSeq(s, i, i + Len(f) - 1) = f
      PROVE  Started(found(s, Secrets), n, j)
  <2>1. Len(f) \in Nat  BY LenProperties
  <2> DEFINE sp == [start |-> i, end |-> i + Len(f)]
  <2>2. sp \in [start : DOMAIN s, end : 1..(n + 1)]  BY <1>0, <1>1, <2>1
  <2>3. sp.start = i /\ sp.end = i + Len(f)  OBVIOUS
  <2>4. sp \in found(s, Secrets)
    <3>1. SubSeq(s, sp.start, sp.end - 1) = f  BY <1>1, <2>3
    <3> HIDE DEF sp
    <3> QED  BY <2>2, <3>1 DEF found
  <2>5. sp.start <= n /\ sp.start <= j /\ j < sp.end  BY <1>0, <1>1, <2>1, <2>3
  <2> HIDE DEF sp
  <2> QED  BY <2>4, <2>5 DEF Started
<1>2. ASSUME NEW j \in DOMAIN s, NEW sp \in found(s, Secrets), sp.start <= j, j < sp.end
      PROVE  \E f \in Secrets : \E i \in 1..j :
               j < i + Len(f) /\ i + Len(f) <= n + 1 /\ SubSeq(s, i, i + Len(f) - 1) = f
  <2>1. PICK i \in 1..n, e \in 1..(n + 1) : i = sp.start /\ e = sp.end  BY <1>0 DEF Ranges
  <2>2. PICK f \in Secrets : SubSeq(s, i, e - 1) = f  BY <2>1 DEF found
  <2>3. i < e /\ i <= j /\ j < e  BY <1>0, <1>2, <2>1
  <2>4. \A k \in i..(e - 1) : s[k] \in Letters
    <3> TAKE k \in i..(e - 1)
    <3>1. k \in 1..n  BY <1>0, <2>1
    <3> QED  BY <3>1, ElementOfSeq
  <2>5. i \in Int /\ e - 1 \in Int  BY <2>1
  <2>6. Len(f) = IF i <= e - 1 THEN (e - 1) - i + 1 ELSE 0  BY <2>2, <2>4, <2>5, SubSeqProperties
  <2>7. Len(f) = e - i  BY <1>0, <2>1, <2>3, <2>6
  <2>8. i + Len(f) = e /\ i \in 1..j  BY <1>0, <2>1, <2>3, <2>7
  <2>9. j < i + Len(f) /\ i + Len(f) <= n + 1  BY <1>0, <2>1, <2>3, <2>8
  <2>10. SubSeq(s, i, i + Len(f) - 1) = f  BY <2>2, <2>8
  <2> QED  BY <2>8, <2>9, <2>10
<1>3. ASSUME NEW j \in DOMAIN s PROVE j \in Covered(s) <=> Started(found(s, Secrets), n, j)
  <2>1. ASSUME j \in Covered(s) PROVE Started(found(s, Secrets), n, j)
    <3>1. \E f \in Secrets : \E i \in 1..j : j < i + Len(f) /\ i + Len(f) <= n + 1 /\ SubSeq(s, i, i + Len(f) - 1) = f
      BY <2>1 DEF Covered
    <3> QED  BY <1>1, <3>1
  <2>2. ASSUME Started(found(s, Secrets), n, j) PROVE j \in Covered(s)
    <3>1. PICK sp \in found(s, Secrets) : sp.start <= j /\ j < sp.end  BY <2>2 DEF Started
    <3> QED  BY <1>2, <3>1 DEF Covered
  <2> QED  BY <2>1, <2>2
<1> QED  BY <1>3 DEF Covered
-----------------------------------------------------------------------------
(* The forms of a user's credential. *)
FormsOf(u) ==
  {BasicToken[Pair(u)], Pair(u)} \cup {w \in {u.name, u.password, u.spelled} : Len(w) >= minScrubbedCredentialLen}

LEMMA PlainForms ==
  ASSUME NEW S, NEW w \in Seq(S)
  PROVE  plainForms(w) = {x \in {w} : Len(x) >= minScrubbedCredentialLen}
<1>1. Len(w) \in Nat  BY LenProperties
<1> QED  BY <1>1 DEF plainForms, minScrubbedCredentialLen

LEMMA CredentialForms ==
  ASSUME NEW raw \in Settings, raw.user # Unset, Pair(raw.user) # <<":">>
  PROVE  credentialForms(raw) = FormsOf(raw.user)
<1>1. raw # Unset  BY UnsetAssumption
<1>2. raw.user \in Users  BY DEF Settings
<1>3. PICK a \in Seq(STRING), b \in Seq(STRING), c \in Seq(STRING) : a = raw.user.name /\ b = raw.user.password /\ c = raw.user.spelled
  BY <1>2 DEF Users
<1>4. UNION {plainForms(w) : w \in {a, b, c}} = plainForms(a) \cup plainForms(b) \cup plainForms(c)  OBVIOUS
<1>5. plainForms(a) \cup plainForms(b) \cup plainForms(c) = {w \in {a, b, c} : Len(w) >= minScrubbedCredentialLen}
  BY PlainForms
<1> QED  BY <1>1, <1>3, <1>4, <1>5 DEF credentialForms, FormsOf

(* The forms that are scrubbed are the secrets of ProxySettingsKept. *)
LEMMA SecretsScrubbed ==
  ASSUME policy.https \in Settings \cup {Unset}, policy.http \in Settings \cup {Unset}
  PROVE  Secrets = scrubForms(policy.https, policy.http)
<1> DEFINE set == {policy.https, policy.http} \ {Unset}
           users == {p.user : p \in set} \ {Unset}
           told == {w \in users : Pair(w) # <<":">>}
<1>1. Secrets = UNION {FormsOf(u) : u \in told}  BY DEF Secrets, FormsOf
<1>2. ASSUME NEW raw \in set PROVE raw \in Settings /\ raw # Unset  OBVIOUS
<1>3. ASSUME NEW raw \in set, NEW x
      PROVE  x \in credentialForms(raw) <=> raw.user \in told /\ x \in FormsOf(raw.user)
  <2>1. CASE raw.user = Unset \/ Pair(raw.user) = <<":">>
    <3>1. credentialForms(raw) = {}  BY <1>2, <2>1 DEF credentialForms
    <3>2. raw.user \notin told  BY <2>1
    <3> QED  BY <3>1, <3>2
  <2>2. CASE ~(raw.user = Unset \/ Pair(raw.user) = <<":">>)
    <3>1. credentialForms(raw) = FormsOf(raw.user)  BY <1>2, <2>2, CredentialForms
    <3>2. raw.user \in told  BY <2>2
    <3> QED  BY <3>1, <3>2
  <2> QED  BY <2>1, <2>2
<1>4. \A x : x \in Secrets <=> \E raw \in set : x \in credentialForms(raw)
  <2> TAKE x
  <2>1. x \in Secrets <=> \E u \in told : x \in FormsOf(u)  BY <1>1
  <2>2. \A u \in told : \E raw \in set : u = raw.user  OBVIOUS
  <2> HIDE DEF told, set
  <2> QED  BY <1>3, <2>1, <2>2
<1>5. credentialForms(Unset) = {}  BY DEF credentialForms
<1>6. \A x : x \in scrubForms(policy.https, policy.http) <=> \E raw \in set : x \in credentialForms(raw)
  <2> TAKE x
  <2>1. x \in scrubForms(policy.https, policy.http) <=> \E raw \in {policy.https, policy.http} : x \in credentialForms(raw)
    BY DEF scrubForms
  <2> QED  BY <1>5, <2>1
<1> QED  BY <1>4, <1>6

EgressSpec == EgressInit /\ [][EgressNext]_egressVars

(* What runs was validated, and is what the environment says; what has     *)
(* been said was scrubbed of the forms of it.                              *)
EgressInv ==
  /\ environment \in Environments
  /\ policy.state = "running" =>
       /\ policy.https = firstNonEmpty("https_proxy", "HTTPS_PROXY") /\ parseProxyValue(policy.https)
       /\ policy.http = firstNonEmpty("http_proxy", "HTTP_PROXY")
       /\ policy.secrets = scrubForms(policy.https, policy.http)
  /\ said # Unset => policy.state = "running" /\ \E s \in Texts : said = <<s, Scrub(s, policy.secrets)>>

LEMMA EgressStart == EgressInit => EgressInv
BY DEF EgressInit, EgressInv

LEMMA EgressStep == EgressInv /\ [EgressNext]_egressVars => EgressInv'
<1> SUFFICES ASSUME EgressInv, [EgressNext]_egressVars PROVE EgressInv'  OBVIOUS
<1>1. CASE UNCHANGED egressVars
  BY <1>1 DEF EgressInv, egressVars, firstNonEmpty
<1>2. CASE NewEgress
  <2> DEFINE https == firstNonEmpty("https_proxy", "HTTPS_PROXY")
             http == firstNonEmpty("http_proxy", "HTTP_PROXY")
             exempt == firstNonEmpty("no_proxy", "NO_PROXY")
             run == [state |-> "running", https |-> https, http |-> http, exempt |-> exempt, secrets |-> scrubForms(https, http)]
  <2>1. environment' = environment /\ said' = said  BY <1>2 DEF NewEgress
  <2>2. said = Unset  BY <1>2 DEF EgressInv, NewEgress
  <2>3. https' = https /\ http' = http  BY <2>1 DEF firstNonEmpty
  <2>4. (policy' = run /\ parseProxyValue(https)) \/ policy' = [state |-> "stopped"]  BY <1>2 DEF NewEgress
  <2>5. CASE policy' = run /\ parseProxyValue(https)
    <3>1. policy'.https = https /\ policy'.http = http /\ policy'.secrets = scrubForms(https, http)
      <4> HIDE DEF https, http, exempt
      <4> QED  BY <2>5
    <3>2. parseProxyValue(policy'.https)  BY <2>5, <3>1
    <3> HIDE DEF https, http, run
    <3> QED  BY <2>1, <2>2, <2>3, <3>1, <3>2 DEF EgressInv, https, http
  <2>6. CASE policy' = [state |-> "stopped"]
    <3>1. policy'.state # "running"  BY <2>6
    <3> QED  BY <2>1, <2>2, <3>1 DEF EgressInv
  <2> QED  BY <2>4, <2>5, <2>6
<1>3. CASE ScrubError
  <2>1. environment' = environment /\ policy' = policy  BY <1>3 DEF ScrubError
  <2>2. policy.state = "running" /\ \E s \in Texts : said' = <<s, Scrub(s, policy.secrets)>>  BY <1>3 DEF ScrubError
  <2> QED  BY <2>1, <2>2 DEF EgressInv, firstNonEmpty
<1> QED  BY <1>1, <1>2, <1>3 DEF EgressNext

(* A setting in use is one of the environment. *)
LEMMA InUse ==
  ASSUME EgressInv, policy.state = "running"
  PROVE  /\ \E v \in proxyVariables : policy.https = environment[v]
         /\ \E v \in proxyVariables : policy.http = environment[v]
         /\ policy.https \in Settings \cup {Unset} /\ policy.http \in Settings \cup {Unset}
<1>1. \E v \in proxyVariables : policy.https = environment[v]  BY DEF EgressInv, firstNonEmpty, proxyVariables
<1>2. \E v \in proxyVariables : policy.http = environment[v]  BY DEF EgressInv, firstNonEmpty, proxyVariables
<1> QED  BY <1>1, <1>2, EnvironmentsAssumption DEF EgressInv

(* No form of a credential is empty. *)
LEMMA FormsWritten ==
  ASSUME NEW u \in Users, BasicToken[Pair(u)] \in Seq(STRING) \ {<<>>}
  PROVE  FormsOf(u) \subseteq Seq(Letters) /\ <<>> \notin FormsOf(u)
<1>1. \A w \in Seq(STRING) : w \in Seq(Letters)
  <2>1. STRING \subseteq Letters  BY DEF Letters
  <2> QED  BY <2>1, SeqMonotonic
<1>2. PICK a \in Seq(Letters), b \in Seq(Letters), c \in Seq(Letters) : a = u.name /\ b = u.password /\ c = u.spelled
  BY <1>1 DEF Users
<1>3. PICK colon \in Letters : colon = ":"  BY DEF Letters
<1>4. <<colon>> \in Seq(Letters) /\ Len(<<colon>>) = 1  BY OneLetter
<1>5. PICK mid \in Seq(Letters) : mid = <<colon>> /\ Len(mid) = 1  BY <1>4
<1>6. a \o mid \in Seq(Letters) /\ Len(a \o mid) = Len(a) + 1  BY <1>5, ConcatProperties
<1>7. (a \o mid) \o b \in Seq(Letters) /\ Len((a \o mid) \o b) = Len(a) + 1 + Len(b)
  <2>1. PICK x \in Seq(Letters) : x = a \o mid /\ Len(x) = Len(a) + 1  BY <1>6
  <2>2. x \o b \in Seq(Letters) /\ Len(x \o b) = Len(x) + Len(b)  BY ConcatProperties
  <2> QED  BY <2>1, <2>2
<1>8. Len(a) \in Nat /\ Len(b) \in Nat  BY LenProperties
<1>9. Pair(u) = (a \o mid) \o b  BY <1>2, <1>3, <1>5, Zenon DEF Pair
<1>10. Len(<<>>) = 0  BY EmptySeq
<1>11. Pair(u) \in Seq(Letters) /\ Pair(u) # <<>>  BY <1>7, <1>8, <1>9, <1>10
<1>12. \A w \in {a, b, c} : Len(w) >= minScrubbedCredentialLen => w # <<>>  BY <1>10 DEF minScrubbedCredentialLen
<1> QED  BY <1>1, <1>2, <1>11, <1>12 DEF FormsOf

LEMMA SecretsWritten ==
  ASSUME EgressInv, policy.state = "running"
  PROVE  Secrets \subseteq Seq(Letters) /\ <<>> \notin Secrets
<1>1. ASSUME NEW raw, \E v \in proxyVariables : raw = environment[v], NEW x \in credentialForms(raw)
      PROVE  x \in Seq(Letters) /\ x # <<>>
  <2>1. PICK v \in proxyVariables : raw = environment[v]  BY <1>1
  <2>2. raw # Unset /\ raw.user # Unset /\ Pair(raw.user) # <<":">>  BY <1>1 DEF credentialForms
  <2>3. raw \in Settings  BY <2>1, <2>2, EnvironmentsAssumption DEF EgressInv
  <2>4. raw.user \in Users  BY <2>2, <2>3 DEF Settings
  <2>5. BasicToken[Pair(raw.user)] \in Seq(STRING) \ {<<>>}  BY <2>1, <2>2, BasicTokenAssumption DEF EgressInv
  <2>6. x \in FormsOf(raw.user)  BY <1>1, <2>2, <2>3, CredentialForms
  <2> QED  BY <2>4, <2>5, <2>6, FormsWritten
<1>2. Secrets = credentialForms(policy.https) \cup credentialForms(policy.http)
  BY InUse, SecretsScrubbed DEF scrubForms
<1> QED  BY <1>1, <1>2, InUse

(* auth/egress.go: whatever the environment and whatever a text says, no   *)
(* request goes past a proxy that is set, save to an exempt host, and of a *)
(* text that leaves exactly the letters of no secret are left, a           *)
(* placeholder for every stretch between, however the spellings of the     *)
(* credentials overlap, nest or touch.                                     *)
THEOREM SettingsKept == EgressSpec => []ProxySettingsKept
<1>1. EgressSpec => []EgressInv
  BY EgressStart, EgressStep, PTL DEF EgressSpec
<1>2. EgressInv => ProxySettingsKept
  <2> SUFFICES ASSUME EgressInv, policy.state = "running"
               PROVE  /\ \A host \in {"api", "internal"} :
                           firstNonEmpty("https_proxy", "HTTPS_PROXY") # Unset /\ host # policy.exempt =>
                             proxyFunc(host) # Unset /\ proxyFunc(host).scheme \in schemes /\ AdmittedHost(proxyFunc(host).host)
                      /\ said # Unset =>
                           said[2] = FlattenSeq([i \in DOMAIN said[1] |-> LeavesAs(said[1], Covered(said[1]), i)])
    BY DEF ProxySettingsKept, LeavesAs
  <2>1. ASSUME NEW host, policy.https # Unset, host # policy.exempt
        PROVE  proxyFunc(host) # Unset /\ proxyFunc(host).scheme \in schemes /\ AdmittedHost(proxyFunc(host).host)
    <3> DEFINE u == Parsed(policy.https)
    <3>1. u.valid /\ u.scheme \in schemes /\ AdmittedHost(u.host)
      <4>1. parseProxyValue(policy.https)  BY DEF EgressInv
      <4>2. \A raw : parseProxyValue(raw) => raw = Unset \/ (Parsed(raw).valid /\ Parsed(raw).scheme \in schemes /\ AdmittedHost(Parsed(raw).host))
        BY DEF parseProxyValue
      <4> QED  BY <2>1, <4>1, <4>2
    <3>2. proxyFunc(host) = u  BY <2>1, <3>1 DEF proxyFunc
    <3>3. policy.https \in Settings  BY <2>1, InUse
    <3>4. u \in Settings
      <4>1. [policy.https EXCEPT !.scheme = "http"] \in Settings  BY <3>3 DEF Settings, schemes
      <4> QED  BY <3>3, <4>1, Zenon DEF Parsed
    <3>5. u # Unset  BY <3>4, UnsetAssumption
    <3> HIDE DEF u
    <3> QED  BY <3>1, <3>2, <3>5
  <2>2. ASSUME said # Unset
        PROVE  said[2] = FlattenSeq([i \in DOMAIN said[1] |-> LeavesAs(said[1], Covered(said[1]), i)])
    <3>1. PICK s \in Texts : said = <<s, Scrub(s, policy.secrets)>>  BY <2>2 DEF EgressInv
    <3>2. said[1] = s /\ said[2] = Scrub(s, policy.secrets)  BY <3>1
    <3>3. policy.secrets = Secrets  BY InUse, SecretsScrubbed DEF EgressInv
    <3>4. s \in Seq(Letters)
      <4>1. STRING \subseteq Letters  BY DEF Letters
      <4>2. s \in Seq(STRING)  BY TextsAssumption
      <4> QED  BY <4>1, <4>2, SeqMonotonic
    <3>5. Covered(s) = {j \in DOMAIN s : Started(found(s, Secrets), Len(s), j)}  BY <3>4, SecretsWritten, CoveredFound
    <3>6. Scrub(s, Secrets) = FlattenSeq([i \in DOMAIN s |-> LeavesAs(s, Covered(s), i)])
      BY <3>4, <3>5, SecretsWritten, ScrubRight
    <3> QED  BY <3>2, <3>3, <3>6
  <2> QED  BY <2>1, <2>2 DEF EgressInv
<1> QED  BY <1>1, <1>2, PTL
-----------------------------------------------------------------------------
(* The refusal is an action that no simulation allows. *)
LEMMA UnresolvedIsOne == \E x : x \in Aws!Unresolved
BY Zenon DEF Aws!Unresolved

LEMMA SameCardinality == \A x : Aws!Cardinality(x) = Cardinality(x)
BY Zenon DEF Aws!Cardinality, Cardinality

LEMMA SameFiniteness == \A x : Aws!IsFiniteSet(x) <=> IsFiniteSet(x)
BY Zenon DEF Aws!IsFiniteSet, IsFiniteSet

(* The places of the server's order are those of the connector's. *)
LEMMA KindIsShape ==
  ASSUME NEW S, NEW u \in Seq(S)
  PROVE  /\ DOMAIN Aws!templateShape(u) = 1..Len(u) /\ Len(Aws!templateShape(u)) = Len(u)
         /\ \A i \in 1..Len(u) : /\ Aws!Kind(u, i) = Aws!templateShape(u)[i] + 1
                                 /\ Aws!templateShape(u)[i] \in 0..2
         /\ \A i \in Nat : i > Len(u) => Aws!Kind(u, i) = 0
<1>1. Len(u) \in Nat /\ DOMAIN u = 1..Len(u)  OBVIOUS
<1>2. DOMAIN Aws!templateShape(u) = 1..Len(u)  BY <1>1 DEF Aws!templateShape
<1>3. \A i \in 1..Len(u) :
        Aws!templateShape(u)[i] = CASE u[i] = Aws!Greedy -> 0 [] u[i] = Aws!Label -> 1 [] OTHER -> 2
  BY <1>1 DEF Aws!templateShape
<1>4. \A i \in 1..Len(u) : Aws!templateShape(u)[i] \in 0..2  BY <1>3
<1>5. Aws!templateShape(u) \in [1..Len(u) -> 0..2]
  <2>1. Aws!templateShape(u) = [i \in 1..Len(u) |-> Aws!templateShape(u)[i]]  BY <1>1 DEF Aws!templateShape
  <2> QED  BY <1>4, <2>1
<1>6. Len(Aws!templateShape(u)) = Len(u)
  <2>1. Aws!templateShape(u) \in Seq(0..2)  BY <1>1, <1>5
  <2> QED  BY <1>1, <1>2, <2>1
<1>7. \A i \in 1..Len(u) : ~(i > Len(u))  BY <1>1
<1>8. \A i \in 1..Len(u) :
        Aws!Kind(u, i) = CASE u[i] = Aws!Greedy -> 1 [] u[i] = Aws!Label -> 2 [] OTHER -> 3
  BY <1>7 DEF Aws!Kind
<1>9. ASSUME NEW i \in 1..Len(u) PROVE Aws!Kind(u, i) = Aws!templateShape(u)[i] + 1  BY <1>3, <1>8
<1>10. \A i \in Nat : i > Len(u) => Aws!Kind(u, i) = 0  BY DEF Aws!Kind
<1> QED  BY <1>2, <1>4, <1>6, <1>9, <1>10

(* Two templates that are of one kind at every place. *)
Alike(u, v) == Len(u) = Len(v) /\ \A i \in 1..Len(u) : Aws!Kind(u, i) = Aws!Kind(v, i)

(* An operation that outranks another is ahead of it at some place, or     *)
(* they differ by what they need only.                                     *)
LEMMA OutranksIsAhead ==
  ASSUME NEW S, NEW a, NEW b, a.uri \in Seq(S), b.uri \in Seq(S), Aws!compareCandidates(a, b)
  PROVE  \/ \E i \in DOMAIN a.uri : Aws!Ahead(a.uri, b.uri, i)
         \/ Alike(a.uri, b.uri) /\ Cardinality(a.needs) > Cardinality(b.needs)
<1> DEFINE u == a.uri
           v == b.uri
           s == Aws!templateShape(u)
           t == Aws!templateShape(v)
           differ == {i \in DOMAIN s \cap DOMAIN t : s[i] # t[i]}
           place == CHOOSE i \in differ : \A j \in differ : i <= j
<1>1. /\ Len(u) \in Nat /\ Len(v) \in Nat /\ DOMAIN u = 1..Len(u)
      /\ DOMAIN s = 1..Len(u) /\ Len(s) = Len(u) /\ DOMAIN t = 1..Len(v) /\ Len(t) = Len(v)
      /\ \A i \in 1..Len(u) : Aws!Kind(u, i) = s[i] + 1 /\ s[i] \in 0..2
      /\ \A i \in 1..Len(v) : Aws!Kind(v, i) = t[i] + 1 /\ t[i] \in 0..2
      /\ \A i \in Nat : i > Len(v) => Aws!Kind(v, i) = 0
  BY KindIsShape
<1>2. CASE differ # {} /\ s[place] > t[place]
  <2>1. differ \in SUBSET (1..Len(u))  BY <1>1
  <2>2. \E i \in differ : \A j \in differ : i <= j  BY <1>1, <1>2, <2>1, FirstPlace
  <2>3. place \in differ /\ \A j \in differ : place <= j  BY <2>2
  <2>4. place \in 1..Len(u) /\ place \in 1..Len(v)  BY <1>1, <2>3
  <2> HIDE DEF place
  <2>5. Aws!Kind(u, place) > Aws!Kind(v, place)  BY <1>1, <1>2, <2>4
  <2>6. ASSUME NEW j \in 1..(place - 1) PROVE Aws!Kind(u, j) = Aws!Kind(v, j)
    <3>1. j \in 1..Len(u) /\ j \in 1..Len(v) /\ ~(place <= j)  BY <1>1, <2>4
    <3>2. j \notin differ  BY <2>3, <3>1
    <3>3. s[j] = t[j]  BY <1>1, <3>1, <3>2
    <3> HIDE DEF s, t
    <3> QED  BY <1>1, <3>1, <3>3
  <2>7. Aws!Ahead(u, v, place)  BY <2>5, <2>6 DEF Aws!Ahead
  <2> QED  BY <1>1, <2>4, <2>7
<1>3. CASE differ = {} /\ Len(s) > Len(t)
  <2> DEFINE k == Len(v) + 1
  <2>1. k \in 1..Len(u) /\ k > Len(v) /\ k \in Nat  BY <1>1, <1>3
  <2>2. Aws!Kind(u, k) > Aws!Kind(v, k)
    <3>1. Aws!Kind(v, k) = 0  BY <1>1, <2>1
    <3>2. Aws!Kind(u, k) = s[k] + 1 /\ s[k] \in 0..2  BY <1>1, <2>1
    <3> HIDE DEF s, k
    <3> QED  BY <3>1, <3>2
  <2>3. ASSUME NEW j \in 1..(k - 1) PROVE Aws!Kind(u, j) = Aws!Kind(v, j)
    <3>1. j \in 1..Len(u) /\ j \in 1..Len(v)  BY <1>1, <1>3
    <3>2. s[j] = t[j]  BY <1>1, <1>3, <3>1
    <3> HIDE DEF s, t
    <3> QED  BY <1>1, <3>1, <3>2
  <2> HIDE DEF k
  <2>4. Aws!Ahead(u, v, k)  BY <2>2, <2>3 DEF Aws!Ahead
  <2> QED  BY <1>1, <2>1, <2>4
<1>4. CASE differ = {} /\ Len(s) = Len(t) /\ Cardinality(a.needs) > Cardinality(b.needs)
  <2>1. ASSUME NEW j \in 1..Len(u) PROVE Aws!Kind(u, j) = Aws!Kind(v, j)
    <3>1. j \in 1..Len(v)  BY <1>1, <1>4
    <3>2. s[j] = t[j]  BY <1>1, <1>4, <3>1
    <3> HIDE DEF s, t
    <3> QED  BY <1>1, <3>1, <3>2
  <2> QED  BY <1>1, <1>4, <2>1 DEF Alike
<1>5. \/ differ # {} /\ s[place] > t[place]
      \/ differ = {} /\ Len(s) > Len(t)
      \/ differ = {} /\ Len(s) = Len(t) /\ Cardinality(a.needs) > Cardinality(b.needs)
  <2>1. \/ differ # {} /\ s[place] > t[place]
        \/ differ = {} /\ Len(s) > Len(t)
        \/ differ = {} /\ Len(s) = Len(t) /\ Aws!Cardinality(a.needs) > Aws!Cardinality(b.needs)
    BY DEF Aws!compareCandidates
  <2> HIDE DEF differ, s, t, place
  <2> QED  BY <2>1, SameCardinality
<1> QED  BY <1>2, <1>3, <1>4, <1>5

(* What a service is left with, after the kinds and then the needs, is     *)
(* among the top candidates.                                               *)
LEMMA LeftIsTop ==
  ASSUME NEW S, NEW ops, \A op \in ops : op.uri \in Seq(S) /\ IsFiniteSet(op.needs),
         NEW op \in Aws!Narrow(ops),
         \A o \in Aws!Narrow(ops) : Cardinality(o.needs) <= Cardinality(op.needs)
  PROVE  op \in Aws!topCandidates(ops)
<1>1. op \in ops /\ \A o \in ops : \A i \in DOMAIN o.uri : ~Aws!Ahead(o.uri, op.uri, i)
  BY DEF Aws!Narrow
<1>2. ASSUME NEW g \in ops, Aws!compareCandidates(g, op) PROVE FALSE
  <2>1. g.uri \in Seq(S) /\ op.uri \in Seq(S)  BY <1>1
  <2>2. Alike(g.uri, op.uri) /\ Cardinality(g.needs) > Cardinality(op.needs)
    BY <1>1, <1>2, <2>1, OutranksIsAhead
  <2>3. ASSUME NEW o \in ops, NEW i \in DOMAIN o.uri, Aws!Ahead(o.uri, g.uri, i) PROVE FALSE
    <3>1. o.uri \in Seq(S) /\ i \in Nat /\ i > 0  OBVIOUS
    <3>2. ASSUME NEW j \in Nat \ {0} PROVE Aws!Kind(g.uri, j) = Aws!Kind(op.uri, j)
      <4>1. CASE j \in 1..Len(g.uri)  BY <2>2, <4>1 DEF Alike
      <4>2. CASE j \notin 1..Len(g.uri)
        <5>1. j > Len(g.uri) /\ j > Len(op.uri)  BY <2>1, <2>2, <4>2 DEF Alike
        <5> QED  BY <2>1, <5>1, KindIsShape
      <4> QED  BY <4>1, <4>2
    <3>3. Aws!Ahead(o.uri, op.uri, i)  BY <2>3, <3>1, <3>2 DEF Aws!Ahead
    <3> QED  BY <1>1, <3>3
  <2>4. g \in Aws!Narrow(ops)  BY <2>3 DEF Aws!Narrow
  <2>5. Cardinality(g.needs) \in Nat /\ Cardinality(op.needs) \in Nat  BY <1>1, FS_CardinalityType
  <2>6. Cardinality(g.needs) <= Cardinality(op.needs)  BY <2>4
  <2> QED  BY <2>2, <2>5, <2>6
<1> QED  BY <1>1, <1>2 DEF Aws!topCandidates

(* A template matches two paths alike that differ in the first segment     *)
(* only, where neither is empty and neither is written in the template.    *)
LEMMA FirstByLabel ==
  ASSUME NEW S, NEW u \in Seq(S), NEW p \in Seq(S), NEW q \in Seq(S),
         Len(p) = Len(q), Len(p) > 0, \A i \in 2..Len(p) : p[i] = q[i],
         p[1] # Aws!Empty, q[1] # Aws!Empty, Len(u) > 0 => u[1] # p[1] /\ u[1] # q[1],
         Aws!matchURITemplate(u, p)
  PROVE  Aws!matchURITemplate(u, q)
<1>1. /\ Len(u) \in Nat /\ DOMAIN u = 1..Len(u) /\ Len(p) \in Nat
      /\ DOMAIN p = 1..Len(p) /\ DOMAIN q = 1..Len(p)
  OBVIOUS
<1>2. ASSUME NEW t, NEW i \in Nat, i > 0, Aws!matchSegment(t, p, i), i = 1 => t # p[1]
      PROVE  Aws!matchSegment(t, q, i)
  <2>1. i \in 1..Len(p)  BY <1>1, <1>2 DEF Aws!matchSegment
  <2>2. CASE i = 1
    <3>1. t = Aws!Label  BY <1>2, <2>2 DEF Aws!matchSegment
    <3> QED  BY <1>1, <2>1, <2>2, <3>1 DEF Aws!matchSegment
  <2>3. CASE i # 1
    <3>1. p[i] = q[i]  BY <1>1, <2>1, <2>3
    <3> QED  BY <1>1, <1>2, <2>1, <3>1 DEF Aws!matchSegment
  <2> QED  BY <2>2, <2>3
<1> DEFINE greedy == {i \in DOMAIN u : u[i] = Aws!Greedy}
           first == IF greedy = {} THEN Len(u) + 1 ELSE CHOOSE i \in greedy : \A j \in greedy : i <= j
           suffix == SubSeq(u, first + 1, Len(u))
<1>3. /\ \A i \in 1..(first - 1) : Aws!matchSegment(u[i], p, i)
      /\ IF greedy = {} THEN Len(p) = Len(u) ELSE Aws!matchGreedy(suffix, p, first)
  BY DEF Aws!matchURITemplate
<1>4. first \in 1..(Len(u) + 1) /\ (greedy # {} => first \in 1..Len(u))
  <2>1. CASE greedy = {}  BY <1>1, <2>1
  <2>2. CASE greedy # {}
    <3>1. greedy \in SUBSET (1..Len(u))  BY <1>1
    <3>2. \E i \in greedy : \A j \in greedy : i <= j  BY <1>1, <2>2, <3>1, FirstPlace
    <3>3. first \in greedy  BY <2>2, <3>2
    <3>4. first \in 1..Len(u)  BY <3>1, <3>3
    <3> HIDE DEF first, greedy
    <3> QED  BY <1>1, <3>4
  <2> QED  BY <2>1, <2>2
<1>5. ASSUME NEW i \in 1..(first - 1) PROVE Aws!matchSegment(u[i], q, i)
  <2>1. i \in Nat /\ i > 0 /\ (i = 1 => Len(u) > 0)
    <3> HIDE DEF first, greedy
    <3> QED  BY <1>1, <1>4
  <2>2. i = 1 => u[i] # p[1]  BY <2>1
  <2>3. Aws!matchSegment(u[i], p, i)  BY <1>3
  <2> HIDE DEF first, greedy
  <2> QED  BY <1>2, <2>1, <2>2, <2>3
<1>6. CASE greedy = {}
  <2>1. Len(q) = Len(u)  BY <1>3, <1>6
  <2> QED  BY <1>5, <1>6, <2>1 DEF Aws!matchURITemplate
<1>7. CASE greedy # {}
  <2> DEFINE end == Len(p) - Len(suffix)
  <2>1. first \in 1..Len(u) /\ Aws!matchGreedy(suffix, p, first)  BY <1>3, <1>4, <1>7
  <2>2. suffix \in Seq(S) /\ Len(suffix) \in Nat /\ DOMAIN suffix = 1..Len(suffix)
    <3>1. first \in Int /\ first + 1 \in Int /\ \A i \in (first + 1)..Len(u) : u[i] \in S
      <4> HIDE DEF first, greedy
      <4> QED  BY <1>1, <2>1, ElementOfSeq
    <3>2. suffix \in Seq(S)
      <4> HIDE DEF first, greedy
      <4> QED  BY <1>1, <3>1, SubSeqProperties
    <3> HIDE DEF suffix
    <3> QED  BY <3>2
  <2>3. /\ end >= first /\ ~(end = first /\ p[first] = Aws!Empty)
        /\ \A j \in DOMAIN suffix : Aws!matchSegment(suffix[j], p, end + j)
    <3> HIDE DEF suffix, first, greedy
    <3> QED  BY <2>1 DEF Aws!matchGreedy
  <2>4. ~(end = first /\ q[first] = Aws!Empty)
    <3> HIDE DEF suffix
    <3>1. CASE first = 1  BY <3>1
    <3>2. CASE first # 1 /\ end = first
      <4>1. first \in 2..Len(p)
        <5> HIDE DEF first, greedy
        <5> QED  BY <1>1, <2>1, <2>2, <3>2
      <4>2. p[first] = q[first]  BY <4>1
      <4> HIDE DEF first, greedy
      <4> QED  BY <2>3, <3>2, <4>2
    <3> QED  BY <3>1, <3>2
  <2>5. ASSUME NEW j \in DOMAIN suffix PROVE Aws!matchSegment(suffix[j], q, end + j)
    <3> HIDE DEF suffix, first, greedy
    <3>1. end + j \in Nat /\ end + j > 1
      <4>1. j \in 1..Len(suffix)  BY <2>2
      <4>2. end \in Int  BY <1>1, <2>2
      <4> HIDE DEF end
      <4>3. end >= first /\ first \in 1..Len(u)  BY <2>1, <2>3
      <4> QED  BY <1>1, <2>2, <4>1, <4>2, <4>3
    <3>2. Aws!matchSegment(suffix[j], p, end + j)  BY <2>3
    <3> HIDE DEF end
    <3> QED  BY <1>2, <3>1, <3>2
  <2>6. Aws!matchGreedy(suffix, q, first)
    <3>1. end = Len(q) - Len(suffix)  OBVIOUS
    <3> HIDE DEF suffix, first, greedy
    <3> QED  BY <2>3, <2>4, <2>5, <3>1 DEF Aws!matchGreedy
  <2> QED  BY <1>5, <1>7, <2>6 DEF Aws!matchURITemplate
<1> QED  BY <1>6, <1>7

LEMMA FunctionIsSeq ==
  ASSUME NEW S, NEW n \in Nat, NEW f \in [1..n -> S]
  PROVE  f \in Seq(S)
OBVIOUS

(* The path with every piece a segment of its own is a path. *)
LEMMA DecodedIsPath ==
  ASSUME NEW path \in Seq(Seq(STRING))
  PROVE  Aws!decoded(path) \in Seq(Seq(STRING))
<1> DEFINE seqs == [i \in DOMAIN path |-> [j \in DOMAIN path[i] |-> <<path[i][j]>>]]
<1>1. Aws!decoded(path) = FlattenSeq(seqs)  BY Zenon DEF Aws!decoded, Aws!FlattenSeq, FlattenSeq
<1>2. ASSUME NEW i \in 1..Len(path) PROVE seqs[i] \in Seq(Seq(STRING))
  <2>1. PICK piece \in Seq(STRING) : piece = path[i]  BY ElementOfSeq
  <2>5. DOMAIN path = 1..Len(path) /\ Len(piece) \in Nat /\ DOMAIN piece = 1..Len(piece)  OBVIOUS
  <2>2. seqs[i] = [j \in 1..Len(piece) |-> <<piece[j]>>]
    <3>1. seqs[i] = [j \in DOMAIN path[i] |-> <<path[i][j]>>]  BY <2>5
    <3> HIDE DEF seqs
    <3> QED  BY <2>1, <2>5, <3>1
  <2>3. \A j \in 1..Len(piece) : <<piece[j]>> \in Seq(STRING)
    <3> TAKE j \in 1..Len(piece)
    <3>1. piece[j] \in STRING  BY ElementOfSeq
    <3> QED  BY <3>1
  <2>4. seqs[i] \in [1..Len(piece) -> Seq(STRING)]
    <3> HIDE DEF seqs
    <3> QED  BY <2>2, <2>3
  <2> HIDE DEF seqs
  <2> DEFINE T == Seq(STRING)
  <2>7. seqs[i] \in [1..Len(piece) -> T]  BY <2>4
  <2> HIDE DEF T
  <2>8. seqs[i] \in Seq(T)  BY <2>5, <2>7, FunctionIsSeq
  <2> QED  BY <2>8 DEF T
<1>3. seqs \in Seq(Seq(Seq(STRING)))
  <2>1. seqs \in [1..Len(path) -> Seq(Seq(STRING))]
    <3>1. DOMAIN seqs = 1..Len(path) /\ seqs = [i \in 1..Len(path) |-> seqs[i]]  OBVIOUS
    <3> HIDE DEF seqs
    <3> QED  BY <1>2, <3>1
  <2>2. PICK n \in Nat : n = Len(path)  OBVIOUS
  <2> DEFINE T == Seq(Seq(STRING))
  <2> HIDE DEF seqs
  <2>3. seqs \in [1..n -> T]  BY <2>1, <2>2
  <2> HIDE DEF T
  <2>4. seqs \in Seq(T)  BY <2>3, FunctionIsSeq
  <2> QED  BY <2>4 DEF T
<1>4. Len(seqs) \in Nat
  <2> HIDE DEF seqs
  <2> QED  BY <1>3
<1> HIDE DEF seqs
<1>5. FlattenSeq(seqs) \in Seq(Seq(STRING))
  <2> DEFINE T == Seq(STRING)
  <2> HIDE DEF T
  <2>1. PICK f \in [0..Len(seqs) -> Seq(T)] : FlattenSeq(seqs) = f[Len(seqs)]  BY <1>3, FlattenSteps DEF T
  <2>2. Len(seqs) \in 0..Len(seqs)  BY <1>4
  <2>3. f[Len(seqs)] \in Seq(T)  BY <2>1, <2>2
  <2> QED  BY <2>1, <2>3 DEF T
<1> QED  BY <1>1, <1>5

LEMMA FrontOfPath ==
  ASSUME NEW T, NEW t \in Seq(T), Len(t) > 1
  PROVE  /\ Aws!Front(t) \in Seq(T) /\ DOMAIN Aws!Front(t) = 1..(Len(t) - 1)
         /\ \A j \in 1..(Len(t) - 1) : j \in DOMAIN t /\ Aws!Front(t)[j] = t[j]
<1>1. Len(t) - 1 \in Nat /\ DOMAIN t = 1..Len(t)  OBVIOUS
<1>2. \A j \in 1..(Len(t) - 1) : j \in 1..Len(t) /\ t[j] \in T
  <2> TAKE j \in 1..(Len(t) - 1)
  <2>1. j \in 1..Len(t)  BY <1>1
  <2> QED  BY <2>1, ElementOfSeq
<1>3. SubSeq(t, 1, Len(t) - 1) = [j \in 1..(Len(t) - 1) |-> t[j]]  BY <1>1
<1>4. Aws!Front(t) = [j \in 1..(Len(t) - 1) |-> t[j]]  BY <1>3 DEF Aws!Front
<1>5. Aws!Front(t) \in [1..(Len(t) - 1) -> T]  BY <1>2, <1>4
<1>6. Aws!Front(t) \in Seq(T)  BY <1>1, <1>5, FunctionIsSeq
<1> QED  BY <1>1, <1>2, <1>4, <1>6

(* The ways a service reads a path are those that the connector classifies.*)
LEMMA ReadingsCovered ==
  ASSUME NEW path \in Seq(Seq(STRING))
  PROVE  /\ Aws!ServerReadings(path) = Aws!PathReadings(path)
         /\ Aws!ServerReadings(path) \subseteq Seq(Seq(STRING))
<1> DEFINE T == Seq(STRING)
           readings == {path, Aws!decoded(path)}
           slashed == {t \in readings : Aws!Last(t) = Aws!Empty /\ \E i \in DOMAIN t : t[i] # Aws!Empty}
<1>1. readings \subseteq Seq(T)  BY DecodedIsPath
<1>2. Aws!ServerReadings(path) = readings \cup {Aws!Front(t) : t \in slashed}  BY DEF Aws!ServerReadings
<1>3. Aws!PathReadings(path) = readings \cup UNION {Aws!dropTrailingEmpty(t) : t \in readings}
  BY DEF Aws!PathReadings, Aws!withTrailingDrops
<1>4. ASSUME NEW t \in slashed PROVE Aws!Front(t) \in Seq(T) /\ Aws!Front(t) \in Aws!dropTrailingEmpty(t)
  <2>1. t \in Seq(T) /\ t[Len(t)] = Aws!Empty /\ Len(t) \in Nat /\ DOMAIN t = 1..Len(t)
    BY <1>1 DEF Aws!Last
  <2>2. PICK i \in DOMAIN t : t[i] # Aws!Empty  OBVIOUS
  <2> HIDE DEF T, slashed, readings
  <2>3. i \in 1..(Len(t) - 1) /\ Len(t) > 1  BY <2>1, <2>2
  <2>4. /\ Aws!Front(t) \in Seq(T) /\ DOMAIN Aws!Front(t) = 1..(Len(t) - 1)
        /\ \A j \in 1..(Len(t) - 1) : Aws!Front(t)[j] = t[j]
    BY <2>1, <2>3, FrontOfPath
  <2>5. Aws!Last(t) = Aws!Empty  BY <2>1 DEF Aws!Last
  <2>6. \E j \in DOMAIN Aws!Front(t) : Aws!Front(t)[j] # Aws!Empty  BY <2>2, <2>3, <2>4
  <2> QED  BY <2>3, <2>4, <2>5, <2>6 DEF Aws!dropTrailingEmpty
<1>5. ASSUME NEW t \in readings, NEW u \in Aws!dropTrailingEmpty(t) PROVE t \in slashed /\ u = Aws!Front(t)
  <2>1. t \in Seq(T)  BY <1>1
  <2>2. u = Aws!Front(t) /\ Len(t) > 1 /\ Aws!Last(t) = Aws!Empty /\ \E i \in DOMAIN u : u[i] # Aws!Empty
    BY DEF Aws!dropTrailingEmpty
  <2> HIDE DEF T, readings
  <2>3. PICK i \in DOMAIN u : u[i] # Aws!Empty  BY <2>2
  <2>4. i \in DOMAIN t /\ t[i] # Aws!Empty  BY <2>1, <2>2, <2>3, FrontOfPath
  <2> QED  BY <2>2, <2>4
<1>6. slashed \subseteq readings  OBVIOUS
<1> HIDE DEF T, slashed, readings
<1>7. Aws!ServerReadings(path) \subseteq Seq(T)  BY <1>1, <1>2, <1>4, <1>6
<1>8. Aws!ServerReadings(path) \subseteq Aws!PathReadings(path)  BY <1>2, <1>3, <1>4, <1>6
<1>9. Aws!PathReadings(path) \subseteq Aws!ServerReadings(path)  BY <1>2, <1>3, <1>5
<1> QED  BY <1>7, <1>8, <1>9 DEF T

LEMMA BucketsHaveNames == Aws!HostBucket # Aws!Empty /\ Aws!AnyBucket # Aws!Empty
BY DEF Aws!HostBucket, Aws!AnyBucket, Aws!Empty

(* p is rest behind x. *)
Leads(p, x, rest) ==
  p = <<x>> \o rest /\ Len(p) = 1 + Len(rest) /\ p[1] = x /\ \A i \in 2..Len(p) : p[i] = rest[i - 1]

LEMMA PrependProperties ==
  ASSUME NEW S, NEW x \in S, NEW rest \in Seq(S)
  PROVE  \E p \in Seq(S) : Leads(p, x, rest)
<1>1. <<x>> \in Seq(S) /\ Len(<<x>>) = 1 /\ <<x>>[1] = x  OBVIOUS
<1>2. Len(rest) \in Nat  OBVIOUS
<1> DEFINE one == <<x>>
           p == one \o rest
<1>3. /\ p \in Seq(S) /\ Len(p) = Len(one) + Len(rest)
      /\ \A i \in 1..(Len(one) + Len(rest)) : p[i] = IF i <= Len(one) THEN one[i] ELSE rest[i - Len(one)]
  <2>1. one \in Seq(S)  BY <1>1
  <2> HIDE DEF one
  <2> QED  BY <2>1, ConcatProperties
<1>4. Len(one) = 1 /\ one[1] = x  BY <1>1
<1> HIDE DEF p, one
<1>5. Len(p) = 1 + Len(rest) /\ p[1] = x  BY <1>2, <1>3, <1>4
<1>6. \A i \in 2..Len(p) : p[i] = rest[i - 1]  BY <1>2, <1>3, <1>4, <1>5
<1> QED  BY <1>3, <1>5, <1>6 DEF p, one, Leads

(* A host's bucket is a label's in a template, whatever its name: what a   *)
(* service of REST matches a reading with is what the connector hits.      *)
LEMMA RoutedIsHit ==
  ASSUME NEW models, Aws!WellFormed(models), NEW m \in models, NEW r, NEW parsed, NEW segs \in Seq(Seq(STRING))
  PROVE  /\ Aws!routed(m, r, parsed, segs) =
              {o \in m.operations : /\ o.method = r.method
                                    /\ Aws!matchURITemplate(o.uri, Aws!classificationSegments(parsed, segs))
                                    /\ Aws!scoreDiscriminators(o, r)}
         /\ \A o \in Aws!routed(m, r, parsed, segs) :
              o.uri \in Seq(Seq(STRING) \cup {Aws!HostBucket, Aws!AnyBucket}) /\ IsFiniteSet(o.needs)
<1> DEFINE S == Seq(STRING) \cup {Aws!HostBucket, Aws!AnyBucket}
           rest == IF segs = <<Aws!Empty>> THEN <<>> ELSE segs
           sent == IF parsed.bucket THEN <<Aws!AnyBucket>> \o rest ELSE segs
           read == Aws!classificationSegments(parsed, segs)
           hits == {o \in m.operations : /\ o.method = r.method /\ Aws!matchURITemplate(o.uri, read)
                                         /\ Aws!scoreDiscriminators(o, r)}
<1>1. read = IF parsed.bucket THEN <<Aws!HostBucket>> \o rest ELSE segs
  BY Zenon DEF Aws!classificationSegments, Aws!HostBucket
<1>2. Aws!routed(m, r, parsed, segs) =
        {o \in m.operations : /\ o.method = r.method /\ o.needs \subseteq r.carries
                              /\ Aws!matchURITemplate(o.uri, sent)}
  BY Zenon DEF Aws!routed, Aws!AnyBucket
<1>3. \A o \in m.operations : /\ o.uri \in Seq(S) /\ IsFiniteSet(o.needs)
                              /\ Len(o.uri) > 0 => o.uri[1] # Aws!HostBucket /\ o.uri[1] # Aws!AnyBucket
  <2>1. Seq(Seq(STRING)) \subseteq Seq(S)  BY SeqMonotonic
  <2> HIDE DEF S
  <2> QED  BY <2>1, SameFiniteness DEF Aws!WellFormed
<1>4. ASSUME NEW o \in m.operations PROVE Aws!matchURITemplate(o.uri, sent) <=> Aws!matchURITemplate(o.uri, read)
  <2>1. CASE ~parsed.bucket  BY <1>1, <2>1
  <2>2. CASE parsed.bucket
    <3>1. segs \in Seq(S)  BY SeqMonotonic
    <3>2. Aws!HostBucket \in S /\ Aws!AnyBucket \in S  OBVIOUS
    <3> HIDE DEF S
    <3>3. rest \in Seq(S)  BY <3>1
    <3> HIDE DEF rest
    <3>4. PICK p \in Seq(S) : Leads(p, Aws!AnyBucket, rest)
      BY <3>2, <3>3, PrependProperties
    <3>5. PICK q \in Seq(S) : Leads(q, Aws!HostBucket, rest)
      BY <3>2, <3>3, PrependProperties
    <3>6. p = sent /\ q = read  BY <1>1, <2>2, <3>4, <3>5 DEF Leads
    <3>7. Len(rest) \in Nat  BY <3>3
    <3>8. Len(p) = Len(q) /\ Len(p) > 0 /\ \A i \in 2..Len(p) : p[i] = q[i]  BY <3>4, <3>5, <3>7 DEF Leads
    <3>9. o.uri \in Seq(S) /\ (Len(o.uri) > 0 => o.uri[1] # p[1] /\ o.uri[1] # q[1])  BY <1>3, <3>4, <3>5 DEF Leads
    <3>10. p[1] # Aws!Empty /\ q[1] # Aws!Empty  BY <3>4, <3>5, BucketsHaveNames DEF Leads
    <3> HIDE DEF sent, read
    <3>11. Aws!matchURITemplate(o.uri, p) => Aws!matchURITemplate(o.uri, q)
      BY <3>8, <3>9, <3>10, FirstByLabel
    <3>12. Aws!matchURITemplate(o.uri, q) => Aws!matchURITemplate(o.uri, p)
      BY <3>8, <3>9, <3>10, FirstByLabel
    <3>13. Aws!matchURITemplate(o.uri, p) <=> Aws!matchURITemplate(o.uri, q)  BY <3>11, <3>12
    <3> QED  BY <3>6, <3>13
  <2> QED  BY <2>1, <2>2
<1> HIDE DEF S, sent, read
<1>5. \A o \in m.operations : o \in Aws!routed(m, r, parsed, segs) <=> o \in hits  BY <1>2, <1>4 DEF Aws!scoreDiscriminators
<1>6. Aws!routed(m, r, parsed, segs) \subseteq m.operations  BY <1>2
<1>7. Aws!routed(m, r, parsed, segs) = hits  BY <1>5, <1>6
<1> QED  BY <1>3, <1>6, <1>7 DEF S, read

(* What a service of REST runs for a reading is among the candidates the   *)
(* connector classifies that reading as.                                   *)
LEMMA ServedIsClassified ==
  ASSUME NEW models, Aws!WellFormed(models), NEW m \in models, NEW r, NEW parsed, NEW segs \in Seq(Seq(STRING)),
         NEW op \in Aws!Served(m, r, parsed, segs)
  PROVE  op \in Aws!classifyREST(m, r, Aws!classificationSegments(parsed, segs))
<1> DEFINE S == Seq(STRING) \cup {Aws!HostBucket, Aws!AnyBucket}
           served == Aws!routed(m, r, parsed, segs)
           hits == {o \in m.operations : /\ o.method = r.method
                                         /\ Aws!matchURITemplate(o.uri, Aws!classificationSegments(parsed, segs))
                                         /\ Aws!scoreDiscriminators(o, r)}
<1>1. /\ op \in Aws!Narrow(served)
      /\ \A o \in Aws!Narrow(served) : Aws!Cardinality(o.needs) <= Aws!Cardinality(op.needs)
  BY DEF Aws!Served
<1>2. served = hits /\ \A o \in served : o.uri \in Seq(S) /\ IsFiniteSet(o.needs)  BY RoutedIsHit
<1>3. Aws!classifyREST(m, r, Aws!classificationSegments(parsed, segs)) = Aws!topCandidates(hits)
  BY Zenon DEF Aws!classifyREST
<1> HIDE DEF S, served, hits
<1>4. \A o \in Aws!Narrow(served) : Cardinality(o.needs) <= Cardinality(op.needs)  BY <1>1, SameCardinality
<1>5. op \in Aws!topCandidates(served)  BY <1>1, <1>2, <1>4, LeftIsTop
<1> QED  BY <1>2, <1>3, <1>5

(* A protocol that has operations for a request is one of the three.       *)
LEMMA KnownProtocol ==
  ASSUME NEW n, NEW r, NEW parsed, Aws!ClassifyOperation(n, r, parsed) # {}
  PROVE  n.protocol \in {"rest", "json", "query"}
BY DEF Aws!ClassifyOperation

(* A service with operations for a request, as the connector classifies    *)
(* it, is one that recognises it.                                          *)
LEMMA ClassifiedIsRecognized ==
  ASSUME NEW models, Aws!WellFormed(models), NEW n \in models, NEW r, r.path \in Seq(Seq(STRING)), NEW parsed,
         Aws!ClassifyOperation(n, r, parsed) # {}
  PROVE  Aws!recognizes(n, r, parsed)
<1>1. n.protocol \in {"rest", "json", "query"}  BY KnownProtocol
<1>2. CASE n.protocol = "rest"
  <2>1. PICK segs \in Aws!PathReadings(r.path) :
          Aws!classifyREST(n, r, Aws!classificationSegments(parsed, segs)) # {}
    BY <1>2 DEF Aws!ClassifyOperation, Aws!classifyRESTReadings
  <2>2. segs \in Aws!ServerReadings(r.path) /\ segs \in Seq(Seq(STRING))  BY ReadingsCovered
  <2>3. Aws!classifyREST(n, r, Aws!classificationSegments(parsed, segs)) \subseteq Aws!routed(n, r, parsed, segs)
    BY <2>2, RoutedIsHit DEF Aws!classifyREST, Aws!topCandidates
  <2>4. Aws!routed(n, r, parsed, segs) # {}  BY <2>1, <2>3
  <2> QED  BY <1>2, <2>2, <2>4 DEF Aws!recognizes
<1>3. CASE n.protocol = "json"
  BY <1>3 DEF Aws!ClassifyOperation, Aws!recognizes, Aws!classifyJSONRPC
<1>4. CASE n.protocol = "query"
  <2> DEFINE one == Aws!singleAction(Aws!actionsSent(r))
  <2>1. Aws!classifyQuery(n, r) # {}  BY <1>4 DEF Aws!ClassifyOperation
  <2>2. /\ r.method = "GET" \/ (r.method = "POST" /\ r.urlActions = <<>>)
        /\ Aws!named(n, one) # {}
    BY <2>1 DEF Aws!classifyQuery, Aws!actionsSent
  <2>3. one # Aws!NoName
    <3>1. \A o \in n.operations : o.name # Aws!NoName  BY DEF Aws!WellFormed
    <3> HIDE DEF one
    <3> QED  BY <2>2, <3>1 DEF Aws!named
  <2>4. Len(Aws!actionsSent(r)) = 1
    <3>1. one = IF Len(Aws!actionsSent(r)) = 1 THEN Aws!actionsSent(r)[1] ELSE Aws!NoName
      BY Zenon DEF Aws!singleAction, Aws!NoName
    <3> HIDE DEF one
    <3> QED  BY <2>3, <3>1
  <2>5. Aws!OneAction(r)  BY <2>2, <2>4 DEF Aws!OneAction, Aws!actionsSent
  <2> QED  BY <1>4, <2>2, <2>5 DEF Aws!recognizes
<1> QED  BY <1>1, <1>2, <1>3, <1>4

(* The gate takes for a request every operation that a service it fits may *)
(* run for it.                                                             *)
LEMMA RunsAreClassified ==
  ASSUME NEW models, Aws!WellFormed(models), NEW r, r.path \in Seq(Seq(STRING)),
         r.urlActions \in Seq(STRING), r.bodyActions \in Seq(STRING), NEW parsed,
         NEW m \in models, Aws!fits(m, r), NEW op \in Aws!RunsOf(m, r, parsed)
  PROVE  op \in Aws!ClassifyOperation(m, r, parsed)
<1>1. CASE m.protocol = "rest"
  <2>1. PICK segs \in Aws!ServerReadings(r.path) : op \in Aws!Served(m, r, parsed, segs)
    BY <1>1 DEF Aws!RunsOf
  <2>2. segs \in Aws!PathReadings(r.path) /\ segs \in Seq(Seq(STRING))  BY ReadingsCovered
  <2>3. op \in Aws!classifyREST(m, r, Aws!classificationSegments(parsed, segs))
    BY <2>1, <2>2, ServedIsClassified
  <2>4. op \in Aws!classifyRESTReadings(m, r, parsed)  BY <2>2, <2>3 DEF Aws!classifyRESTReadings
  <2> QED  BY <1>1, <2>4 DEF Aws!ClassifyOperation
<1>2. CASE m.protocol = "json"
  BY <1>2 DEF Aws!ClassifyOperation, Aws!RunsOf, Aws!classifyJSONRPC
<1>3. CASE m.protocol = "query" /\ Aws!OneAction(r)
  <2> DEFINE actions == Aws!actionsSent(r)
             one == Aws!singleAction(actions)
  <2>1. op \in m.operations /\ op.name \in Aws!Range(actions)  BY <1>3 DEF Aws!RunsOf
  <2>2. Aws!classifyQuery(m, r) = Aws!named(m, one)
    BY <1>3 DEF Aws!classifyQuery, Aws!OneAction, Aws!actionsSent
  <2>3. actions \in Seq(STRING) /\ Len(actions) = 1
    BY <1>3 DEF Aws!OneAction, Aws!actionsSent
  <2>4. one = actions[1]
    <3> HIDE DEF actions
    <3> QED  BY <2>3 DEF Aws!singleAction
  <2> HIDE DEF one, actions
  <2>5. op.name = one
    <3>1. DOMAIN actions = 1..1  BY <2>3
    <3> QED  BY <2>1, <2>4, <3>1 DEF Aws!Range
  <2>6. op \in Aws!classifyQuery(m, r)  BY <2>1, <2>2, <2>5 DEF Aws!named
  <2> QED  BY <1>3, <2>6 DEF Aws!ClassifyOperation
<1> QED  BY <1>1, <1>2, <1>3 DEF Aws!fits

(* An operation that needs no permission, or whose actions are known and   *)
(* all allowed by the simulation.                                          *)
Simulated(m, name, ref, dataset, simulate) ==
  \/ Aws!permissionless(m, name)
  \/ /\ Aws!Resolve(m, name, ref, dataset) # {}
     /\ \A a \in Aws!Resolve(m, name, ref, dataset) : simulate[a] = "allowed"

(* Whatever a service of AWS runs for a request that AuthorizeAction       *)
(* admitted (aws/provider.go), by its path as it was sent or decoded, with *)
(* its trailing slash or without, by its target or by its Action, needs    *)
(* only actions that the simulation of the policy allows: for every        *)
(* catalog of models, at endpoints that services of different protocols    *)
(* may share, whatever the sources of actions say, for every policy and    *)
(* every request.                                                          *)
THEOREM AwsOnlyGranted ==
  ASSUME NEW models, Aws!WellFormed(models), NEW ref, NEW dataset, NEW simulate,
         NEW r, r.path \in Seq(Seq(STRING)), r.urlActions \in Seq(STRING), r.bodyActions \in Seq(STRING),
         Aws!AuthorizeAction(models, ref, dataset, simulate, r)
  PROVE  \A run \in Aws!AwsRuns(models, r) : Simulated(run[1], run[2], ref, dataset, simulate)
<1> DEFINE parsed == Aws!ParseHost(r.host)
           classified(m) == Aws!ClassifyOperation(m, r, parsed)
           matched == {m \in Aws!serving(models, parsed) : classified(m) # {}}
           needed(m) == Aws!requiredActions(m, classified(m), ref, dataset)
           required == UNION {needed(m) : m \in matched}
<1>1. matched # {} /\ required \cap Aws!Unresolved = {} /\ \A a \in required : simulate[a] = "allowed"
  BY Zenon DEF Aws!AuthorizeAction, Aws!AllowedAll
<1> HIDE DEF parsed
<1>2. ASSUME NEW m \in Aws!serving(models, parsed), NEW op \in classified(m)
      PROVE  Simulated(m, op.name, ref, dataset, simulate)
  <2> DEFINE of(o) == IF Aws!permissionless(m, o.name) THEN {}
                      ELSE IF Aws!Resolve(m, o.name, ref, dataset) = {} THEN Aws!Unresolved
                      ELSE Aws!Resolve(m, o.name, ref, dataset)
  <2>1. needed(m) = UNION {of(o) : o \in classified(m)}  BY DEF Aws!requiredActions
  <2>2. m \in matched  OBVIOUS
  <2> HIDE DEF needed, of, classified, matched
  <2>3. of(op) \subseteq required  BY <1>2, <2>1, <2>2
  <2> HIDE DEF required
  <2>4. CASE Aws!permissionless(m, op.name)  BY <2>4 DEF Simulated
  <2>5. CASE ~Aws!permissionless(m, op.name)
    <3>1. Aws!Resolve(m, op.name, ref, dataset) # {}
      <4> SUFFICES ASSUME Aws!Resolve(m, op.name, ref, dataset) = {} PROVE FALSE  OBVIOUS
      <4>1. of(op) = Aws!Unresolved  BY <2>5 DEF of
      <4> QED  BY <1>1, <2>3, <4>1, UnresolvedIsOne
    <3>2. of(op) = Aws!Resolve(m, op.name, ref, dataset)  BY <2>5, <3>1 DEF of
    <3> QED  BY <1>1, <2>3, <3>1, <3>2 DEF Simulated
  <2> QED  BY <2>4, <2>5
<1>3. PICK n \in Aws!serving(models, parsed) : Aws!recognizes(n, r, parsed)
  <2>1. PICK n \in Aws!serving(models, parsed) : classified(n) # {}  BY <1>1
  <2>2. n \in models  BY DEF Aws!serving
  <2> QED  BY <2>1, <2>2, ClassifiedIsRecognized
<1>4. ASSUME NEW m \in Aws!Dispatched(models, r, parsed), NEW op \in Aws!RunsOf(m, r, parsed)
      PROVE  m \in Aws!serving(models, parsed) /\ op \in classified(m)
  <2>1. m \in Aws!serving(models, parsed) /\ Aws!fits(m, r)  BY <1>3 DEF Aws!Dispatched
  <2>2. m \in models  BY <2>1 DEF Aws!serving
  <2> QED  BY <2>1, <2>2, RunsAreClassified
<1>5. ASSUME NEW run \in Aws!AwsRuns(models, r)
      PROVE  \E m \in Aws!Dispatched(models, r, parsed) : \E op \in Aws!RunsOf(m, r, parsed) : run = <<m, op.name>>
  BY DEF Aws!AwsRuns, parsed
<1> HIDE DEF classified
<1> QED
  <2> TAKE run \in Aws!AwsRuns(models, r)
  <2>1. PICK m \in Aws!Dispatched(models, r, parsed) : \E op \in Aws!RunsOf(m, r, parsed) : run = <<m, op.name>>
    BY <1>5
  <2>2. PICK op \in Aws!RunsOf(m, r, parsed) : run = <<m, op.name>>  BY <2>1
  <2>3. Simulated(m, op.name, ref, dataset, simulate)  BY <1>2, <1>4
  <2> QED  BY <2>2, <2>3
-----------------------------------------------------------------------------
(* The k-th segment of a template takes what is from a to b of a path.     *)
Takes(tmpl, req, k, a, b) ==
  /\ a <= b
  /\ IF tmpl[k] = Hub!Many THEN b - a > 0 \/ k = Len(tmpl) ELSE b - a = 1
  /\ Hub!isParam(tmpl[k]) \/ tmpl[k] = req[b]

(* The segments from ti on take all of the path that comes after p. *)
IsCut(tmpl, req, ti, p, cut) ==
  /\ cut \in [(ti - 1)..Len(tmpl) -> 0..Len(req)]
  /\ cut[ti - 1] = p /\ cut[Len(tmpl)] = Len(req)
  /\ \A k \in ti..Len(tmpl) : Takes(tmpl, req, k, cut[k - 1], cut[k])
Cuts(tmpl, req, ti, p) == \E cut : IsCut(tmpl, req, ti, p, cut)

LEMMA CutEnds ==
  ASSUME NEW tmpl, Len(tmpl) \in Nat, NEW req, Len(req) \in Nat, NEW p \in 0..Len(req)
  PROVE  Cuts(tmpl, req, Len(tmpl) + 1, p) <=> p = Len(req)
<1> DEFINE l == Len(tmpl)
           cut == [k \in l..l |-> p]
<1>1. (l + 1) - 1 = l /\ l \in l..l /\ (l + 1)..l = {}  OBVIOUS
<1>2. ASSUME p = Len(req) PROVE IsCut(tmpl, req, l + 1, p, cut)
  BY <1>1, <1>2 DEF IsCut
<1>3. ASSUME NEW c, IsCut(tmpl, req, l + 1, p, c) PROVE p = Len(req)
  BY <1>1, <1>3 DEF IsCut
<1> QED  BY <1>2, <1>3 DEF Cuts

LEMMA CutSteps ==
  ASSUME NEW tmpl, Len(tmpl) \in Nat, NEW req, Len(req) \in Nat,
         NEW ti \in 1..Len(tmpl), NEW p \in 0..Len(req)
  PROVE  Cuts(tmpl, req, ti, p) <=> \E q \in 0..Len(req) : Takes(tmpl, req, ti, p, q) /\ Cuts(tmpl, req, ti + 1, q)
<1> DEFINE l == Len(tmpl)
           n == Len(req)
<1>1. (ti + 1) - 1 = ti /\ ti \in (ti - 1)..l /\ ti - 1 \in (ti - 1)..l /\ l \in ti..l  OBVIOUS
<1>2. ASSUME NEW c, IsCut(tmpl, req, ti, p, c)
      PROVE  \E q \in 0..n : Takes(tmpl, req, ti, p, q) /\ Cuts(tmpl, req, ti + 1, q)
  <2> DEFINE d == [k \in ti..l |-> c[k]]
  <2>1. c[ti] \in 0..n /\ Takes(tmpl, req, ti, p, c[ti])  BY <1>1, <1>2 DEF IsCut
  <2>2. d \in [ti..l -> 0..n]  BY <1>2 DEF IsCut
  <2>3. d[ti] = c[ti] /\ d[l] = n  BY <1>1, <1>2 DEF IsCut
  <2>4. ASSUME NEW k \in (ti + 1)..l PROVE Takes(tmpl, req, k, d[k - 1], d[k])
    <3>1. k \in ti..l /\ k - 1 \in ti..l  OBVIOUS
    <3>2. d[k] = c[k] /\ d[k - 1] = c[k - 1]  BY <3>1
    <3> QED  BY <1>2, <3>1, <3>2 DEF IsCut
  <2> HIDE DEF d
  <2>5. IsCut(tmpl, req, ti + 1, c[ti], d)  BY <1>1, <2>2, <2>3, <2>4 DEF IsCut
  <2> QED  BY <2>1, <2>5 DEF Cuts
<1>3. ASSUME NEW q \in 0..n, Takes(tmpl, req, ti, p, q), NEW d, IsCut(tmpl, req, ti + 1, q, d)
      PROVE  Cuts(tmpl, req, ti, p)
  <2> DEFINE c == [k \in (ti - 1)..l |-> IF k = ti - 1 THEN p ELSE d[k]]
  <2>1. d \in [ti..l -> 0..n] /\ d[ti] = q /\ d[l] = n  BY <1>1, <1>3 DEF IsCut
  <2>2. ASSUME NEW k \in ti..l PROVE c[k] = d[k]  OBVIOUS
  <2>3. c \in [(ti - 1)..l -> 0..n]
    <3>1. ASSUME NEW k \in (ti - 1)..l PROVE (IF k = ti - 1 THEN p ELSE d[k]) \in 0..n
      <4>1. k # ti - 1 => k \in ti..l  OBVIOUS
      <4> QED  BY <2>1, <4>1
    <3> QED  BY <3>1
  <2>4. c[ti - 1] = p  BY <1>1
  <2> HIDE DEF c
  <2>5. ASSUME NEW k \in ti..l PROVE Takes(tmpl, req, k, c[k - 1], c[k])
    <3>1. CASE k = ti
      <4>1. c[k] = q /\ c[k - 1] = p  BY <2>1, <2>2, <2>4, <3>1
      <4> QED  BY <1>3, <3>1, <4>1
    <3>2. CASE k # ti
      <4>1. k \in (ti + 1)..l /\ k - 1 \in ti..l  BY <3>2
      <4>2. c[k] = d[k] /\ c[k - 1] = d[k - 1]  BY <2>2, <4>1
      <4> QED  BY <1>3, <4>1, <4>2 DEF IsCut
    <3> QED  BY <3>1, <3>2
  <2>6. c[l] = n  BY <1>1, <2>1, <2>2
  <2>7. IsCut(tmpl, req, ti, p, c)  BY <2>3, <2>4, <2>5, <2>6 DEF IsCut
  <2> QED  BY <2>7 DEF Cuts
<1> QED  BY <1>2, <1>3 DEF Cuts

(* What step of github/table.go asks of a segment and of what is left, a   *)
(* cut answers.                                                            *)
LEMMA CutRecurs ==
  ASSUME NEW tmpl, Len(tmpl) \in Nat, NEW req, Len(req) \in Nat,
         NEW ti \in 1..(Len(tmpl) + 1), NEW p \in 0..Len(req)
  PROVE  Cuts(tmpl, req, ti, p) <=>
           \/ ti = Len(tmpl) + 1 /\ p = Len(req)
           \/ ti = Len(tmpl) /\ tmpl[ti] = Hub!Many
           \/ /\ ti < Len(tmpl) /\ tmpl[ti] = Hub!Many /\ p < Len(req)
              /\ Cuts(tmpl, req, ti, p + 1) \/ Cuts(tmpl, req, ti + 1, p + 1)
           \/ /\ ti <= Len(tmpl) /\ tmpl[ti] # Hub!Many /\ p < Len(req)
              /\ Hub!isParam(tmpl[ti]) \/ tmpl[ti] = req[p + 1]
              /\ Cuts(tmpl, req, ti + 1, p + 1)
<1> DEFINE l == Len(tmpl)
           n == Len(req)
<1>1. CASE ti = l + 1  BY <1>1, CutEnds
<1>2. CASE ti = l /\ tmpl[ti] = Hub!Many
  <2>1. Takes(tmpl, req, ti, p, n)  BY <1>2 DEF Takes, Hub!isParam
  <2>2. Cuts(tmpl, req, ti + 1, n)  BY <1>2, CutEnds
  <2>3. ti \in 1..l /\ n \in 0..n  BY <1>2
  <2>4. Cuts(tmpl, req, ti, p)  BY <2>1, <2>2, <2>3, CutSteps
  <2> QED  BY <1>2, <2>4
<1>3. CASE ti < l /\ tmpl[ti] = Hub!Many
  <2>1. ASSUME NEW a \in 0..n, NEW q \in 0..n PROVE Takes(tmpl, req, ti, a, q) <=> a < q
    BY <1>3 DEF Takes, Hub!isParam
  <2>2. ti \in 1..l  BY <1>3
  <2>3. ASSUME NEW a \in 0..n
        PROVE  Cuts(tmpl, req, ti, a) <=> \E q \in 0..n : a < q /\ Cuts(tmpl, req, ti + 1, q)
    BY <2>1, <2>2, CutSteps
  <2>4. ASSUME Cuts(tmpl, req, ti, p)
        PROVE  p < n /\ (Cuts(tmpl, req, ti, p + 1) \/ Cuts(tmpl, req, ti + 1, p + 1))
    <3>1. PICK q \in 0..n : p < q /\ Cuts(tmpl, req, ti + 1, q)  BY <2>3, <2>4
    <3>2. p < n /\ p + 1 \in 0..n /\ (q = p + 1 \/ p + 1 < q)  BY <3>1
    <3> QED  BY <2>3, <3>1, <3>2
  <2>5. ASSUME p < n, Cuts(tmpl, req, ti, p + 1) \/ Cuts(tmpl, req, ti + 1, p + 1)
        PROVE  Cuts(tmpl, req, ti, p)
    <3>1. p + 1 \in 0..n /\ p < p + 1  BY <2>5
    <3>2. CASE Cuts(tmpl, req, ti, p + 1)
      <4>1. PICK q \in 0..n : p + 1 < q /\ Cuts(tmpl, req, ti + 1, q)  BY <2>3, <3>1, <3>2
      <4>2. p < q  BY <4>1
      <4> QED  BY <2>3, <4>1, <4>2
    <3>3. CASE Cuts(tmpl, req, ti + 1, p + 1)  BY <2>3, <3>1, <3>3
    <3> QED  BY <2>5, <3>2, <3>3
  <2> QED  BY <1>3, <2>4, <2>5
<1>4. CASE ti <= l /\ tmpl[ti] # Hub!Many
  <2>1. ASSUME NEW q \in 0..n
        PROVE  Takes(tmpl, req, ti, p, q) <=> q = p + 1 /\ (Hub!isParam(tmpl[ti]) \/ tmpl[ti] = req[p + 1])
    BY <1>4 DEF Takes
  <2>2. ti \in 1..l  BY <1>4
  <2>3. p < n <=> p + 1 \in 0..n  OBVIOUS
  <2>4. Cuts(tmpl, req, ti, p) <=> \E q \in 0..n : Takes(tmpl, req, ti, p, q) /\ Cuts(tmpl, req, ti + 1, q)
    BY <2>2, CutSteps
  <2> QED  BY <1>4, <2>1, <2>3, <2>4
<1> QED  BY <1>1, <1>2, <1>3, <1>4

(* match (github/table.go) finds a cut, and one segment each is the cut of *)
(* a template without a parameter that takes several.                      *)
LEMMA MatchIsCut ==
  ASSUME NEW tmpl, Len(tmpl) \in Nat, NEW req, Len(req) \in Nat
  PROVE  Hub!match(tmpl, req) <=> Cuts(tmpl, req, 1, 0)
<1> DEFINE l == Len(tmpl)
           n == Len(req)
           places == 1..(l + 1)
           rest(j, left) ==
             {ti \in places :
                \/ ti = l + 1 /\ j = 0
                \/ ti = l /\ tmpl[ti] = Hub!Many
                \/ ti < l /\ tmpl[ti] = Hub!Many /\ j > 0 /\ left \cap {ti, ti + 1} # {}
                \/ ti <= l /\ tmpl[ti] # Hub!Many /\ j > 0 /\ tmpl[ti] \in {Hub!Param, req[n - j + 1]} /\ ti + 1 \in left}
           Steps(f) == f = [j \in 0..n |-> rest(j, f[j - 1])]
           from == CHOOSE f : Steps(f)
           right(j) == {ti \in places : Cuts(tmpl, req, ti, n - j)}
<1>1. Hub!match(tmpl, req) <=> 1 \in from[n]  BY DEF Hub!match
<1>2. right(0) = rest(0, {}) /\ \A left : rest(0, left) = rest(0, {})
  <2>1. n - 0 = n /\ n \in 0..n  OBVIOUS
  <2>2. ASSUME NEW ti \in places
        PROVE  Cuts(tmpl, req, ti, n) <=> ti = l + 1 \/ (ti = l /\ tmpl[ti] = Hub!Many)
    BY <2>1, CutRecurs
  <2> QED  BY <2>1, <2>2
<1>3. ASSUME NEW j \in 1..n PROVE right(j) = rest(j, right(j - 1))
  <2>1. n - j \in 0..n /\ n - j < n /\ n - (j - 1) = (n - j) + 1 /\ n - j + 1 = (n - j) + 1 /\ j > 0 /\ j # 0 /\ n - j # n  OBVIOUS
  <2> DEFINE left == right(j - 1)
  <2>2. \A ti \in places : ti \in left <=> Cuts(tmpl, req, ti, (n - j) + 1)  BY <2>1
  <2>3. \A x : Hub!isParam(x) <=> x = Hub!Param \/ x = Hub!Many  BY DEF Hub!isParam
  <2> HIDE DEF left
  <2>4. ASSUME NEW ti \in places PROVE Cuts(tmpl, req, ti, n - j) <=> ti \in rest(j, left)
    <3>1. ti <= l => ti + 1 \in places  OBVIOUS
    <3>2. left \cap {ti, ti + 1} # {} <=> ti \in left \/ ti + 1 \in left  OBVIOUS
    <3>3. Cuts(tmpl, req, ti, n - j) <=>
            \/ ti = l /\ tmpl[ti] = Hub!Many
            \/ ti < l /\ tmpl[ti] = Hub!Many /\ (Cuts(tmpl, req, ti, (n - j) + 1) \/ Cuts(tmpl, req, ti + 1, (n - j) + 1))
            \/ /\ ti <= l /\ tmpl[ti] # Hub!Many /\ (Hub!isParam(tmpl[ti]) \/ tmpl[ti] = req[(n - j) + 1])
               /\ Cuts(tmpl, req, ti + 1, (n - j) + 1)
      BY <2>1, CutRecurs
    <3>4. ti < l => ti <= l  OBVIOUS
    <3>5. ti \in rest(j, left) <=>
            \/ ti = l /\ tmpl[ti] = Hub!Many
            \/ ti < l /\ tmpl[ti] = Hub!Many /\ (ti \in left \/ ti + 1 \in left)
            \/ ti <= l /\ tmpl[ti] # Hub!Many /\ tmpl[ti] \in {Hub!Param, req[(n - j) + 1]} /\ ti + 1 \in left
      BY <2>1, <3>2
    <3> HIDE DEF places, l, n
    <3>6. ti <= l => (ti + 1 \in left <=> Cuts(tmpl, req, ti + 1, (n - j) + 1))  BY <2>2, <3>1
    <3>7. ti \in left <=> Cuts(tmpl, req, ti, (n - j) + 1)  BY <2>2
    <3> HIDE DEF rest
    <3> QED  BY <2>3, <3>3, <3>4, <3>5, <3>6, <3>7
  <2>5. rest(j, left) \subseteq places  OBVIOUS
  <2> HIDE DEF rest
  <2>6. right(j) = rest(j, left)  BY <2>4, <2>5
  <2> QED  BY <2>6 DEF left
<1>4. Steps([j \in 0..n |-> right(j)])
  <2> DEFINE g == [j \in 0..n |-> right(j)]
  <2>1. ASSUME NEW j \in 0..n PROVE g[j] = rest(j, g[j - 1])
    <3> HIDE DEF rest, right
    <3>1. CASE j = 0  BY <1>2, <3>1
    <3>2. CASE j # 0
      <4>1. j \in 1..n /\ j - 1 \in 0..n  BY <3>2
      <4>2. g[j - 1] = right(j - 1)  BY <4>1
      <4> QED  BY <1>3, <4>1, <4>2
    <3> QED  BY <3>1, <3>2
  <2> HIDE DEF rest, right
  <2> QED  BY <2>1
<1>5. Steps(from)
  <2> HIDE DEF Steps
  <2> QED  BY <1>4
<1>6. ASSUME NEW j \in 0..n PROVE from[j] = rest(j, from[j - 1])
  <2> HIDE DEF from, rest
  <2> QED  BY <1>5
<1> HIDE DEF from, Steps
<1>7. \A j \in 0..n : from[j] = right(j)
  <2> HIDE DEF rest, right
  <2> DEFINE Bad == {j \in 1..n : from[j] # right(j)}
  <2>1. from[0] = right(0)  BY <1>2, <1>6
  <2>2. Bad = {}
    <3> SUFFICES ASSUME Bad # {} PROVE FALSE  OBVIOUS
    <3>1. PICK j \in Bad : \A i \in Bad : j <= i  BY FirstPlace
    <3>2. j \in 1..n /\ j \in 0..n /\ (j - 1 = 0 \/ j - 1 \in 1..n) /\ ~(j <= j - 1)  OBVIOUS
    <3>3. from[j - 1] = right(j - 1)  BY <2>1, <3>1, <3>2
    <3> QED  BY <1>3, <1>6, <3>2, <3>3
  <2> QED  BY <2>1, <2>2
<1>8. n \in 0..n /\ n - n = 0 /\ 1 \in places  OBVIOUS
<1> QED  BY <1>1, <1>7, <1>8

LEMMA FixedIsCut ==
  ASSUME NEW tmpl, Len(tmpl) \in Nat, NEW req, Len(req) \in Nat, DOMAIN tmpl = 1..Len(tmpl),
         \A i \in DOMAIN tmpl : tmpl[i] # Hub!Many
  PROVE  Hub!matchFixed(tmpl, req) <=> Cuts(tmpl, req, 1, 0)
<1> DEFINE l == Len(tmpl)
           n == Len(req)
<1>1. 1 - 1 = 0 /\ 0 \in 0..l /\ l \in 0..l  OBVIOUS
<1>2. ASSUME NEW k \in 1..l, NEW a \in 0..n, NEW b \in 0..n
      PROVE  Takes(tmpl, req, k, a, b) <=> b = a + 1 /\ (Hub!isParam(tmpl[k]) \/ tmpl[k] = req[b])
  <2>1. tmpl[k] # Hub!Many  OBVIOUS
  <2>2. a \in Nat /\ b \in Nat  OBVIOUS
  <2> HIDE DEF n, l
  <2>3. a <= b /\ b - a = 1 <=> b = a + 1  BY <2>2
  <2> QED  BY <2>1, <2>3 DEF Takes
<1>3. ASSUME Hub!matchFixed(tmpl, req) PROVE Cuts(tmpl, req, 1, 0)
  <2> DEFINE c == [k \in 0..l |-> k]
  <2>1. l = n /\ \A i \in 1..l : Hub!isParam(tmpl[i]) \/ tmpl[i] = req[i]  BY <1>3 DEF Hub!matchFixed
  <2>2. c \in [0..l -> 0..n] /\ c[0] = 0 /\ c[l] = n  BY <1>1, <2>1
  <2>3. ASSUME NEW k \in 1..l PROVE c[k] = k /\ c[k - 1] = k - 1 /\ c[k] \in 0..n /\ c[k - 1] \in 0..n  BY <2>1
  <2> HIDE DEF c
  <2>4. ASSUME NEW k \in 1..l PROVE Takes(tmpl, req, k, c[k - 1], c[k])  BY <1>2, <2>1, <2>3
  <2>5. IsCut(tmpl, req, 1, 0, c)  BY <1>1, <2>2, <2>4 DEF IsCut
  <2> QED  BY <2>5 DEF Cuts
<1>4. ASSUME Cuts(tmpl, req, 1, 0) PROVE Hub!matchFixed(tmpl, req)
  <2>1. PICK c : IsCut(tmpl, req, 1, 0, c)  BY <1>4 DEF Cuts
  <2>2. c \in [0..l -> 0..n] /\ c[0] = 0 /\ c[l] = n /\ \A k \in 1..l : Takes(tmpl, req, k, c[k - 1], c[k])
    BY <1>1, <2>1 DEF IsCut
  <2>3. ASSUME NEW k \in 1..l PROVE c[k] = c[k - 1] + 1 /\ (Hub!isParam(tmpl[k]) \/ tmpl[k] = req[c[k]])
    <3>1. k \in 0..l /\ k - 1 \in 0..l  OBVIOUS
    <3>2. c[k] \in 0..n /\ c[k - 1] \in 0..n  BY <2>2, <3>1
    <3> QED  BY <1>2, <2>2, <3>2
  <2> DEFINE Bad == {k \in 1..l : c[k] # k}
  <2>4. Bad = {}
    <3> SUFFICES ASSUME Bad # {} PROVE FALSE  OBVIOUS
    <3>1. PICK k \in Bad : \A i \in Bad : k <= i  BY FirstPlace
    <3>2. k \in 1..l /\ c[k] # k /\ (k - 1 = 0 \/ k - 1 \in 1..l) /\ ~(k <= k - 1)  OBVIOUS
    <3>3. c[k - 1] = k - 1  BY <2>2, <3>1, <3>2
    <3> QED  BY <2>3, <3>2, <3>3
  <2>5. \A k \in 1..l : c[k] = k  BY <2>4
  <2>6. l = n
    <3>1. l = 0 \/ l \in 1..l  OBVIOUS
    <3> QED  BY <2>2, <2>5, <3>1
  <2> QED  BY <2>3, <2>5, <2>6 DEF Hub!matchFixed
<1> QED  BY <1>3, <1>4

(* matchTemplate takes the paths that GitHub serves by the template. *)
LEMMA ServesIsMatch ==
  ASSUME NEW S, NEW t, t.segments \in Seq(S), NEW segs \in Seq(S)
  PROVE  Hub!Serves(t, segs) <=> Hub!matchTemplate(t.segments, segs)
<1> DEFINE tmpl == t.segments
           l == Len(tmpl)
           n == Len(segs)
<1>1. l \in Nat /\ n \in Nat /\ DOMAIN tmpl = 1..l  OBVIOUS
<1>2. Hub!matchTemplate(tmpl, segs) <=> Cuts(tmpl, segs, 1, 0)
  BY <1>1, FixedIsCut, MatchIsCut DEF Hub!matchTemplate
<1>3. Hub!Serves(t, segs) <=> \E c \in [0..l -> 0..n] : c[0] = 0 /\ c[l] = n /\ \A k \in 1..l : Takes(tmpl, segs, k, c[k - 1], c[k])
  BY DEF Hub!Serves, Takes
<1>4. 1 - 1 = 0  OBVIOUS
<1>5. Cuts(tmpl, segs, 1, 0) <=> \E c \in [0..l -> 0..n] : c[0] = 0 /\ c[l] = n /\ \A k \in 1..l : Takes(tmpl, segs, k, c[k - 1], c[k])
  BY <1>4 DEF Cuts, IsCut
<1> QED  BY <1>2, <1>3, <1>5

(* The routes that GitHub may run are those that Lookup finds, when it     *)
(* finds one for the path as it was sent.                                  *)
LEMMA RunsAreFound ==
  ASSUME NEW S, NEW doc, \A t \in doc : t.segments \in Seq(S), NEW table \in SUBSET doc,
         NEW r, r.path \in Seq(S), NEW method, method = IF r.method \in {"HEAD", "OPTIONS"} THEN "GET" ELSE r.method,
         \A t \in doc : t.method = method => t \in table,
         Hub!Lookup(table, method, r.path) # {}
  PROVE  Hub!GithubRuns(doc, r) \subseteq Hub!Lookup(table, method, r.path)
<1> DEFINE routes == {t \in table : t.method = method}
           asSent == Hub!best(routes, r.path)
           dropped == Hub!dropOneTrailingSlash(r.path)
           hits(segs) == {t \in doc : t.method = method /\ Hub!Serves(t, segs)}
           most(segs) == {t \in hits(segs) : \A u \in hits(segs) : Hub!literals(u.segments) <= Hub!literals(t.segments)}
           readings == {r.path} \cup (IF Len(r.path) > 1 /\ Hub!Last(r.path) = Hub!Empty /\ r.path[Len(r.path) - 1] # Hub!Empty
                                      THEN {Hub!Front(r.path)} ELSE {})
<1>1. Hub!Lookup(table, method, r.path) = asSent \cup UNION {Hub!best(routes, s) : s \in dropped}
  BY DEF Hub!Lookup
<1>2. Hub!GithubRuns(doc, r) = UNION {most(segs) : segs \in readings}
  BY DEF Hub!GithubRuns
<1>3. ASSUME NEW segs \in Seq(S) PROVE most(segs) = Hub!best(routes, segs)
  <2>1. ASSUME NEW t \in doc PROVE Hub!Serves(t, segs) <=> Hub!matchTemplate(t.segments, segs)
    BY ServesIsMatch
  <2>2. hits(segs) = {t \in routes : Hub!matchTemplate(t.segments, segs)}  BY <2>1
  <2> QED  BY <2>2 DEF Hub!best
<1>4. ASSUME NEW segs \in readings PROVE segs \in Seq(S) /\ (segs = r.path \/ segs \in dropped)
  <2>1. CASE segs = r.path  BY <2>1
  <2>2. CASE segs # r.path
    <3>1. /\ Len(r.path) > 1 /\ Hub!Last(r.path) = Hub!Empty /\ r.path[Len(r.path) - 1] # Hub!Empty
          /\ segs = Hub!Front(r.path)
      BY <2>2
    <3>2. segs = SubSeq(r.path, 1, Len(r.path) - 1)  BY <3>1 DEF Hub!Front
    <3>3. segs \in Seq(S) /\ Len(segs) = Len(r.path) - 1 /\ segs[Len(r.path) - 1] = r.path[Len(r.path) - 1]
      BY <3>1, <3>2
    <3>4. Hub!Last(segs) # Hub!Empty  BY <3>1, <3>3 DEF Hub!Last
    <3>5. segs \in dropped  BY <3>1, <3>4 DEF Hub!dropOneTrailingSlash
    <3> QED  BY <3>3, <3>5
  <2> QED  BY <2>1, <2>2
<1> SUFFICES ASSUME NEW t \in Hub!GithubRuns(doc, r) PROVE t \in Hub!Lookup(table, method, r.path)  OBVIOUS
<1> HIDE DEF most, readings, dropped
<1>5. PICK segs \in readings : t \in most(segs)  BY <1>2
<1>6. t \in Hub!best(routes, segs)  BY <1>3, <1>4, <1>5
<1> QED  BY <1>1, <1>4, <1>6

(* The levels of an operator over those of the connector. *)
LEMMA ExposureType ==
  ASSUME NEW operator, NEW e, e = Hub!BuildExposure(Hub!BaselineExposure, operator)
  PROVE  /\ e \in [DOMAIN e -> 0..2]
         /\ Hub!Default \in DOMAIN e /\ <<Hub!SecretScanning>> \in DOMAIN e
<1> DEFINE base == Hub!BaselineExposure
           levels == Hub!Levels
           given == {key \in DOMAIN operator : operator[key] \in DOMAIN levels}
<1>1. DOMAIN levels = {"none", "read", "write"} /\ \A x \in DOMAIN levels : levels[x] \in 0..2
  BY DEF Hub!Levels
<1>2. DOMAIN base = {Hub!Default, <<Hub!SecretScanning>>} /\ \A k \in DOMAIN base : base[k] \in 0..2
  BY DEF Hub!BaselineExposure, Hub!Levels
<1>3. e = [k \in given \cup DOMAIN base |-> IF k \in given THEN levels[operator[k]] ELSE base[k]]
  BY DEF Hub!BuildExposure
<1> HIDE DEF levels, base
<1>4. \A k \in given : levels[operator[k]] \in 0..2  BY <1>1
<1> QED  BY <1>2, <1>3, <1>4

LEMMA OneBeforeLast ==
  ASSUME NEW K, NEW a \in K, NEW b \in K, NEW keys, keys = <<>> \o <<a>> \/ keys = <<b>> \o <<a>>
  PROVE  keys \in Seq(K) /\ Len(keys) \in {1, 2} /\ keys[Len(keys)] = a
<1>1. <<a>> \in Seq(K) /\ Len(<<a>>) = 1 /\ <<a>>[1] = a  OBVIOUS
<1>2. <<b>> \in Seq(K) /\ Len(<<b>>) = 1  OBVIOUS
<1>3. CASE keys = <<>> \o <<a>>
  <2>1. keys = <<a>>  BY <1>1, <1>3, ConcatEmptySeq
  <2> QED  BY <1>1, <2>1
<1>4. CASE keys = <<b>> \o <<a>>
  <2>1. keys \in Seq(K) /\ Len(keys) = 2  BY <1>1, <1>2, <1>4, ConcatProperties
  <2>2. keys[2] = <<a>>[1]
    <3>1. PICK x \in Seq(K) : x = <<a>> /\ Len(x) = 1  BY <1>1
    <3>2. PICK y \in Seq(K) : y = <<b>> /\ Len(y) = 1  BY <1>2
    <3>3. keys = y \o x  BY <1>4, <3>1, <3>2
    <3>4. (y \o x)[2] = x[1]
      <4>1. 2 \in 1..(Len(y) + Len(x)) /\ ~(2 <= Len(y)) /\ 2 - Len(y) = 1  BY <3>1, <3>2
      <4>2. (y \o x)[2] = IF 2 <= Len(y) THEN y[2] ELSE x[2 - Len(y)]
        BY <4>1, ConcatProperties
      <4> QED  BY <4>1, <4>2
    <3> QED  BY <3>1, <3>3, <3>4
  <2> QED  BY <1>1, <2>1, <2>2
<1> QED  BY <1>3, <1>4

(* The ceiling of a route is one that its category has, if there is one. *)
LEMMA CeilingOf ==
  ASSUME NEW e, Hub!Default \in DOMAIN e, NEW t
  PROVE  \E k \in DOMAIN e : /\ Hub!Resolve(e, t) = e[k]
                             /\ <<t.category>> \in DOMAIN e => k[1] = t.category
<1> DEFINE wide == <<t.category>>
           narrow == <<t.category, t.subcategory>>
           keys == (IF t.subcategory = "" THEN <<>> ELSE <<narrow>>) \o <<wide>>
           in == {i \in DOMAIN keys : keys[i] \in DOMAIN e}
           first == CHOOSE i \in in : \A j \in in : i <= j
<1>1. wide[1] = t.category /\ narrow[1] = t.category  OBVIOUS
<1> DEFINE Keys == {wide, narrow}
<1>2. wide \in Keys /\ narrow \in Keys  OBVIOUS
<1> HIDE DEF wide, narrow, Keys
<1>3. /\ keys \in Seq(Keys) /\ Len(keys) \in {1, 2} /\ keys[Len(keys)] = wide
  <2>1. keys = <<>> \o <<wide>> \/ keys = <<narrow>> \o <<wide>>  OBVIOUS
  <2> HIDE DEF keys
  <2> QED  BY <1>2, <2>1, OneBeforeLast
<1>4. Hub!Resolve(e, t) = IF in = {} THEN e[Hub!Default] ELSE e[keys[first]]
  BY DEF Hub!Resolve, Hub!Ceiling, wide, narrow
<1> HIDE DEF keys
<1>5. DOMAIN keys = 1..Len(keys) /\ Len(keys) \in Nat /\ Len(keys) \in DOMAIN keys  BY <1>3
<1>6. \A i \in DOMAIN keys : keys[i] \in Keys  BY <1>3, <1>5
<1>7. CASE in = {}
  <2>1. wide \notin DOMAIN e  BY <1>3, <1>5, <1>7
  <2> QED  BY <1>4, <1>7, <2>1 DEF wide
<1>8. CASE in # {}
  <2>1. in \in SUBSET (1..Len(keys))  BY <1>5
  <2> HIDE DEF in
  <2>2. \E i \in in : \A j \in in : i <= j  BY <1>5, <1>8, <2>1, FirstPlace
  <2>3. first \in in  BY <2>2
  <2> HIDE DEF first
  <2>4. keys[first] \in DOMAIN e /\ keys[first] \in Keys  BY <1>6, <2>3 DEF in
  <2>5. Hub!Resolve(e, t) = e[keys[first]]  BY <1>4, <1>8
  <2>6. keys[first][1] = t.category  BY <1>1, <2>4 DEF Keys
  <2> QED  BY <2>4, <2>5, <2>6
<1> QED  BY <1>7, <1>8

(* What a request needs of a forge: to read or to write. *)
Needs(r) ==
  IF \/ r.method \in {"GET", "HEAD", "OPTIONS"}
     \/ r.method = "POST" /\ r.path \in {<<<<"markdown">>>>, <<<<"markdown">>, <<"raw">>>>}
  THEN 1 ELSE 2
OfSecrets(t) == \E i \in DOMAIN t.segments : t.segments[i] = <<Hub!SecretScanning>>

(* Whatever route GitHub runs for a request that AuthorizeAction admitted  *)
(* to its API (github.go), by its path as it was sent or without a         *)
(* trailing slash, is within the ceiling of its category; a route of       *)
(* secrets is within a ceiling that is about secrets; and the inventory    *)
(* warned of whatever may be written and of any secrets that may be read   *)
(* (github/posture.go): for every document, operator and request.          *)
THEOREM HubOnlyGranted ==
  ASSUME NEW S, NEW doc, \A t \in doc : t.segments \in Seq(S),
         NEW operator, NEW e, e = Hub!BuildExposure(Hub!BaselineExposure, operator),
         NEW r, r.path \in Seq(S), r.host = "api.github.com",
         Hub!AuthorizeAction({table \in Hub!DistillOpenAPI(doc) : Hub!AdmitTable(table)}, e, r)
  PROVE  \A t \in Hub!GithubRuns(doc, r) :
           /\ Hub!Allows(Hub!Resolve(e, t), Needs(r))
           /\ OfSecrets(t) => \E k \in DOMAIN e : k[1] = Hub!SecretScanning /\ Hub!Allows(e[k], Needs(r))
           /\ Needs(r) = 2 \/ OfSecrets(t) => Hub!PostureLoud(e, Hub!SecretScanning)
<1> DEFINE method == IF r.method \in {"HEAD", "OPTIONS"} THEN "GET" ELSE r.method
           ops == {o \in doc : o.method \in {"GET", "HEAD", "POST", "PUT", "PATCH", "DELETE", "OPTIONS"}}
<1>1. r.host \notin Hub!downloadHosts  BY DEF Hub!downloadHosts
<1>2. PICK table \in Hub!DistillOpenAPI(doc) :
        /\ Hub!AdmitTable(table) /\ Hub!ClassifyRequest(table, r.method, r.path) # {}
        /\ \A t \in Hub!ClassifyRequest(table, r.method, r.path), need \in Hub!RequiredLevel(r.method, r.path) :
             Hub!Allows(Hub!Resolve(e, t), need)
  BY <1>1 DEF Hub!AuthorizeAction
<1>3. table = ops  BY DEF Hub!DistillOpenAPI
<1>4. /\ Hub!RequiredLevel(r.method, r.path) # {}
      /\ Hub!ClassifyRequest(table, r.method, r.path) = Hub!Lookup(table, method, r.path)
  BY <1>2 DEF Hub!ClassifyRequest
<1>5. r.method \in {"GET", "HEAD", "OPTIONS", "POST", "PUT", "PATCH", "DELETE"} /\ Needs(r) \in Hub!RequiredLevel(r.method, r.path)
  BY <1>4 DEF Hub!RequiredLevel, Needs
<1>6. \A t \in doc : t.method = method => t \in table  BY <1>3, <1>5
<1>7. table \in SUBSET doc  BY <1>3
<1>8. Hub!GithubRuns(doc, r) \subseteq Hub!Lookup(table, method, r.path)
  <2> HIDE DEF ops
  <2>1. PICK m : m = method  OBVIOUS
  <2> QED  BY <1>2, <1>4, <1>6, <1>7, <2>1, RunsAreFound
<1>9. Needs(r) \in {1, 2}  BY DEF Needs
<1>10. e \in [DOMAIN e -> 0..2] /\ Hub!Default \in DOMAIN e /\ <<Hub!SecretScanning>> \in DOMAIN e  BY ExposureType
<1> SUFFICES ASSUME NEW t \in Hub!GithubRuns(doc, r)
             PROVE  /\ Hub!Allows(Hub!Resolve(e, t), Needs(r))
                    /\ OfSecrets(t) => \E k \in DOMAIN e : k[1] = Hub!SecretScanning /\ Hub!Allows(e[k], Needs(r))
                    /\ Needs(r) = 2 \/ OfSecrets(t) => Hub!PostureLoud(e, Hub!SecretScanning)
  OBVIOUS
<1> HIDE DEF method, ops
<1>11. t \in table /\ Hub!Allows(Hub!Resolve(e, t), Needs(r))
  <2>1. t \in Hub!Lookup(table, method, r.path)  BY <1>8
  <2>2. \A routes, segs : Hub!best(routes, segs) \subseteq routes  BY DEF Hub!best
  <2>3. t \in table
    <3> DEFINE routes == {u \in table : u.method = method}
               dropped == Hub!dropOneTrailingSlash(r.path)
    <3>1. t \in Hub!best(routes, r.path) \/ \E s \in dropped : t \in Hub!best(routes, s)
      BY <2>1 DEF Hub!Lookup
    <3> HIDE DEF routes, dropped
    <3>2. t \in routes  BY <2>2, <3>1
    <3> QED  BY <3>2 DEF routes
  <2> QED  BY <1>2, <1>4, <1>5, <2>1, <2>3
<1>12. PICK k \in DOMAIN e : /\ Hub!Resolve(e, t) = e[k]
                             /\ <<t.category>> \in DOMAIN e => k[1] = t.category
  BY <1>10, CeilingOf
<1>13. e[k] \in 0..2 /\ e[k] >= Needs(r)  BY <1>10, <1>11, <1>12 DEF Hub!Allows
<1>14. ASSUME OfSecrets(t) PROVE k[1] = Hub!SecretScanning
  BY <1>2, <1>10, <1>11, <1>12, <1>14 DEF Hub!AdmitTable, OfSecrets
<1>15. ASSUME Needs(r) = 2 \/ OfSecrets(t) PROVE Hub!PostureLoud(e, Hub!SecretScanning)
  <2>1. Hub!Levels["write"] = 2 /\ Hub!Levels["none"] = 0  BY DEF Hub!Levels
  <2>2. CASE Needs(r) = 2
    <3>1. e[k] = 2  BY <1>13, <2>2
    <3> QED  BY <2>1, <3>1 DEF Hub!PostureLoud
  <2>3. CASE OfSecrets(t)
    <3>1. k[1] = Hub!SecretScanning /\ e[k] # 0  BY <1>9, <1>13, <1>14, <2>3
    <3> QED  BY <2>1, <3>1 DEF Hub!PostureLoud
  <2> QED  BY <1>15, <2>2, <2>3
<1> QED  BY <1>11, <1>13, <1>14, <1>15 DEF Hub!Allows
=============================================================================
