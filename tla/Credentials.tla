---------------------------- MODULE Credentials ----------------------------
(***************************************************************************)
(* Where a session's credentials come from once its connectors are up:     *)
(*  - the bootstrap that the first request of a cloud connector runs for   *)
(*    all of them (lazyInit);                                              *)
(*  - the credentials of an AWS session, scoped to the policy by assuming  *)
(*    the caller's own role, and the base credentials when STS refuses     *)
(*    that (ScopedProvider);                                               *)
(*  - the token that glab hands out for GitLab, kept until it is about to  *)
(*    expire (glabHelperSource).                                           *)
(* Time is counted in units of 30 seconds.                                 *)
(***************************************************************************)
EXTENDS Naturals, FiniteSets

CONSTANTS Requests,     \* requests, each made once
          MaxNow,       \* bound: the clock
          TokenLife     \* how long a token of glab lives

ASSUME CredentialsAssumption == MaxNow \in Nat /\ TokenLife \in Nat \ {0}
ASSUME RequestsAssumption == \A r \in Requests : r \notin {"idle", "done", "none"}

VARIABLES
  caller,      \* "user" or "assumed role", what STS says the base credentials are
  scope,       \* the ScopedProvider: [mode, armed, degraded], and what the inventory says of it
  denied,      \* STS refused the role
  notices,     \* notices of a degraded scope on standard error
  once,        \* the request that runs the bootstrap, "idle" or "done"
  notReady,    \* what the bootstrap failed of, "" if not
  canceled,    \* requests whose context ended
  stage,       \* of each request
  cached,      \* the SDK's cache of credentials
  signed       \* credentials that requests were signed with

awsVars == <<caller, scope, denied, notices, once, notReady, canceled, stage, cached, signed>>

AwsInit ==
  /\ caller \in {"user", "assumed role"}
  /\ scope = [mode |-> "unresolved", armed |-> FALSE, degraded |-> FALSE, enforced |-> ""]
  /\ denied = FALSE /\ notices = 0 /\ once = "idle" /\ notReady = "" /\ canceled = {}
  /\ stage = [r \in Requests |-> "idle"] /\ cached = "none" /\ signed = {}

(* Every caller but an assumed role runs with its base credentials. *)
DetectCredScope == IF caller = "assumed role" THEN "assume role" ELSE "disabled"

(* Mutant: whatever fails is a refusal. *)
isAccessDenied_Any(answer) == answer # "ok"

isAccessDenied(answer) == answer = "denied"

(* One answer of STS: credentials, a refusal, or something else. *)
assumeRole == {"ok", "denied", "transient"}

(* Retrieve: what the scope becomes, and the credentials ("" on an error). *)
degradedBy(mode, degraded, answer) ==
  degraded \/ (mode = "assume role" /\ isAccessDenied(answer))
retrieved(mode, degraded, answer) ==
  CASE mode = "disabled" \/ degraded -> "base"
    [] OTHER -> IF isAccessDenied(answer) THEN "base" ELSE IF answer = "ok" THEN "scoped" ELSE ""

(* What the inventory says of a scope. *)
awsEnforced(mode, verified) ==
  IF mode # "assume role" THEN "client" ELSE IF verified THEN "client+aws" ELSE "client+aws(unverified)"

(* One attempt at registration, silent; a refusal is told once in the      *)
(* startup notice, otherwise the provider is armed to tell it later.       *)
ResolveScope ==
  /\ scope.mode = "unresolved"
  /\ \E answer \in assumeRole :
       LET mode == DetectCredScope
           gone == degradedBy(mode, FALSE, answer)
           shown == IF gone THEN "disabled" ELSE mode
       IN /\ mode = "disabled" => answer = "ok"           \* STS is not asked
          /\ scope' = [mode |-> mode, armed |-> mode # "disabled" /\ ~gone, degraded |-> gone,
                       enforced |-> awsEnforced(shown, answer = "ok")]
          /\ notices' = notices + (IF gone THEN 1 ELSE 0)  \* awsScopeDegraded
          /\ denied' = (denied \/ (mode # "disabled" /\ answer = "denied"))
          /\ cached' = IF mode = "disabled" \/ retrieved(mode, FALSE, answer) = "" THEN "none"
                       ELSE retrieved(mode, FALSE, answer)
  /\ UNCHANGED <<caller, once, notReady, canceled, stage, signed>>

Advance(r, to) == stage' = [stage EXCEPT ![r] = to]

(* The first to come runs the bootstrap, the others wait for it. *)
ensureReady(r) ==
  /\ scope.mode # "unresolved" /\ stage[r] = "idle"
  /\ CASE once = "idle" -> Advance(r, "bootstrap") /\ once' = r
       [] once = "done" -> Advance(r, IF notReady = "" THEN "ready" ELSE "refused") /\ UNCHANGED once
       [] OTHER         -> Advance(r, "waiting") /\ UNCHANGED once
  /\ UNCHANGED <<caller, scope, denied, notices, notReady, canceled, cached, signed>>

Cancel(r) ==
  /\ stage[r] # "idle" /\ r \notin canceled /\ canceled' = canceled \cup {r}
  /\ UNCHANGED <<caller, scope, denied, notices, once, notReady, stage, cached, signed>>

(* Mutant: the bootstrap ends with the request that happens to run it. *)
bootstrapContext_Callers(r) == r \in canceled

(* Whether the bootstrap is canceled: it is detached from its request, and *)
(* has a budget of its own.                                                *)
bootstrapContext(r) == FALSE

(* What the bootstrap of each cloud may fail of, "" if of nothing. *)
awsLazyResolve == {"", "policy fetch"}
azureLazyResolve == {"", "identity", "roles"}
gcpLazyResolve == {"", "identity", "project unresolved", "roles", "permission catalog"}

(* Policy, role or permissions are fetched, or not; the outcome is kept    *)
(* for the life of the process, and those that wait get it.                *)
doLazyResolve(r) ==
  /\ once = r
  /\ \E answer \in awsLazyResolve \cup azureLazyResolve \cup gcpLazyResolve \cup {"out of time", "canceled"} :
       /\ answer = "canceled" => bootstrapContext(r)
       /\ notReady' = answer
       /\ stage' = [q \in Requests |-> IF stage[q] \notin {"bootstrap", "waiting"} THEN stage[q]
                                       ELSE IF answer = "" THEN "ready" ELSE "refused"]
  /\ once' = "done"
  /\ UNCHANGED <<caller, scope, denied, notices, canceled, cached, signed>>

(* Retrieve behind the SDK's cache, one flight at a time. *)
InjectAuth(r) ==
  /\ stage[r] = "ready"
  /\ \/ /\ r \in canceled /\ Advance(r, "failed")
        /\ UNCHANGED <<scope, denied, notices, cached, signed>>
     \/ /\ r \notin canceled /\ cached # "none"
        /\ Advance(r, "signed") /\ signed' = signed \cup {cached}
        /\ UNCHANGED <<scope, denied, notices, cached>>
     \/ /\ r \notin canceled /\ cached = "none"
        /\ \E answer \in assumeRole :
             LET creds == retrieved(scope.mode, scope.degraded, answer)
                 gone == degradedBy(scope.mode, scope.degraded, answer)
                 asked == scope.mode = "assume role" /\ ~scope.degraded
             IN /\ asked \/ answer = "ok"
                /\ scope' = [scope EXCEPT !.degraded = gone]
                /\ denied' = (denied \/ (asked /\ answer = "denied"))
                /\ notices' = notices + (IF gone /\ ~scope.degraded /\ scope.armed THEN 1 ELSE 0)
                /\ cached' = IF creds = "" THEN "none" ELSE creds
                /\ signed' = IF creds = "" THEN signed ELSE signed \cup {creds}
                /\ Advance(r, IF creds = "" THEN "failed" ELSE "signed")
  /\ UNCHANGED <<caller, once, notReady, canceled>>

Expire ==
  /\ cached # "none" /\ cached' = "none"
  /\ UNCHANGED <<caller, scope, denied, notices, once, notReady, canceled, stage, signed>>

AwsNext ==
  \/ ResolveScope \/ Expire
  \/ \E r \in Requests : ensureReady(r) \/ Cancel(r) \/ doLazyResolve(r) \/ InjectAuth(r)
-----------------------------------------------------------------------------
VARIABLES
  now,         \* the clock
  token,       \* the cached token's expiry, 0 if it never expires
  lastFail,    \* when the helper last failed, 0 if not since
  lock,        \* the request in Token(), and the time it read there
  running,     \* the helper runs
  asked,       \* when each request asked
  handed,      \* the expiry of the token it got, 0 if it never expires
  step         \* of each request

labVars == <<now, token, lastFail, lock, running, asked, handed, step>>

Skew == 2
Cooldown == 1
NoLock == [by |-> "none", at |-> 0]

LabInit ==
  /\ now = 1 /\ token \in {0, 1 + TokenLife} /\ lastFail = 0 /\ lock = NoLock /\ running = FALSE
  /\ asked = [r \in Requests |-> 0] /\ handed = [r \in Requests |-> 0] /\ step = [r \in Requests |-> "idle"]

(* A run of the helper is cut off after one unit. *)
Tick ==
  /\ now < MaxNow /\ ~(running /\ now > lock.at)
  /\ now' = now + 1 /\ UNCHANGED <<token, lastFail, lock, running, asked, handed, step>>

glabNeedsRefresh(t) == token # 0 /\ t + Skew > token
glabHardExpired(t) == token # 0 /\ t >= token

(* Mutant: the cached token is as good as any. *)
cachedIfUsable_Any(t) == TRUE

cachedIfUsable(t) == ~glabHardExpired(t)

Leave(r, got) ==
  /\ lock' = NoLock /\ running' = FALSE
  /\ step' = [step EXCEPT ![r] = IF got THEN "token" ELSE "none"]
  /\ handed' = IF got THEN [handed EXCEPT ![r] = token'] ELSE handed

(* Token() up to the helper: the clock is read once, under the lock. *)
Ask(r) ==
  /\ step[r] = "idle"
  /\ step' = [step EXCEPT ![r] = "asks"] /\ asked' = [asked EXCEPT ![r] = now]
  /\ UNCHANGED <<now, token, lastFail, lock, running, handed>>

Token(r) ==
  /\ step[r] = "asks" /\ lock = NoLock
  /\ LET cooling == lastFail # 0 /\ now < lastFail + Cooldown IN
       \/ ~glabNeedsRefresh(now) /\ UNCHANGED token /\ Leave(r, TRUE)
       \/ glabNeedsRefresh(now) /\ cooling /\ UNCHANGED token /\ Leave(r, cachedIfUsable(now))
       \/ /\ glabNeedsRefresh(now) /\ ~cooling
          /\ lock' = [by |-> r, at |-> now] /\ running' = TRUE /\ UNCHANGED <<token, step, handed>>
  /\ UNCHANGED <<now, lastFail, asked>>

(* What it does with the helper's answer, by the time it read before. *)
Fetched(r) ==
  /\ lock.by = r /\ running
  /\ \/ token' = now + TokenLife /\ lastFail' = 0 /\ Leave(r, TRUE)
     \/ /\ lastFail' = lock.at /\ UNCHANGED token
        /\ Leave(r, cachedIfUsable(lock.at))
  /\ UNCHANGED <<now, asked>>

LabNext == Tick \/ \E r \in Requests : Ask(r) \/ Token(r) \/ Fetched(r)
-----------------------------------------------------------------------------
(* federation.go:106-171: a session of an assumed role is signed with the  *)
(* base credentials only once STS has refused the scope, and the operator  *)
(* is told that, once, at startup or when it happens; the inventory calls  *)
(* the scope verified only when it was.                                    *)
OperatorKnows ==
  /\ caller = "assumed role" /\ "base" \in signed => denied /\ notices = 1
  /\ notices <= 1 /\ (notices = 1 => denied)
  /\ scope.enforced = "client" /\ caller = "assumed role" => denied
  /\ caller = "user" => notices = 0 /\ signed \subseteq {"base"}

(* lazyinit.go:9-16: no request is told that the connector is not ready    *)
(* because another was canceled; all that waited get the one outcome.      *)
NotReadyIsReal ==
  /\ \A r \in Requests : stage[r] = "refused" => notReady \notin {"", "canceled"}
  /\ once = "done" => \A r \in Requests : stage[r] \notin {"bootstrap", "waiting"}

(* gitlab_glab.go:220-227: a token that is handed out was not expired when *)
(* it was asked for, also when the helper fails or is not run again.       *)
TokenValidWhenAsked ==
  \A r \in Requests : step[r] = "token" => handed[r] = 0 \/ handed[r] > asked[r]
=============================================================================
