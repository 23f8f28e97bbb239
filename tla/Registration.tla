---------------------------- MODULE Registration ----------------------------
(***************************************************************************)
(* How the connectors come up at startup: every registrar loads what it    *)
(* was configured with, probes the credential and validates the ceiling,   *)
(* all concurrently; one consumer shows their lines as they arrive and     *)
(* collects the providers.                                                 *)
(*                                                                         *)
(* A probe's answer is "ok", "denied" (definitive) or "transient".         *)
(***************************************************************************)
EXTENDS Naturals, Sequences, FiniteSets, SequencesExt

CONSTANTS Registrars,    \* the sequences of connectors that are tried
          Signals,       \* variables and files that say a connector is meant to be there
          Kubeconfigs,   \* what a kubeconfig may say, [readable |-> FALSE] if it cannot be read
          GitlabSetups   \* hosts, token of the environment, and what glab answers

connectors == {"github", "gitlab", "aws", "gcp", "azure", "kubernetes"}
ASSUME RegistrarsAssumption == \A r \in Registrars : r \in Seq(connectors) /\ IsInjective(r)

Setup == INSTANCE ConnectorSetup

VARIABLES
  registrars,   \* in their order
  explicit,     \* those the environment is configured for
  verbose,
  at,           \* the step each registrar is at
  failed,       \* what its last step that failed answered
  outcome,      \* what it returned
  channel,      \* outcomes the consumer has not taken
  shown,        \* lines of the inventory, in the order they were shown
  byIndex,      \* those whose outcomes it took
  providers,    \* what the session gets
  doctor        \* what the doctor command concluded

configured == <<registrars, explicit, verbose>>
regVars == <<configured, at, failed, outcome, channel, shown, byIndex, providers, doctor>>

RegSet == Range(registrars)
NoOutcome == [registered |-> FALSE, visible |-> FALSE, actionable |-> FALSE]
Available == [registered |-> TRUE, visible |-> TRUE, actionable |-> FALSE]

forge == {"github", "gitlab"}
Answers == {"ok", "denied", "transient"}

(* Whether the environment says so; a region without credentials does not, *)
(* nor does a login at Azure's command line.                               *)
sharedConfigHasCreds(env) == env \cap {"default profile with SSO", "default profile with a role"} # {}
awsExplicitlyConfigured(env) == env \cap {"AWS_PROFILE", ".aws/credentials"} # {} \/ sharedConfigHasCreds(env)
gcpExplicitlyConfigured(env) ==
  env \cap {"GOOGLE_APPLICATION_CREDENTIALS", "application default credentials"} # {}
azureExplicitlyConfigured(env) == "AZURE_CLIENT_ID" \in env
kubeExplicitlyConfigured(env) == "KUBECONFIG" \in env

configuredBy(c, env) ==
  CASE c = "aws" -> awsExplicitlyConfigured(env) [] c = "gcp" -> gcpExplicitlyConfigured(env)
    [] c = "azure" -> azureExplicitlyConfigured(env) [] c = "kubernetes" -> kubeExplicitlyConfigured(env)
    [] OTHER -> FALSE

(* loadSelectedCluster: the first thing that is wrong with the kubeconfig. *)
kubeLoad(k) ==
  LET checks == <<<<"unreadable", ~k.readable>>, <<"no context", k.readable /\ k.leadsTo = "">>,
                  <<"malformed", k.readable /\ ~Setup!selectContext(k)>>,
                  <<"unsupported", k.readable /\ k.features \cap Setup!unsafe # {}>>,
                  <<"malformed", k.readable /\ ~Setup!extractSelected(k)>>,
                  <<"malformed", k.readable /\ ~Setup!resolveSelected(k)>>, <<"ok", TRUE>>>>
      wrong == {i \in DOMAIN checks : checks[i][2]}
  IN checks[CHOOSE i \in wrong : \A j \in wrong : i <= j][1]

(* The host is admitted before glab is asked about it; the token of the    *)
(* environment comes first; the CA is read when the provider is built.     *)
gitlabLoad(g) ==
  LET login == Setup!glabLoginHost(g.host, g.apiHost)
      glab == Setup!decideGlab(g.out, g.installed, g.ran, g.config, login, g.apiHost)
  IN CASE ~Setup!validateGitLabHosts(g.host, g.apiHost) -> "denied"
       [] OTHER -> IF ~g.envToken /\ glab = "loud" THEN "denied"
                   ELSE IF ~g.envToken /\ glab = "quiet" THEN "absent"
                   ELSE IF g.caReadable THEN "ok" ELSE "denied"

isTransientProbeErr(answer) == answer = "transient"

emitAlways == "always"
emitWhenExplicitOrVerbose == "explicit or verbose"

shouldEmit(policy, isExplicit, loud) == policy = emitAlways \/ isExplicit \/ loud

(* Mutant: a blip counts as an absent credential. *)
escalateForTransient_Never(policy, answer) == policy

escalateForTransient(policy, answer) == IF isTransientProbeErr(answer) THEN emitAlways ELSE policy

kubeSkipPolicy(answer) == IF answer \in {"no context", "unsupported"} THEN emitWhenExplicitOrVerbose ELSE emitAlways

(* A registrar: what its load may answer, what a load that fails is worth, *)
(* and what follows a probe that succeeds.  A configuration that cannot be *)
(* loaded is loud; a credential that is not there is not, unless it was    *)
(* meant to be, or nobody could tell.                                      *)
ambient(answer) == escalateForTransient(emitWhenExplicitOrVerbose, answer)
registrarOf(loads, worth(_), then) == [loads |-> loads, worth |-> [a \in loads |-> worth(a)], then |-> then]

awsSkipResult(answer) == emitAlways
githubOutcome == registrarOf(Answers \cup {"absent"}, ambient, "build")
gitlabOutcome == registrarOf({gitlabLoad(g) : g \in GitlabSetups}, LAMBDA a : emitAlways, "metadata")
registerAWS == registrarOf(Answers, awsSkipResult, "ceiling")
registerGCP == registrarOf(Answers, ambient, "ceiling")
registerAzure == registrarOf(Answers, ambient, "ceiling")
registerKube == registrarOf({kubeLoad(k) : k \in Kubeconfigs}, kubeSkipPolicy, "build")

registrar(c) ==
  CASE c = "github" -> githubOutcome [] c = "gitlab" -> gitlabOutcome [] c = "aws" -> registerAWS
    [] c = "gcp" -> registerGCP [] c = "azure" -> registerAzure [] c = "kubernetes" -> registerKube

(* The providers a registrar brings: a cloud its managed clusters' too. *)
brings(c) ==
  CASE c = "aws" -> <<"aws", "eks">> [] c = "gcp" -> <<"gcp", "gke">> [] c = "azure" -> <<"azure", "aks">> [] OTHER -> <<c>>

(* A forge with a token is explicit; actionable is what the line is worth  *)
(* without --verbose.                                                      *)
skipOutcome(c, policy) ==
  LET isExplicit == c \in forge \/ c \in explicit
  IN [NoOutcome EXCEPT !.visible = shouldEmit(policy, isExplicit, verbose),
                       !.actionable = shouldEmit(policy, isExplicit, FALSE)]
-----------------------------------------------------------------------------
RegInit ==
  /\ registrars \in Registrars
  /\ explicit \in {{c \in Range(registrars) : configuredBy(c, env)} : env \in SUBSET Signals}
  /\ verbose \in BOOLEAN
  /\ at = [c \in Range(registrars) |-> "load"]
  /\ failed = [c \in Range(registrars) |-> <<"", "">>]
  /\ outcome = [c \in Range(registrars) |-> NoOutcome]
  /\ channel = <<>> /\ shown = <<>> /\ providers = <<>>
  /\ byIndex = {} /\ doctor = "not run"

Continue(c, step) == at' = [at EXCEPT ![c] = step] /\ UNCHANGED <<outcome, channel>>
Send(c, o) ==
  /\ outcome' = [outcome EXCEPT ![c] = o] /\ channel' = Append(channel, c)
  /\ at' = [at EXCEPT ![c] = "sent"]

(* Loading: loadAWS, findGCP, newAzure, loadKube, tokenForHost, discoverGitLab. *)
Load(c) ==
  /\ at[c] = "load"
  /\ \E answer \in registrar(c).loads :
       \/ answer = "ok" /\ Continue(c, "probe") /\ UNCHANGED failed
       \/ answer = "absent" /\ Send(c, NoOutcome) /\ UNCHANGED failed
       \/ /\ answer \notin {"ok", "absent"}
          /\ Send(c, skipOutcome(c, registrar(c).worth[answer]))
          /\ failed' = [failed EXCEPT ![c] = <<"load", answer>>]
  /\ UNCHANGED <<configured, shown, byIndex, providers, doctor>>

(* A probe is repeated once, and only after a transient answer. *)
retryProbe(first, answer) == first /\ isTransientProbeErr(answer)

(* Of GitHub the answer to either of two questions. *)
probes(c) ==
  IF c = "github" THEN {Setup!githubValidate(user, rateLimit) : user \in Answers, rateLimit \in Answers} ELSE Answers

Probe(c) ==
  /\ at[c] \in {"probe", "probe again"}
  /\ \E answer \in probes(c) :
       \/ answer = "ok" /\ Continue(c, registrar(c).then) /\ UNCHANGED failed
       \/ /\ retryProbe(at[c] = "probe", answer)
          /\ Continue(c, "probe again") /\ UNCHANGED failed
       \/ /\ answer # "ok" /\ ~retryProbe(at[c] = "probe", answer)
          /\ Send(c, skipOutcome(c, ambient(answer)))
          /\ failed' = [failed EXCEPT ![c] = <<"probe", answer>>]
  /\ UNCHANGED <<configured, shown, byIndex, providers, doctor>>

(* The policy, the role or the role definition: it is loud when it fails, *)
(* for the credential is known to be there.                                *)
ValidateCeiling(c) ==
  /\ at[c] \in {"ceiling", "ceiling again"}
  /\ \E answer \in {"ok", "denied", "transient"} :
       \/ answer = "ok" /\ Continue(c, "build") /\ UNCHANGED failed
       \/ /\ retryProbe(at[c] = "ceiling", answer)
          /\ Continue(c, "ceiling again") /\ UNCHANGED failed
       \/ /\ answer # "ok" /\ ~retryProbe(at[c] = "ceiling", answer)
          /\ Send(c, skipOutcome(c, emitAlways))
          /\ failed' = [failed EXCEPT ![c] = <<"ceiling", "denied">>]
  /\ UNCHANGED <<configured, shown, byIndex, providers, doctor>>

Versions ==   \* what the instance says, if it does in time
  [parsed : BOOLEAN, major : {17, 18, 19}, minor : {0, 8, 9}, suffix : {"", "-ee", "-pre"}]

chooseGitLabDocs(md) == IF ~md.ok THEN "unknown" ELSE Setup!ClassifyVersion(md.version, "gitlab.com", "443")

docsClasses == {chooseGitLabDocs([ok |-> ok, version |-> v]) : ok \in BOOLEAN, v \in Versions}

(* Only a version below the floor keeps GitLab out; one that could not be  *)
(* read, or not in time, does not.                                         *)
awaitMetadata(c) ==
  /\ at[c] = "metadata"
  /\ \E class \in docsClasses :
       \/ class # "below floor" /\ Continue(c, "build") /\ UNCHANGED failed
       \/ /\ class = "below floor" /\ Send(c, skipOutcome(c, emitAlways))
          /\ failed' = [failed EXCEPT ![c] = <<"ceiling", "denied">>]
  /\ UNCHANGED <<configured, shown, byIndex, providers, doctor>>

Build(c) ==
  /\ at[c] = "build" /\ Send(c, Available)
  /\ UNCHANGED <<configured, failed, shown, byIndex, providers, doctor>>

(* In the order of the registrars, whatever the order of their answers.    *)
assemble(taken) ==
  FlattenSeq([i \in DOMAIN registrars |-> IF taken[registrars[i]].registered THEN brings(registrars[i]) ELSE <<>>])

(* emitOutcome, in the loop of driveConcurrent: one outcome at a time. *)
driveConcurrent ==
  /\ channel # <<>>
  /\ LET c == Head(channel) IN
       /\ byIndex' = byIndex \cup {c}
       /\ shown' = IF outcome[c].visible THEN Append(shown, c) ELSE shown
       /\ providers' = IF byIndex' = RegSet THEN assemble(outcome) ELSE providers
  /\ channel' = Tail(channel)
  /\ UNCHANGED <<configured, at, failed, outcome, doctor>>

StartupOver == byIndex = RegSet

connectorHealth(lines) == \A i \in DOMAIN lines : ~outcome[lines[i]].actionable

(* The LLM's configuration, or with --live-llm one round trip, comes first. *)
runDoctor ==
  /\ StartupOver /\ doctor = "not run"
  /\ \E llm \in {"ok", "invalid", "unreachable", "no echo"} :
       doctor' = IF llm # "ok" THEN "llm unavailable"
                 ELSE IF connectorHealth(shown) THEN "ready" ELSE "not ready"
  /\ UNCHANGED <<configured, at, failed, outcome, channel, shown, byIndex, providers>>

RegNext ==
  \/ \E c \in RegSet : Load(c) \/ Probe(c) \/ ValidateCeiling(c) \/ awaitMetadata(c) \/ Build(c)
  \/ driveConcurrent \/ runDoctor
-----------------------------------------------------------------------------
(* The operator has reason to ask why a connector is not there: something  *)
(* failed behind a credential that works, the probe got no answer, what    *)
(* there is to load is broken, or the connector was configured.            *)
Expected(c) ==
  \/ failed[c][1] = "ceiling"
  \/ failed[c][2] \in {"transient", "unreadable", "malformed"}
  \/ failed[c][1] = "load" /\ c = "aws"
  \/ failed[c][1] # "" /\ (c \in forge \/ c \in explicit)

(* registration.go: when startup is over every connector is a provider     *)
(* with a line of the inventory, or it is not there for a reason: one the  *)
(* operator has to know is shown, and fails the doctor's check; a          *)
(* credential nobody configured is neither, whatever --verbose shows.      *)
SkipsAreTold ==
  /\ StartupOver =>
       \A c \in RegSet :
         /\ outcome[c].registered => failed[c][1] = "" /\ c \in Range(shown)
         /\ Expected(c) => ~outcome[c].registered /\ c \in Range(shown)
         /\ ~outcome[c].registered /\ ~Expected(c) /\ c \in Range(shown) => verbose
  /\ doctor = "ready" => \A c \in RegSet : ~Expected(c)
  /\ doctor = "not ready" => \E c \in RegSet : Expected(c)
=============================================================================
