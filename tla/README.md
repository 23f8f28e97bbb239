# A TLA+ development of cynative

cynative is a command-line research agent: a language model works on a security
question by calling tools that read cloud, cluster and source-forge APIs with the
operator's credentials.  The program promises that those reads stay reads, that
every call is on an audit log before it is made, that the operator can stop it,
and that what it spends is bounded.  This directory models the parts of the
program that keep those promises, checks them with TLC on small instances, and
proves the central ones with TLAPS for every value of the constants.

Paths below are relative to `src/internal/` unless they start otherwise.

## 1. The system

### Components

| Component | State it keeps | Operations |
|---|---|---|
| Agent (`agent/agent.go`, `loop.go`, `history.go`) | the question/answer history, the tasks that ended without an answer of the model, per run a `runState` with failure, blank and truncation counters | `Run` (a turn), `run` (the loop), `acceptTurn`, `dispatch`, `invoke`, `failureSummary` |
| Orchestration tools (`agent/task.go`, `verify.go`, `todos.go`) | a sub-run's `runState`; the two verdict lists of a verification | `runScoped`, `runPasses`, `runPass` |
| Interrupt (`interrupt/state.go`) | in a turn, tripped | `BeginTurn`, `EndTurn`, `Trip` |
| Metrics (`metrics/metrics.go`) | billed tokens, counters | `AddUsage`, `BudgetExceeded` |
| Sandbox (`sandbox/`) | the JavaScript runtime, dirty flag, per-run context, in-flight count, semaphore, worker group | `Run`, `refresh`, `loop`, `toolFunc`, `runWorker` |
| Audit log (`audit/`) | sequence number, latched error, holds and their drained channel, closing flag; per tool call a fatal latch | `Log`, `Hold`, release, `Closer`; rotation by size and age |
| Tools (`tools/`) | approval grant, hint latch, read budget of a lookup | `code_execution`, `http_request`, `api_reference`, approval |
| Transport (`transport/`) | none across requests | `do`: the gate every request passes |
| Connectors (`auth/`, `auth/aws`, `azure`, `gcp`, `github`, `gitlab`, `k8s`) | credentials, catalogs, caches of clusters and roles | `AdmitHost`, `AuthorizeHost`, `AuthorizeAction`, `Inject`, `AuditResponse`, documentation lookup |
| Caches (`cache/`, `auth/cert_cache.go`) | values, ages, fetches in flight | `Get`, `Peek`, `TryPeek`; `syncCache.get` |
| LLM client (`llm/`), redaction (`redact/`), UI (`ui/`), config, prompt catalog (`agentcatalog/`), CLI (`cli/`) | terminal mode, settings | generate, redact, prompt, load, run |

### How they interact

The CLI builds the providers, the tools, the audit sink and the agent, and calls
`Agent.Run` once per question.  `run` asks the model for a turn, dispatches the
tool calls of the turn one after the other, and puts their results into the
transcript.  Every dispatch writes an attempt record, invokes the tool and writes
a result record.  `code_execution` runs a script in the sandbox, whose
inner calls run in parallel goroutines, each with its own pair of records and
each through the transport gate.  `api_reference` may start control-plane calls
that live in a shared cache: such a call can outlive the lookup that started it,
and holds the audit log open until its result is recorded.  The operator's
Ctrl-C arrives on another goroutine at any time.  At the end the CLI closes the
log, which waits a bounded time for the held records.

### What is hard, and what makes each part correct

* Check then act, against the operator: every check of the interrupt or the budget
  may be stale when the call it allowed is made.  A stop must win over any
  other end of the turn, and nothing new may start after it.
* Retry counters that reset each other: blank turns, truncated turns and tool
  failures each have a ceiling, and alternating them must not stretch it.
* Pairing: a tool call in a transcript has its result, an attempt record its result
  record, a question its answer, whichever way a turn ends.
* Goroutines that outlive what started them: sandbox workers, the watchdog,
  detached control-plane calls.  Teardown has to wait for the first two, and the log
  has to account for the third.
* Fail closed: an audit record that cannot be written stops the call it
  describes, its siblings, and the session.
* Facts that are looked up more than once: the host, the policy and the CA of a
  cluster, the addresses of a name.  Each may have changed between the check that
  used it and the connection made under it.
* Shared fetches: a lookup that starts one may leave before it ends, and a fetch
  may ignore its deadline.
* Files that belong together: a payload and its age, an archive and its index, a
  directory and the count of what is in it.  A crash, a second process or a parallel
  reader may come between any two of them.
* Two readings of one text: a path that a server segments in another way than the gate,
  an object whose keys the decoder folds, a credential whose spellings overlap.
* One-time work on behalf of many: the bootstrap of a connector, the scoping of a
  session, the helper that brings a token.  The outcome must not be that of whoever
  happened to be first.

`PROJECT.json` lists these as hazards, each at its line with the properties that
would catch it.

## 2. The modules

| Module | Models | Lines of state |
|---|---|---|
| `AgentLoop` | a session: turns, loop, dispatch, sub-agent, verification passes, failure summary, interrupt, budget | `runState` is `rs[depth]` with a program counter; `Agent.history` and `Agent.unanswered`; `interrupt.State`; `billed` |
| `Sandbox` | the sandbox across Runs | the loop goroutine `main`, the workers `wpc`, the watchdog `watch`, and the fields of `Sandbox` |
| `AuditContract` | what the audit log promises, abstractly | calls owed a result, a record lost, the verdict of the close |
| `AuditTrail` | the logger with all its writers and its closer | `Logger`'s fields, one program counter per call, the closer's stage |
| `SyncCache` | `syncCache.get`: concurrent lookups of one key over a single-flight group | the cached value, the fetch the group holds, one program counter and one timer per lookup, the state and age of every fetch |
| `RequestGate` | a request from the arguments of `http_request` to the wire, for a connector with public hosts and for a managed cluster | one program counter per request, the connector's caches of facts and policy, what was sent where |
| `Catalogs` | the on-disk caches of catalogs, their users and crashes | per process what each cache has in memory, the lock, the handoff, the hint latch; the files; one program counter per caller |
| `SpecsIndex`, `SpecLookups` | the Azure specs repository: its pack, tree and index; the lookups that search it through one store | the store's index, flights, files and their count; per lookup the search, per file a reader |
| `ClusterLookups` | the lookup that reads a cluster's own OpenAPI document | the documents of the clusters, the shared cache, per lookup a stage, its reads and its answer |
| `GcpLookups` | the lookup of Google API methods | files by stem, the caches by API and version, per lookup what it still loads |
| `Paths`, `KubeGate`, `AwsGate`, `AzureGate`, `GcpGate`, `Exposures`, `GithubGate`, `GitlabGate` | what the connectors decide without state: operators only | none |
| `Gates` | the six connectors judging requests | connector, posture, request, verdict |
| `ConnectorSetup` | what a kubeconfig selects, which host and version GitLab has, what glab and GitHub hand out: operators only | none |
| `Registration` | startup: registrars, consumer, inventory, doctor | a step per registrar, the channel, what was shown and collected |
| `Credentials` | the lazy bootstrap, the scoping of AWS credentials, the glab token source | `lazyInit`, `ScopedProvider`, the SDK's cache, `glabHelperSource` |
| `Egress` | the operator's proxy settings and the masking of their credential | the environment, the policy of the run, a text that leaves |
| `Verdicts` | reading and folding the answers of `verify_findings` | the answers, the verdicts of each pass, the outcomes |
| `MCLookups`, `MCComponents` | the instances of the lookups, and of the components that share no state | `kind`, `scene` |
| `SandboxProofs`, `AuditTrailProofs`, `SyncCacheProofs`, `AgentLoopProofs`, `CatalogsProofs` | theorems about the module of that name | |
| `ToolProofs` | theorems about `RequestGate` and `Verdicts` | |
| `ConnectorProofs` | theorems about `Credentials`, `Registration` and `Egress`, and about the gates `KubeGate`, `GcpGate` and `AwsGate` | |
| `LookupsProofs` | theorems about `ClusterLookups`, `SpecLookups` and `GcpLookups` | |

Each module keeps the control of the code: an action is a stretch of one goroutine
between two points at which another may interfere.  Where the code
checks a condition and acts on it later, the two are two actions.

### AgentLoop

One goroutine with a program counter per depth.  `top` is the head of the `for` of
`run`; `calling`, `armed`, `passing` and `concluding` are the windows between a
check and the call it allowed; `generating`, `running`, `verifying` and
`summarizing` are calls in flight; `accept` and `rendered` are the places where a
returned message is classified and where the answer has been printed but not
returned.  A reply of the model is whether it has text, the kinds of its tool calls
and its stop reason.  A tool is one of five kinds: an I/O tool, `task`,
`verify_findings`, `write_todos`, or an unknown name.  `Return` carries
the verdict of a run to its caller: to `Run` for the top-level run, to the parent's
transcript for a sub-run.  An audit write may fail at every record and then aborts
all levels.  The context of the program is never cancelled by the program
itself, so the branch of `failureSummary` for that case is left out.  `billed` saturates at
the budget, which is all `BudgetExceeded` can tell.

`futile`, `late`, `pressedAt` and `open` are history variables.

### Sandbox

`Run` takes the mutex, so Runs are sequential; inside one, the loop goroutine, one
worker per inner call, and the watchdog interleave.  The engine is abstracted to
the ways a stretch of script can end: it yields with its promise pending, fulfilled
or rejected, an error escapes, or the interrupt flag unwinds it and strands the
runtime's stack.  A script may issue any call it has not issued yet.  The teardown
is one action per statement of `Run`, because their order is what makes it right.
`EscapesWrapper` says whether a script may close the async wrapper itself.

### AuditTrail and AuditContract

Three kinds of call write to the log: tool calls of the agent (`Outer`), which are
sequential; calls a script makes (`Inner`), which run in parallel under a tool call
that waits for them; and detached control-plane calls (`Boot`), which nobody waits
for.  Each has an attempt and a result record, whose sequence numbers `rec`
holds.  The closer reads the latch, drains the holds for a bounded time, marks
the log as closing in the critical section of its last look, closes the writer and
reports.  A drained channel is named by its generation `gen`, so the closer may hold
one that was closed and replaced.

`AuditContract` has four things a log may do: begin to owe a result, settle it, lose a
record, and give a verdict.  A clean verdict is possible only when nothing is owed and
nothing was lost, and after it nothing may be owed.  `KeepsContract` maps the trail
onto it: `owed` is the set of calls sent without a result on file.

### SyncCache

A lookup looks at the cache, checks its own context, joins the fetch the group holds or
starts one, and waits on three arms: its context, its timer, the result.  A fetch is named
after the lookup that started it and has a deadline of its own, detached from that lookup; it
may succeed, fail, be cut at its deadline, or ignore the deadline.  `Tick` advances every
running timer and fetch and does not pass a timer that is due.  Where two arms of the wait
are ready, either may be taken.  Keys do not interact, so one is modelled.  `given`, the
fetches on which a timer gave up, and `preempted`, the lookups that came in canceled, are
history variables.  `PeersSurvive` is about those a leaving lookup leaves behind: the fetch they wait
for is not cut for them, and it stays in the group, so that the next lookup joins it.  The comment at `auth/cert_cache.go:25` that a fetch
"runs at most once per key concurrently" holds but for one more fetch for every backstop that fired, since `Forget` lets the
next lookup start one beside a fetch that hangs; that is how the property counts.

### RequestGate

A request is its connector, its host, and a set of flaws: what is wrong with it, named after
the gate that refuses it.  A gate that the code applies to text (a header, an authority, a
path against a table) is a look for its flaw; a gate that depends on shared state is
modelled in full.  The plain connector is `aws`, the cluster connector `eks`.  The host gate
of a cluster has the cached facts or asks the control plane, and uses what it was told
even when another lookup stored its own answer first; the policy read and the CA of the
transport use the cache.  `Migrate` lets the control plane describe another cluster under the
same name at any time.  The resolver and the servers are not trusted: a dial may reach any address
the guard lets through, a handshake any server with a certificate for the name under a
trusted root.  A cluster is identified by its CA.  `wire` records every send under a
credential, the policy read included, whether or not an answer came.

### Catalogs

A caller is the gate of a connector, a documentation lookup or a hint, each in its process.  `Get`
takes the lock of its cache, looks at memory, reads the payload, then its age, parses, and
either serves it or fetches, admits, writes the payload (a write under way is `Torn`), writes the age, and keeps the
value.  A failed fetch falls back on what is on disk.  Three connectors stand for the
three uses of the cache: `github` (and `gitlab`) has two caches over one download, handed from the gate's to the
documentation's; `gcp` (and `azure`, and the IAM data sets) has one cache behind a bootstrap;
`aws` has an archive kept as it came, and an index in a file of its own that names the
archive's hash.  `Crash` may come anywhere and clears the memory of a process; the next one starts on the files.  A
payload is its date and the caches that admit it.  A tick is hours, so it does not pass
in the middle of reading or writing a file.

### SpecsIndex and SpecLookups

`SpecsIndex` is the pack (its objects, deltas, sizes and bounds), the walk of the tree and the index of
version dirs, as operators.  In `SpecLookups` every lookup shares one `SpecStore`.  A lookup loads
the index or joins the load under way, plans its dirs (newest stable first, previews last), and reads the
files of a dir with one reader per file: a summary from disk, else a body from disk, else a
download that readers of the same blob share and that belongs to the lookup which started
it.  A reader that finds its shared download abandoned starts over.  Each write is
counted, and past the limit, or every `Rescan` writes, the least recently used files go.  An eviction may miss
files it cannot list and fail to remove others, which it still counts, so the count may stay over the limit; `repo.trouble` bounds how
many files of a scan give such trouble, and `lastScan` (a history variable) says how many did.  The
search makes an exact and a folded pass, spends a budget of parsed bodies, and concludes found,
ambiguous, not found or incomplete.  `SearchRight` compares the answer with a definition over the whole
repository at once.  Left out: dirs without operation files, and `$ref` resolving.

### ClusterLookups

One lookup resolves its cluster, reads the root for the hash, takes the document of that hash from the cache or
reads it, starts over once when the document changed in between, falls back on the plain document, and
reads `/version`; every read claims from the budget and writes its pair of
records, either of which may fail, and the lookup's deadline may pass anywhere.  `Change` replaces a
cluster's document at any time.

### GcpLookups

An API and a version name a cache; its file is named by the two joined with a dot, so that two
caches may share a file, and each admits only the document that says it is its own.  A lookup
resolves its API, selects versions, loads each, the lowest first (memory, file, download, stale file), and picks the
method, exactly or folded, from the set of documents it has.  Payload and age are one file here; `Catalogs` has the two.  "found" stands for found
and incomplete alike.

### The gates

The modules of operators translate the decision of each connector: `KubeGate` the verb, resource
and subresource of a request, the rules of a ClusterRole and the identifiers of a managed cluster; `AwsGate` the service and region of a host,
the claim against them, the operations of a service's model that match a request by protocol and rank, the
IAM actions and the policy; `AzureGate` the cloud, the provider operation of a path and the role;
`GcpGate` the service, the methods that win under each reading and their permissions;
`GithubGate` and `GitlabGate` the routes and the ceilings of `Exposures`.  `Paths` has the readings of a path
(`authreq.PathReadings`): as the wire segments it, with escaped slashes as
separators, and each without a trailing empty segment.  `Gates` asks one request after the
other, of all shapes within the bounds.  What a vendor may run is defined apart from the gate's
classification: the server picks any one reading of the path and any operation that serves it.

Services of AWS may share an endpoint, as `email` is that of `ses` (Actions) and `sesv2` (REST); the code skips a candidate whose classifier
errs while another matches (`auth/aws/provider.go:86`).  `Dispatched` is what that takes of AWS, and what the comment there says: a
service that the request does not fit (several Actions, none, or an unknown protocol) runs nothing of it while another service
recognises it.  Every service it fits may run it, so the actions of all that match count.  Where nobody recognises
the request any of them may do anything, and it has to be refused.

GitLab serves a documented path in every form its optional groups leave, and under the documented tag; an operation that has no
tag is no route of GitLab's here, as it is none of the distilled table's.

### Registration

Every registrar is a goroutine that loads its configuration (`ConnectorSetup` says what it makes of it), probes its credential, validates its ceiling and
builds its providers, each step with the outcomes the code tells apart; it sends one outcome.  The
consumer takes them in any order, shows a line at once or not at all (`emitPolicy`), and
assembles the providers in the registrars' order.  The doctor's verdict follows.  `Expected` says, apart from the
policies, which absences an operator has to know of.

### Credentials

Three machines over concurrent requests.  `lazyInit`: the first request runs the bootstrap under a context of
its own, the others wait, each may be canceled meanwhile.  `ScopedProvider`: the eager probe at startup,
the request-time degradation when STS denies the role, the notice.  `glabHelperSource`: token, refresh
before expiry, cooldown after a failure.  Time passes in units of 30 seconds.  The clock of a token request
is read once, before the helper runs, in the code and in the model: `TokenValidWhenAsked` is about that
moment.  The helper of `glab` is taken to return a token that is alive: `Token()` keeps the expiry it is given without a look at it.  Not modelled: a fetch of credentials that outlives the probe's deadline inside the
SDK's cache.

### Egress

A setting is a URL by its parts.  `NewEgress` reads and validates the variables once; a setting that is not
usable stops the run.  `Scrub` finds every spelling of the credential (the pair, the password, the Basic
token) in a text, merges the spans and masks them; texts and credentials are over a few letters that they share, so that
spans overlap and touch.  No letter changes when it is quoted.

### Verdicts

An answer is what a model wrote, and its tokens are what the code sees of it.  `parsePass` refuses, in the code's order, an answer that
stopped for another reason, that has no object, repeats a key in any spelling, has a token after its object, or does not decode; each
leaves the findings insufficient.  Both walks, the one over all keys with its stack of scopes and the decoder's, are
functions from the number of tokens read to a state.  `aggregate` folds the two passes.  `Given`, what a reader sees in an answer, is defined
without the decoder.

## 3. The runs

| Run | Instance | Distinct states | Shows |
|---|---|---|---|
| `AgentTurn` | one turn, batches of two, depth 1, budget of 3 tokens, failure ceiling 2 | 372 k | `NoLateCall`, `RequestsPaired`, `AttemptsClosed`, `StopPreempts`, `OverBudgetStartsNothing` |
| `AgentSession` | three turns, iteration budget 5, ceilings 2 | 431 k | `HistoryAccounted`, `FutileTurnsBounded`, `StopEndsTurn` |
| `Sandbox` | two Runs, three calls, two slots | 598 k | slots, stale interrupts, clean starts, late starts, success, and that a Run returns |
| `SandboxEscape` | one call, one slot, `EscapesWrapper` | | a violation, see section 6 |
| `AuditClose` | one tool call, one inner, two detached calls | 136 k | attempt before call, clean close, termination, refinement |
| `SyncCache` | three lookups, timeout 2 | 239 k | that a caller which leaves neither cuts its peers' fetch nor makes the key be fetched again, and that a lookup returns |
| `SyncCacheStuck` | two lookups | | a violation, see section 6 |
| `RequestGate` | two requests, two cluster hosts (one behind a proxy), two CAs, one public host, one flaw between them | 272 k | what is sent, to which cluster, to which address |
| `Catalogs` | one process at a time, all three connectors, three callers, one crash, two ticks | 3.1 M | `UsesAdmitted`, `IndexOfItsArchive`, `FreshIsFresh` |
| `CatalogsShared` | two processes, their gates | | a violation, see section 6 |
| `Lookups` | one azure lookup on each of 36 repositories of five files, two on one of two, one on a disk that refuses removals; two cluster lookups over two clusters; two gcp lookups over seven entries | 2.2 M | `LiveNotCanceled`, `SearchRight`, `CacheCounted`, `AnswerWasCurrent`, `ReadsSuffice`, `AnswerOfItsDocument` |
| `Components` | six scenes: startup, bootstrap, glab, requests, proxy, verification | 634 k | `CloudOnlyGranted`, `ForgeOnlyGranted`, `SkipsAreTold`, `OperatorKnows`, `NotReadyIsReal`, `TokenValidWhenAsked`, `ProxySettingsKept`, `VerdictsEarned` |

Why the bounds are enough.  A press, a budget crossing and a write failure each
happen at most once per turn, so one turn with two calls in a batch has every
position of each relative to the others; the failure ceiling of two is reached in
the middle of a batch and at its end.  The ratio of iteration budget to retry ceilings
in `AgentSession` lets the alternation of blank and truncated turns exceed its bound if it could.
Three turns are the fewest in which a task is set aside, a second turn ends
otherwise, and a third answers.  Two Runs of the sandbox are what one needs to
leave something to the next; three calls over two slots leave one waiting.
Two detached calls let a second one begin while the first is being drained.
Three lookups are a starter, a peer and a latecomer; a timeout of two ticks lets timers be set
at different times.  Two requests are enough for one to store facts the other
did not see; one flaw at a time is enough because a gate that misses one flaw
misses it alone.

In `Catalogs` one crash is enough to leave any pair of files apart, and two ticks past a TTL of one make a
file stale before and after it; a payload admitted by both caches, by the gate's only, or by
none are the cases the caches tell apart.  In `Lookups` five files are two in the newest dir
of a group, an older dir, and a second group with a preview, the fewest in which order, tier and tie
all matter; the limit of the disk cache is below what a lookup reads, a disk that holds one file more than it and may refuse removals keeps the
count over it, and the budget of a cluster
lookup is met exactly by a document that changes twice.  Two lookups are an owner of a download
and one that joined it.  The cases of `MCLookups` and `MCComponents` share no state, so a behaviour is of one kind
and the others stand still.  Paths of three segments behind the fixed part hold a collection, an item
and an action of it, with every escape and suffix at each place; three requests are the one
that runs the bootstrap, one that waits and one that comes later; letters `a b c :` up to length
five hold two overlapping spellings and what is around them.

`AuditTrail` runs with deadlock checking off: a session whose log is closed, with a
detached call that never answers, has legitimately stopped.  The other modules have
an explicit step for a session that is over, except `SyncCache`, `Catalogs`, `MCLookups` and
`MCComponents`, where callers that have all returned have stopped as well.

### Fairness

* `AgentLoop`: the loop goroutine runs.  A model or tool call returns only
  once its context is cancelled, which the poll of `cancelOnInterrupt` does after
  a press; before that it may hang.  The operator owes nothing.
* `Sandbox`: goroutines are scheduled, the timeout passes, and a running script
  notices an interrupt (the engine polls its flag).  A tool returns once its context
  has ended, the documented contract of `ToolFunc`.  A script may spin for ever.
* `AuditTrail`: the closer runs and its timer fires.  No call owes an answer.
* `SyncCache`: lookups are scheduled and time passes.  No fetch owes a result.
* `RequestGate`, `Catalogs`, the lookups and the components state no liveness: a request or a download is
  bounded by the timeout of its client, outside the model.

## 4. The proofs

`SandboxProofs` proves every safety invariant of the `Sandbox` run, for any finite
set of calls, any number of slots and any number of Runs.  The inductive invariant
`IInv` is a conjunction of named parts:

* `SlotsOK`: `sem` is the number of workers that hold a slot.  The code has no such
  variable; without the equation neither the bound nor the absence of leaks is
  inductive.
* `FlightOK`: a worker that has not settled is counted in `inFlight`.
* `WorkersOK`: a worker that got past its look at the context had won its slot in time.
* `WatchOK`: the watchdog is waiting or firing only inside a Run, and once it may
  fire the context has ended; it is gone wherever the teardown is past its wait.
* `OutcomeOK`, `RuntimeOK`: what the promise, the error and the stage of the teardown
  say of each other, so that `dirty` is set exactly when the runtime must not be reused.

`CleanStart` and `SuccessComplete` assume `~EscapesWrapper`: section 6 shows the first is
false without it.

`AuditTrailProofs` proves type correctness, `AttemptsFirst`, `CleanCloseIsComplete`,
`PendingIsReal` and the refinement of `AuditContract`.  The invariant says that `holds` is
the cardinality of the calls between taking and giving back a hold, that a call past its
attempt is owed or settled according to its program counter, that only detached calls are
alive once the session has ended, and that after the closing mark with no pending
record no call holds.  The refinement is a step simulation: each action of the trail maps to
one of the contract's, or to a stutter.

`SyncCacheProofs` proves `PeersSurvive` for any finite set of lookups and any timeout: every running fetch but the group's was given up by a
backstop of its own, which is what bounds them.  With it goes what
no run needs to repeat: nothing is cached that no fetch brought, the cached value never changes, a canceled lookup
starts nothing, and no lookup joins a fetch that was given up.  `CallersOK` says what a lookup's stage implies about the fetch it joined,
`PreemptedOK` that a lookup which came in canceled stays short of the fetch, `GivenOK` that a
fetch given up is not in the group.  Without the last, `GivenUpIsForgotten` is not a
consequence of the step alone.

`ToolProofs` proves the three invariants of the `RequestGate` run, and `RefusedCostsNothing` (a request that an earlier gate refuses costs no
read of the policy), for any number of requests, hosts and CAs.  `FlawsOK` says which flaws a request cannot have where it is, `HostsOK` that its
host is its connector's, `ConnOK` that its transport trusts the cached CA and its
connection leads to an allowed place, and `CachesOK` that the cached policy is that of the
cached cluster; the last is what ties three lookups made at three moments together, and holds because the
first facts stored stay.  Two lemmas carry the rest: `ReachedPlaces` (the dial guard sees through every
form of an address) and `HandshakeRoot` (a cluster host is signed by its cluster's CA only).

It also proves `VerdictsEarned` for any number of findings up to 16 and of passes, and any answers that are written as `WellWritten` says (tokens
before the object without an opening brace in front, values whose brackets close where the value ends).  `VerdictInv`
says that every pass is what `parsePass` makes of its answer and the outcomes are folded from all of them; what carries the theorem is
`ParsedRight`, what `parsePass` makes of one answer.  The walks go over tokens and the answer is a tree, so each lemma says what a walk has
become at the end of a part, whatever is around it: a value (`ValueWalk`, by the depth of its brackets), a
field (`FieldRead`), the fields (`ObjectWalk`, `FieldsRead`), a member (`MemberWalk`, `MemberRead`), the object (`AnswerWalk`, `AnswerRead`).  A walk that has failed
stays failed (`StaysBroken`, `StaysDead`), so only walks that got through are looked at.  The keys walk alone shows that no field of a finding is there twice in
some spelling, the decoder that each finding is there once and which field it heard; together they leave one verdict.  Instead of an induction over the parts a lemma takes
the least part after which its statement fails (`FirstPlace`) and finds that it did not.

`AgentLoopProofs` proves every safety property of the two agent runs, for any ceilings, budget, batches and number of turns:
five invariants, two action properties and the types.  `IInv` has seven parts.

* `RunsOK` says of the run at each depth what its program counter implies: a run that is about to ask the model has
  no call left and nothing unpaired in its transcript, a pass is one of two, and
  `futile <= truncated * MaxEmpty + empty`.  The last is the potential that makes `FutileTurnsBounded` inductive: a blank
  turn adds one to `empty`, a truncated one resets it and adds one to `truncated`.
* `NestOK`: the levels below the current depth are idle or waiting in a task, and a turn that has an outcome is at depth 0.
* `LateOK`: while the run stands between a check and the call it allowed, nothing has begun since the press, and the press
  landed there.  `OpenOK`: the open attempt records are the calls under way at the two depths.
* `BudgetOK`: past a checkpoint the budget is not spent.  `OverBudgetStartsNothing` follows since every way to a
  call leads through one.
* `TurnsOK`: every finished turn is in the history once, set aside, or neither, according to its outcome.

`CatalogsProofs` proves the three invariants of its run for any number of processes, callers, crashes and any TTL.
`LockOK` gives a caller its cache alone; `AdmittedOK` says a download in hand past the parser, and every value in memory, was
admitted; `IndexOK` that a whole index file is of an archive that can be indexed.  `FreshIsFresh` needs the hypothesis `OneProcess`, that one
process at a time uses the directory, and `AgesOK`: the age file never makes a payload younger than it is (by more
than a TTL behind a handoff), also between the two writes.  `CatalogsShared` shows it false of two processes.

`ConnectorProofs` proves the properties of `Credentials` for any set of requests and those of `Registration` for any list of
connectors.  `ScopeOK`: the provider is degraded exactly when STS refused the role, one notice tells it, and until then the
provider is armed to tell.  `OnceOK`: nobody is past the bootstrap before it is over and nobody waits for it after.  `LabOK`: the
helper runs for a request that asked before the clock was read.  `SentOK`, `ShownOK`, `DoctorOK`: a registrar's outcome reaches the
consumer once, says whether the operator has to act, and is shown, or counted by the doctor, accordingly.

For `Egress` it proves `ProxySettingsKept` of any environment and any texts.  `EgressInv` says that the policy of a running process is made of
the variables that speak first and was validated, and that what was said was scrubbed of all forms of its credentials.  `ScrubRight` is the argument
about the text: `SpansRight` says, of the spans merged up to any letter, that they are apart, ordered and cover exactly the letters some
form covers; `StretchMasked`, `StretchKept` and `SpanWritten` that a span becomes one placeholder and what is between two spans stays; `SecretsScrubbed` that the forms
are those of the credential.

Of the gates it proves what the cloud part of `CloudOnlyGranted` says of Kubernetes (`KubeOnlyGranted`), Google Cloud (`GcpOnlyGranted`) and
AWS (`AwsOnlyGranted`), not of the run's requests but of every path, role and catalog.  For Kubernetes the routes of an API server
and `Classify` are compared shape by shape.  For Google the templates that a server may prefer are among those that survive in the
classification (`RoutedSurvive`).  For AWS a server narrows the templates segment by segment; `LeftIsTop` says that what it is left with is of the
shape that `topCandidates` keeps, and `ReadingsCovered` that its readings of the path are those the gate has classified.  A request the gate admitted is recognised by a
service (`ClassifiedIsRecognized`), so those of another protocol at the same endpoint are given it only where it fits them, and what
they run then was classified as well (`RunsAreClassified`).  The hypotheses are the shape of requests and catalogs;
for AWS `WellFormed`: operations have names, and no template spells the bucket's
placeholder in its first segment.  `Gates` assumes it of its own models, so TLC evaluates it.

What `ForgeOnlyGranted` says of GitHub is `HubOnlyGranted`, of every document, levels and path.  `Serves` says that GitHub cuts a path into what the
segments of a template take, in any way that fits; `match` goes through segments and memoises.  `CutSteps` takes the first piece off a cut, so cuts
obey the equation of `match` (`CutRecurs`), and two functions that do are equal: the least place where they differ would be one where the place before
does (`MatchIsCut`).  `FixedIsCut` is the same for `matchFixed`.  As both take the same paths, the routes with most literals are the same
(`RunsAreFound`), and `CeilingOf` says whose ceiling decides, a sensitive one for a route of secrets once the table was admitted.

`LookupsProofs` proves the six invariants of the `Lookups` run.  For clusters `LookupOK` bounds the reads a lookup has made by the
stage it is in (`ReadsBehind`) and says that what it holds was current under its hash; that an entry of the shared
cache is of its own key makes a hit as good as a read.  For the Azure store `CanceledOK` says that the end of another lookup's context
reaches a reader only on its way to try again, and `CacheCounted` is inductive with the readers that are writing counted
apart, and what the last scan could not list or remove kept in `lastScan`.  For Google APIs `StoresOK` says that a file holds the document of some entry that admits it and memory that of its own
entry; two entries that admit one document are the same, so a shared file is harmless.  `Loading` says the
documents a run has are those of the versions it has done with, and `PickRight` that picking from all of them is right
by the definition over the directory.

`SearchRight` rests on `SearchInv`.  `PassesOK` says which pass a lookup is in and what the earlier one left, `WalkOK` that the dirs
still to do are older than those done, `FoundOK` that what was found so far is all that the dirs done define, and `FilesOK` that the files at hand are
those of the next dir.  The plan is a set of dirs with an order, of which `nextDir` takes the newest, and `Best` is told from `found` by the same order.

The assumptions are those the modules name: the sets of calls are finite, disjoint and do not
contain the null values, there is at least one slot and one cache entry, cluster hosts and public hosts are
disjoint, public roots sign no cluster host, ceilings and times are naturals, the registrars are distinct connectors, the Discovery directory names
a version of an API once, an operation has at least one part, a repository has finitely many files and its list of versions is a sequence, proxy settings
are records of their parts and the Basic token of a user is not empty, `ToLower` leaves the keys of the prompt as they are, and answers are `WellWritten`.

Only model-checked:

* All liveness (`StopEndsTurn`, `RunReturns`, `CloserReturns`, `LookupReturns`), which the prover does not reach.
* `CloudOnlyGranted` and `ForgeOnlyGranted` as wholes.  Three of the four clouds and one of the two forges are proved in general (above).
  `AzureGate` strips a path with a recursive operator, and what its gate grants depends on the operations the catalog lists, for every namespace.
  `GitlabGate` takes the route with the fewest parameters and GitLab the one with literals first, which agree for some tables only: the
  instance has one where they do.
* What the models of a pure function mean for its real inputs: `ToLower`, `Parsed` and `BasicToken` are parameters or tables of the instance.

## 5. What is left

1. The Azure gate with its path readings as sets, and then `CloudOnlyGranted` for all clouds at once.
2. The tables for which GitLab's choice of a route and `Lookup` agree, for `ForgeOnlyGranted`.
3. A composition of `Sandbox` with `AuditTrail`, where an inner call is a worker.

## 6. Findings

`SandboxEscape`: the comment at `sandbox/sandbox.go:201` promises that only a script that ran to a
settled promise, or that never ran, keeps its runtime.  The code asks the value
`RunProgram` returned.  A script text that closes the wrapper early makes that value something
else than the promise of the script, and a pending script then stays in the runtime the next
Run uses.

`SyncCacheStuck`: `auth/cert_cache_internal_test.go:138` says that after a fetch blocks past the
cache timeout a later lookup starts a fresh one instead of joining it.  Only the timer arm of
the wait (`auth/cert_cache.go:80`) forgets the fetch; a lookup that leaves by its own deadline
(`:78`) does not.  If it was the only one waiting, the next lookup joins the stuck fetch and
can only time out.

`CatalogsShared`: `cache/cache.go:37` says the date beside a payload drives the freshness check, and `:43` that
the disk serves per TTL and a stale payload only when a fetch failed.  Payload and date are read one after the other
and rewritten in place by any process.  A process that has read the old payload when
another replaces both files reads the new date with it, and serves a payload past its TTL as fresh.

## 7. Not modelled

* Redaction and rendering: scanners and layouts of text.  Their correctness is in regular expressions and
  wording, which a state machine of small sets would not show.
* The documents' readers (`openapidoc`, swagger, smithy, discovery): pure functions from a document to text.
* The JavaScript engine and its prelude, the provider library and message conversion of the LLM client, cloud SDKs
  and request signing.
* The terminal UI, prompt files, configuration loading, flags and exit codes, approval prompts, rotation of the
  log: I/O, or one goroutine without state that another part relies on.
* Dial pins and token sources that differ between `gke`, `aks` and `eks`: `RequestGate` follows `eks`.
* In `ModelArchive`, a damaged tarball that is kept in memory because its parser is the identity: `Catalogs` has it, but
  no property calls it wrong, since what is served is the index, which is checked.

`PROJECT.json` gives the reason for each component.
