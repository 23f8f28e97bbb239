---------------------------- MODULE ToolProofs ----------------------------
(***************************************************************************)
(* Two of the agent's tools: the safety properties of http_request, for    *)
(* any number of requests, any hosts and CAs, and any route; and what      *)
(* verify_findings reports, for any number of findings and of passes and   *)
(* whatever the passes answer.                                             *)
(***************************************************************************)
EXTENDS RequestGate, Verdicts, SequenceTheorems, FiniteSetTheorems, WellFoundedInduction, TLAPS

(* The flaws the steps up to the host gate refuse.                         *)
BuildFlaws == {"arguments", "hostHeader", "scheme", "authority"}
HostFlaws == BuildFlaws \cup {"provider", "block"}

(* The hosts and the roots a request is entitled to, and where it may end. *)
hostsOf(r) == IF req[r].provider = "plain" THEN PlainHosts ELSE named
rootOf(r) == IF req[r].provider = "cluster" THEN facts.ca ELSE "public"
placesOf(r) == {"proxy", "public"} \cup (IF req[r].provider = "cluster" THEN {"private"} ELSE {})

(* The cached facts came from the control plane, and the policy from the   *)
(* cluster they describe.                                                  *)
CachesOK ==
  /\ facts # None => facts.host \in named
  /\ policy # None => facts # None /\ policy = facts.ca

(* What a request has shown by the time it is where it is.                 *)
FlawsOK ==
  \A r \in Requests :
    /\ pc[r] = "host" => req[r].flaws \cap BuildFlaws = {}
    /\ pc[r] \in {"described", "action"} => req[r].flaws \cap HostFlaws = {}
    /\ pc[r] = "inject" => req[r].flaws \subseteq {"credential"}
    /\ pc[r] \in {"transport", "dial", "connected"} => req[r].flaws = {}

(* Its host is one of its connector's ... *)
HostsOK ==
  \A r \in Requests :
    /\ pc[r] = "described" => fetched[r] \in Facts /\ fetched[r].host \in named
    /\ pc[r] = "described" => req[r].provider = "cluster"
    /\ pc[r] \in {"action", "inject", "transport", "dial", "connected"} => req[r].host \in hostsOf(r)

(* ... its policy was read, and its connection is held to it.              *)
ConnOK ==
  \A r \in Requests :
    /\ pc[r] \in {"inject", "transport", "dial", "connected"} /\ req[r].provider = "cluster"
         => policy # None
    /\ pc[r] \in {"dial", "connected"} => trusted[r] = rootOf(r)
    /\ pc[r] = "connected" => addr[r] \in placesOf(r)

IInv ==
  /\ TypeOK /\ CachesOK /\ FlawsOK /\ HostsOK /\ ConnOK
  /\ SentIsAuthorized /\ JudgedByItsCluster /\ NoForbiddenAddress /\ RefusedCostsNothing

(* The dial guard, or the route, leads nowhere else.                       *)
LEMMA ReachedPlaces ==
  ASSUME TypeOK, NEW r \in Requests, NEW h
  PROVE  reached(r, h) \subseteq placesOf(r) \cap (Ranges \cup {"proxy"})
<1> SUFFICES ASSUME h \notin Proxied, NEW a \in Addrs, NEW resolved, AuthorizeAddr(r, a, resolved)
             PROVE  a.range \in placesOf(r) \cap Ranges
  BY DEF reached, placesOf
<1>1. a.range \in Ranges /\ a.form \in {"v4", "mapped", "embedded", "v6"}
  BY DEF Addrs, Ranges
<1>2. a.range \in {ownRange(Unmap(a))} \cup embeddedRange(Unmap(a))
  <2>1. CASE a.form = "mapped"
    <3>1. a \in [form : {"v4", "mapped", "embedded"}, range : Ranges \ {"ula"}]
      BY <2>1 DEF Addrs
    <3>2. Unmap(a).form = "v4" /\ Unmap(a).range = a.range
      BY <2>1, <3>1 DEF Unmap
    <3> QED BY <3>2 DEF ownRange
  <2>2. CASE a.form # "mapped"
    BY <1>1, <2>2 DEF Unmap, ownRange, embeddedRange
  <2> QED BY <2>1, <2>2
<1>3. a.range \notin {"local", "platform", "ula"}
  BY <1>2 DEF AuthorizeAddr, isInternalIP, floorForbidden
<1>4. req[r].provider = "plain" => a.range # "private"
  BY <1>2 DEF AuthorizeAddr, isInternalIP
<1> QED BY <1>1, <1>3, <1>4 DEF placesOf, Ranges, TypeOK

(* The server of a host under a root is one of that root, for a cluster.   *)
LEMMA HandshakeRoot ==
  ASSUME NEW h, NEW k, NEW s \in Servers, handshake(h, k, s)
  PROVE  s.name = h /\ (h \in ClusterHosts => s.ca = k)
BY HostsAssumption, CAsAssumption DEF handshake, Servers

(* IInv holds before any request is made.                                  *)
LEMMA InitEstablishes == Init => IInv
<1> SUFFICES ASSUME Init PROVE IInv
  OBVIOUS
<1>1. \A r \in Requests : /\ req[r].provider \in {"plain", "cluster"} /\ req[r].host \in Hosts
                          /\ req[r].flaws \subseteq Flaws
  BY DEF Init, Asked
<1> QED
  BY <1>1 DEF Init, IInv, TypeOK, CachesOK, FlawsOK, HostsOK, ConnOK, Ended, SentIsAuthorized,
              JudgedByItsCluster, NoForbiddenAddress, RefusedCostsNothing

(* The gates that send nothing and store nothing keep IInv.                *)
LEMMA GatesKeep ==
  ASSUME IInv, NEW r \in Requests,
         \/ Build(r) \/ AuthorizeHostPlain(r) \/ AuthorizeHostCached(r)
         \/ AuthorizeActionPlain(r) \/ AuthorizeActionCached(r) \/ Inject(r)
  PROVE  IInv'
<1> USE DEF Gate, Flawed, Goto, world, caches, conn
<1>0. UNCHANGED <<req, live, named, facts, policy, fetched, trusted, addr, wire>>
  BY DEF Build, AuthorizeHostPlain, AuthorizeHostCached, AuthorizeActionPlain,
         AuthorizeActionCached, Inject
<1>1. TypeOK'
  BY <1>0 DEF IInv, TypeOK, Ended, Build, AuthorizeHostPlain, AuthorizeHostCached,
              AuthorizeActionPlain, AuthorizeActionCached, Inject
<1>2. FlawsOK'
  BY <1>0 DEF IInv, TypeOK, FlawsOK, BuildFlaws, HostFlaws, Flaws, Build, AuthorizeHostPlain,
              AuthorizeHostCached, AuthorizeActionPlain, AuthorizeActionCached, Inject, portGate
<1>3. HostsOK' /\ ConnOK'
  BY <1>0 DEF IInv, TypeOK, CachesOK, HostsOK, ConnOK, hostsOf, rootOf, placesOf, hostMatches,
              Build, AuthorizeHostPlain, AuthorizeHostCached, AuthorizeActionPlain,
              AuthorizeActionCached, Inject
<1>4. /\ CachesOK' /\ SentIsAuthorized' /\ JudgedByItsCluster'
      /\ NoForbiddenAddress' /\ RefusedCostsNothing'
  BY <1>0 DEF IInv, CachesOK, SentIsAuthorized, JudgedByItsCluster, NoForbiddenAddress,
              RefusedCostsNothing
<1> QED BY <1>1, <1>2, <1>3, <1>4 DEF IInv

(* Asking the control plane and storing its answer keep IInv.              *)
LEMMA DescriptionKeeps ==
  ASSUME IInv, NEW r \in Requests, DescribeCluster(r) \/ AuthorizeHostFetched(r)
  PROVE  IInv'
<1> USE CAsAssumption DEF Flawed, Goto, world, caches, conn
<1>0. UNCHANGED <<req, live, policy, trusted, addr, wire>> /\ named \subseteq named'
  BY DEF DescribeCluster, AuthorizeHostFetched
<1>1. facts # None => facts' = facts
  BY DEF DescribeCluster, AuthorizeHostFetched, cached
<1>2. TypeOK'
  BY <1>0 DEF IInv, TypeOK, HostsOK, Ended, Facts, DescribeCluster, AuthorizeHostFetched, cached
<1>3. FlawsOK'
  BY <1>0 DEF IInv, TypeOK, FlawsOK, BuildFlaws, HostFlaws, DescribeCluster, AuthorizeHostFetched
<1>4. CachesOK'
  BY <1>0, <1>1 DEF IInv, TypeOK, CachesOK, HostsOK, DescribeCluster, AuthorizeHostFetched, cached
<1>5. HostsOK'
  BY <1>0 DEF IInv, TypeOK, HostsOK, hostsOf, hostMatches, DescribeCluster, AuthorizeHostFetched
<1>6. ConnOK'
  BY <1>0, <1>1 DEF IInv, TypeOK, CachesOK, ConnOK, rootOf, placesOf, DescribeCluster,
                    AuthorizeHostFetched
<1>7. SentIsAuthorized' /\ JudgedByItsCluster' /\ NoForbiddenAddress' /\ RefusedCostsNothing'
  BY <1>0 DEF IInv, SentIsAuthorized, JudgedByItsCluster, NoForbiddenAddress, RefusedCostsNothing
<1> QED BY <1>2, <1>3, <1>4, <1>5, <1>6, <1>7 DEF IInv

(* The credentialed read of the policy keeps IInv.                         *)
LEMMA PolicyKeeps ==
  ASSUME IInv, NEW r \in Requests, FetchView(r)
  PROVE  IInv'
<1> USE CAsAssumption DEF Gate, Flawed, Goto, world, conn
<1>0. /\ UNCHANGED <<req, live, named, facts, fetched, trusted, addr>>
      /\ facts \in Facts /\ facts.host \in ClusterHosts /\ facts.host \in named
      /\ req[r].provider = "cluster" /\ policy = None /\ pc[r] = "action"
      /\ req[r].flaws \cap (HostFlaws \cup {"port"}) = {}
  BY DEF IInv, TypeOK, CachesOK, FlawsOK, Facts, FetchView, portGate
<1>1. \/ wire' = wire
      \/ \E w \in [by : {r}, for : {"policy"}, at : placesOf(r) \cap (Ranges \cup {"proxy"}),
                to : Servers] :
           wire' = wire \cup {w} /\ w.to.name = facts.host
  <2>1. CASE wire' = wire
    BY <2>1
  <2>2. CASE wire' # wire
    <3>1. PICK at \in reached(r, facts.host), s \in Servers :
            /\ handshake(facts.host, facts.ca, s)
            /\ wire' = wire \cup {[by |-> r, for |-> "policy", at |-> at, to |-> s]}
      BY <2>2 DEF FetchView
    <3>2. at \in placesOf(r) \cap (Ranges \cup {"proxy"})
      BY <3>1, ReachedPlaces DEF IInv
    <3>3. s.name = facts.host
      BY <3>1, HandshakeRoot
    <3> QED BY <3>1, <3>2, <3>3
  <2> QED BY <2>1, <2>2
<1>2. policy' \in {None, facts.ca}
  BY <1>0, HandshakeRoot DEF FetchView
<1>3. /\ pc' \in [Requests -> {"refused", "inject"} \cup {pc[q] : q \in Requests}]
      /\ \A q \in Requests : q # r => pc'[q] = pc[q]
      /\ pc'[r] \in {"refused", "inject"}
      /\ pc'[r] = "inject" => req[r].flaws \cap {"port", "access"} = {} /\ policy' # None
  <2>1. pc' \in {[pc EXCEPT ![r] = "refused"], [pc EXCEPT ![r] = "inject"]}
    BY DEF FetchView
  <2>2. pc' = [pc EXCEPT ![r] = "inject"] =>
          req[r].flaws \cap {"port", "access"} = {} /\ policy' # None
    <3> SUFFICES ASSUME pc' = [pc EXCEPT ![r] = "inject"], pc'[r] # "refused"
                 PROVE  req[r].flaws \cap {"port", "access"} = {} /\ policy' # None
      BY DEF IInv, TypeOK
    <3>1. PICK s \in Servers : /\ handshake(facts.host, facts.ca, s)
                              /\ policy' = s.ca /\ req[r].flaws \cap {"port", "access"} = {}
      BY DEF FetchView, IInv, TypeOK
    <3>2. policy' = facts.ca
      BY <1>0, <3>1, HandshakeRoot
    <3> QED BY <1>0, <3>1, <3>2 DEF Facts
  <2> QED BY <2>1, <2>2 DEF IInv, TypeOK
<1>4. TypeOK'
  <2>1. wire' \subseteq [by : Requests, for : {"policy", "request"}, at : Ranges \cup {"proxy"},
                       to : Servers]
    BY <1>1 DEF IInv, TypeOK
  <2>2. policy' \in CAs \cup {None}
    BY <1>0, <1>2 DEF Facts
  <2>3. pc' \in [Requests -> {"new", "host", "described", "action", "inject", "transport", "dial",
                              "connected"} \cup Ended]
    BY <1>3 DEF IInv, TypeOK, Ended
  <2> QED BY <1>0, <1>3, <2>1, <2>2, <2>3 DEF IInv, TypeOK
<1>5. FlawsOK'
  BY <1>0, <1>3 DEF IInv, TypeOK, FlawsOK, HostFlaws, BuildFlaws, Flaws
<1>6. CachesOK' /\ HostsOK' /\ ConnOK'
  BY <1>0, <1>2, <1>3 DEF IInv, CachesOK, HostsOK, ConnOK, hostsOf, rootOf, placesOf
<1>7. SentIsAuthorized' /\ JudgedByItsCluster'
  <2>1. \A w \in wire : ~(w.for = "request" /\ req[w.by].provider = "cluster")
    <3> SUFFICES ASSUME NEW w \in wire, w.for = "request", req[w.by].provider = "cluster"
                 PROVE  FALSE
      OBVIOUS
    <3>1. w.to \in Servers /\ w.to.name \in ClusterHosts /\ w.to.ca = None
      BY <1>0 DEF IInv, TypeOK, SentIsAuthorized, JudgedByItsCluster
    <3> QED BY <3>1, HostsAssumption DEF Servers
  <2> QED BY <1>0, <1>1, <2>1 DEF IInv, SentIsAuthorized, JudgedByItsCluster
<1>8. NoForbiddenAddress' /\ RefusedCostsNothing'
  BY <1>0, <1>1 DEF IInv, TypeOK, NoForbiddenAddress, RefusedCostsNothing, placesOf, HostFlaws,
                    BuildFlaws, Flaws
<1> QED BY <1>4, <1>5, <1>6, <1>7, <1>8 DEF IInv

(* Setting up the transport and dialing keep IInv.                         *)
LEMMA DialKeeps ==
  ASSUME IInv, NEW r \in Requests, configureTransport(r) \/ Dial(r)
  PROVE  IInv'
<1> USE DEF Goto, world, caches
<1>0. UNCHANGED <<req, live, named, facts, policy, fetched, wire>>
  BY DEF configureTransport, Dial
<1>1. TypeOK'
  BY <1>0, ReachedPlaces DEF IInv, TypeOK, Facts, Ended, configureTransport, Dial
<1>2. FlawsOK' /\ HostsOK'
  BY <1>0 DEF IInv, TypeOK, FlawsOK, HostsOK, hostsOf, configureTransport, Dial
<1>3. ConnOK'
  BY <1>0, ReachedPlaces DEF IInv, TypeOK, ConnOK, rootOf, placesOf, configureTransport, Dial
<1>4. /\ CachesOK' /\ SentIsAuthorized' /\ JudgedByItsCluster'
      /\ NoForbiddenAddress' /\ RefusedCostsNothing'
  BY <1>0 DEF IInv, CachesOK, SentIsAuthorized, JudgedByItsCluster, NoForbiddenAddress,
              RefusedCostsNothing
<1> QED BY <1>1, <1>2, <1>3, <1>4 DEF IInv

(* Sending the request keeps IInv.                                         *)
LEMMA SendKeeps ==
  ASSUME IInv, NEW r \in Requests, Send(r)
  PROVE  IInv'
<1> USE DEF Goto, world, caches
<1>0. /\ UNCHANGED <<req, live, named, facts, policy, fetched>>
      /\ pc[r] = "connected" /\ req[r].flaws = {} /\ req[r].host \in hostsOf(r)
      /\ trusted[r] = rootOf(r) /\ addr[r] \in placesOf(r)
      /\ req[r].provider = "cluster" => policy = facts.ca
  BY DEF IInv, FlawsOK, HostsOK, ConnOK, CachesOK, Send
<1>1. \/ wire' = wire
      \/ \E s \in Servers :
           /\ wire' = wire \cup {[by |-> r, for |-> "request", at |-> addr[r], to |-> s]}
           /\ s.name \in hostsOf(r)
           /\ req[r].provider = "cluster" => s.ca = policy
  <2>1. CASE wire' = wire
    BY <2>1
  <2>2. CASE wire' # wire
    <3>1. PICK s \in Servers :
            /\ handshake(req[r].host, trusted[r], s)
            /\ wire' = wire \cup {[by |-> r, for |-> "request", at |-> addr[r], to |-> s]}
      BY <2>2 DEF Send, visited
    <3>2. s.name = req[r].host /\ (req[r].host \in ClusterHosts => s.ca = trusted[r])
      BY <3>1, HandshakeRoot
    <3>3. req[r].provider = "cluster" => req[r].host \in ClusterHosts
      BY <1>0 DEF IInv, TypeOK, hostsOf
    <3> QED BY <1>0, <3>1, <3>2, <3>3 DEF rootOf
  <2> QED BY <2>1, <2>2
<1>2. /\ pc' \in [Requests -> {"sent", "failed"} \cup {pc[q] : q \in Requests}]
      /\ \A q \in Requests : q # r => pc'[q] = pc[q]
      /\ pc'[r] \in {"sent", "failed"}
      /\ trusted' = [trusted EXCEPT ![r] = None] /\ addr' = [addr EXCEPT ![r] = None]
  BY DEF IInv, TypeOK, Send
<1>3. TypeOK'
  <2>1. wire' \subseteq [by : Requests, for : {"policy", "request"}, at : Ranges \cup {"proxy"},
                       to : Servers]
    BY <1>0, <1>1 DEF IInv, TypeOK, placesOf, Ranges
  <2> QED BY <1>0, <1>2, <2>1 DEF IInv, TypeOK, Ended
<1>4. FlawsOK' /\ HostsOK' /\ ConnOK' /\ CachesOK'
  BY <1>0, <1>2 DEF IInv, TypeOK, FlawsOK, HostsOK, ConnOK, CachesOK, hostsOf, rootOf, placesOf
<1>5. SentIsAuthorized' /\ JudgedByItsCluster'
  BY <1>0, <1>1 DEF IInv, SentIsAuthorized, JudgedByItsCluster, hostsOf
<1>6. NoForbiddenAddress' /\ RefusedCostsNothing'
  BY <1>0, <1>1 DEF IInv, TypeOK, NoForbiddenAddress, RefusedCostsNothing, placesOf
<1> QED BY <1>3, <1>4, <1>5, <1>6 DEF IInv

(* What the control plane does, and nothing happening, keep IInv.          *)
LEMMA OutsideKeeps ==
  ASSUME IInv, Migrate \/ Over \/ UNCHANGED vars
  PROVE  IInv'
<1>1. UNCHANGED <<req, named, facts, policy, pc, fetched, trusted, addr, wire>> /\ live' \in Facts
  BY DEF IInv, TypeOK, Migrate, Over, vars, caches, conn
<1> QED
  BY <1>1 DEF IInv, TypeOK, CachesOK, FlawsOK, HostsOK, ConnOK, hostsOf, rootOf, placesOf,
              SentIsAuthorized, JudgedByItsCluster, NoForbiddenAddress, RefusedCostsNothing

(* Every step keeps IInv.                                                  *)
LEMMA StepKeeps == IInv /\ [Next]_vars => IInv'
<1> SUFFICES ASSUME IInv, [Next]_vars PROVE IInv'
  OBVIOUS
<1> QED
  BY GatesKeep, DescriptionKeeps, PolicyKeeps, DialKeeps, SendKeeps, OutsideKeeps DEF Next

(* IInv holds in every reachable state.                                    *)
LEMMA Inductive == Spec => []IInv
BY InitEstablishes, StepKeeps, PTL DEF Spec
-----------------------------------------------------------------------------
(* The state keeps its types; past the host gate the facts are cached.     *)
THEOREM TypeCorrect == Spec => []TypeOK
<1>1. IInv => TypeOK BY DEF IInv
<1> QED BY <1>1, Inductive, PTL

(* What reaches the wire passed every gate, and reaches a server with a    *)
(* name its connector authorizes.                                          *)
THEOREM OnlyAuthorizedSent == Spec => []SentIsAuthorized
<1>1. IInv => SentIsAuthorized BY DEF IInv
<1> QED BY <1>1, Inductive, PTL

(* A request to a cluster reaches the cluster whose policy judged it.      *)
THEOREM RightCluster == Spec => []JudgedByItsCluster
<1>1. IInv => JudgedByItsCluster BY DEF IInv
<1> QED BY <1>1, Inductive, PTL

(* No credential goes to an address of the host or the platform.           *)
THEOREM AddressesAllowed == Spec => []NoForbiddenAddress
<1>1. IInv => NoForbiddenAddress BY DEF IInv
<1> QED BY <1>1, Inductive, PTL

(* Only a request that passed the earlier gates costs a read of the policy.*)
THEOREM ReadsEarned == Spec => []RefusedCostsNothing
<1>1. IInv => RefusedCostsNothing BY DEF IInv
<1> QED BY <1>1, Inductive, PTL
-----------------------------------------------------------------------------
(* A set of places has a first and a last. *)
LEMMA FirstPlace ==
  \A n \in Nat : \A P \in SUBSET (1..n) : P # {} => \E i \in P : \A j \in P : i <= j
<1> TAKE n \in Nat
<1> TAKE P \in SUBSET (1..n)
<1> HAVE P # {}
<1>1. P \subseteq Nat  OBVIOUS
<1>2. PICK i \in P : \A j \in P : ~(j < i)
  <2>1. IsWellFoundedOn(OpToRel(<, Nat), Nat)  BY NatLessThanWellFounded
  <2>2. \E i \in P : \A j \in P : ~(<<j, i>> \in OpToRel(<, Nat))
    BY <1>1, <2>1, WFMin
  <2> QED  BY <1>1, <2>2 DEF OpToRel
<1> QED  BY <1>1, <1>2

(* The k-th value of f follows from the one before it, by next. *)
Follows(f, a, n, next) == f[0] = a /\ \A i \in 1..n : f[i] = next[<<i, f[i - 1]>>]

(* A function given by its value at 0 and by its steps exists. *)
LEMMA Recursion ==
  ASSUME NEW S, NEW n \in Nat, NEW a \in S, NEW next \in [(1..n) \X S -> S]
  PROVE  \E f \in [0..n -> S] : Follows(f, a, n, next)
<1> DEFINE Good(k) == \E f \in [0..k -> S] : f[0] = a /\ \A i \in 1..k : f[i] = next[<<i, f[i - 1]>>]
           Bad == {k \in 1..n : ~Good(k)}
<1>1. Good(0)
  <2>1. [i \in 0..0 |-> a] \in [0..0 -> S] /\ [i \in 0..0 |-> a][0] = a  OBVIOUS
  <2>2. 1..0 = {}  OBVIOUS
  <2> QED  BY <2>1, <2>2
<1>2. ASSUME NEW k \in 1..n, Good(k - 1) PROVE Good(k)
  <2>1. PICK f \in [0..(k - 1) -> S] : f[0] = a /\ \A i \in 1..(k - 1) : f[i] = next[<<i, f[i - 1]>>]
    BY <1>2
  <2>2. k - 1 \in 0..(k - 1)  OBVIOUS
  <2>3. next[<<k, f[k - 1]>>] \in S  BY <2>2
  <2> DEFINE g == [i \in 0..k |-> IF i = k THEN next[<<k, f[k - 1]>>] ELSE f[i]]
  <2>4. g \in [0..k -> S]
    <3> SUFFICES ASSUME NEW i \in 0..k PROVE (IF i = k THEN next[<<k, f[k - 1]>>] ELSE f[i]) \in S  OBVIOUS
    <3>1. i # k => i \in 0..(k - 1)  OBVIOUS
    <3> QED  BY <2>3, <3>1
  <2>5. g[0] = a  BY <2>1
  <2>6. ASSUME NEW i \in 1..k PROVE g[i] = next[<<i, g[i - 1]>>]
    <3>1. i - 1 \in 0..k /\ i - 1 # k /\ i \in 0..k  OBVIOUS
    <3>2. g[i - 1] = f[i - 1]  BY <3>1
    <3>3. CASE i = k  BY <3>1, <3>2, <3>3
    <3>4. CASE i # k
      <4>1. i \in 1..(k - 1)  BY <3>4
      <4>2. g[i] = f[i]  BY <3>1, <3>4
      <4> QED  BY <2>1, <3>2, <4>1, <4>2
    <3> QED  BY <3>3, <3>4
  <2> HIDE DEF g
  <2> QED  BY <2>4, <2>5, <2>6
<1>3. Bad = {}
  <2> SUFFICES ASSUME Bad # {} PROVE FALSE  OBVIOUS
  <2>1. PICK k \in Bad : \A j \in Bad : k <= j  BY FirstPlace
  <2>2. k \in 1..n /\ ~Good(k)  OBVIOUS
  <2>3. k - 1 = 0 \/ (k - 1 \in 1..n /\ k - 1 \notin Bad)  BY <2>1, <2>2
  <2>4. Good(k - 1)
    <3> HIDE DEF Good
    <3> QED  BY <1>1, <2>2, <2>3
  <2> HIDE DEF Good
  <2> QED  BY <1>2, <2>2, <2>4
<1>4. n = 0 \/ n \in 1..n  OBVIOUS
<1>5. Good(n)
  <2> HIDE DEF Good
  <2> QED  BY <1>1, <1>3, <1>4
<1> QED  BY <1>5 DEF Follows

(* FlattenSeq, from the left. *)
LEMMA FlattenSteps ==
  ASSUME NEW S, NEW seqs \in Seq(Seq(S))
  PROVE  \E f \in [0..Len(seqs) -> Seq(S)] :
           /\ f[0] = <<>>
           /\ \A i \in 1..Len(seqs) : f[i] = f[i - 1] \o seqs[i]
           /\ FlattenSeq(seqs) = f[Len(seqs)]
<1> DEFINE n == Len(seqs)
           T == Seq(S)
<1>0. n \in Nat /\ \A i \in 1..n : seqs[i] \in T  BY ElementOfSeq
<1>1. <<>> \in T  BY EmptySeq
<1>2. CASE n = 0
  <2>1. seqs = <<>>  BY <1>2, EmptySeq
  <2>2. FlattenSeq(seqs) = <<>>  BY <1>2, <2>1 DEF FlattenSeq
  <2>3. [i \in 0..0 |-> <<>>] \in [0..0 -> T] /\ [i \in 0..0 |-> <<>>][0] = <<>>  BY <1>1
  <2>4. 1..0 = {}  OBVIOUS
  <2> HIDE DEF T
  <2> QED  BY <1>2, <2>2, <2>3, <2>4 DEF T
<1>3. CASE n # 0
  <2> DEFINE next == [p \in (1..n) \X T |-> p[2] \o seqs[p[1]]]
             Steps(f) == f = [i \in 1..n |-> IF i = 1 THEN seqs[i] ELSE f[i - 1] \o seqs[i]]
             flatten == CHOOSE f : Steps(f)
  <2>1. next \in [(1..n) \X T -> T]
    <3>1. ASSUME NEW i \in 1..n, NEW t \in T PROVE t \o seqs[i] \in T  BY <1>0, ConcatProperties
    <3> HIDE DEF T
    <3> QED  BY <3>1
  <2>2. PICK f \in [0..n -> T] : f[0] = <<>> /\ \A i \in 1..n : f[i] = next[<<i, f[i - 1]>>]
    <3>1. PICK a \in T : a = <<>>  BY <1>1
    <3>2. n \in Nat  BY <1>0
    <3> HIDE DEF next, T, n
    <3>3. \E f \in [0..n -> T] : Follows(f, a, n, next)
      BY <2>1, <3>2, Recursion
    <3> QED  BY <3>1, <3>3 DEF Follows
  <2>3. ASSUME NEW i \in 1..n PROVE f[i] = f[i - 1] \o seqs[i] /\ f[i - 1] \in T
    <3> HIDE DEF T, n
    <3>1. i - 1 \in 0..n  BY <1>0
    <3>2. f[i - 1] \in T  BY <3>1
    <3>3. next[<<i, f[i - 1]>>] = f[i - 1] \o seqs[i]  BY <3>2
    <3> QED  BY <2>2, <3>2, <3>3
  <2>9. f[1] = seqs[1]
    <3>1. 1 \in 1..n /\ 1 - 1 = 0  BY <1>0, <1>3
    <3>2. f[1] = f[0] \o seqs[1]  BY <2>3, <3>1
    <3>3. f[1] = <<>> \o seqs[1]  BY <2>2, <3>2
    <3>4. seqs[1] \in Seq(S)  BY <1>0, <3>1
    <3> QED  BY <3>3, <3>4, ConcatEmptySeq
  <2>4. FlattenSeq(seqs) = flatten[n]  BY <1>3 DEF FlattenSeq
  <2>5. Steps(flatten)
    <3> DEFINE g == [i \in 1..n |-> f[i]]
    <3>1. ASSUME NEW i \in 1..n PROVE g[i] = IF i = 1 THEN seqs[i] ELSE g[i - 1] \o seqs[i]
      <4>1. CASE i = 1  BY <2>9, <4>1
      <4>2. CASE i # 1
        <5>1. i - 1 \in 1..n  BY <1>0, <4>2
        <5> QED  BY <2>3, <4>2, <5>1
      <4> QED  BY <4>1, <4>2
    <3>2. Steps(g)  BY <3>1
    <3> HIDE DEF g, Steps
    <3> QED  BY <3>2
  <2>6. ASSUME NEW i \in 1..n PROVE flatten[i] = IF i = 1 THEN seqs[i] ELSE flatten[i - 1] \o seqs[i]
    <3> HIDE DEF flatten
    <3> QED  BY <2>5
  <2>7. \A i \in 1..n : flatten[i] = f[i]
    <3> HIDE DEF flatten, Steps
    <3> DEFINE Bad == {i \in 1..n : flatten[i] # f[i]}
    <3> SUFFICES ASSUME Bad # {} PROVE FALSE  OBVIOUS
    <3>1. PICK i \in Bad : \A j \in Bad : i <= j  BY <1>0, FirstPlace
    <3>2. CASE i = 1  BY <2>6, <2>9, <3>1, <3>2
    <3>3. CASE i # 1
      <4>1. i \in 1..n /\ i - 1 \in 1..n /\ ~(i <= i - 1)  BY <1>0, <3>3
      <4>2. flatten[i - 1] = f[i - 1]  BY <3>1, <4>1
      <4> QED  BY <2>3, <2>6, <3>1, <3>3, <4>1, <4>2, ZenonT(60)
    <3> QED  BY <3>2, <3>3
  <2>8. n \in 1..n  BY <1>0, <1>3
  <2> HIDE DEF flatten, Steps, next
  <2> QED  BY <2>2, <2>3, <2>4, <2>7, <2>8
<1> QED  BY <1>2, <1>3

LEMMA FunctionIsSeq ==
  ASSUME NEW S, NEW n \in Nat, NEW f \in [1..n -> S]
  PROVE  f \in Seq(S)
OBVIOUS

-----------------------------------------------------------------------------
(* The states of the walk over all keys, token after token. *)
Walks(f, st, text) == f[0] = st /\ \A k \in 1..Len(text) : f[k] = stepToken(f[k - 1], text[k])

LEMMA WalkSteps ==
  ASSUME NEW S, NEW text \in Seq(S), NEW st
  PROVE  \E f : Walks(f, st, text) /\ walkTokens(st, text) = f[Len(text)]
<1> DEFINE n == Len(text)
           Values(m, f) == f = [k \in 0..m |-> IF k = 0 THEN st ELSE stepToken(f[k - 1], text[k])]
           Good(m) == \E f : Values(m, f)
           Bad == {m \in 1..n : ~Good(m)}
<1>0. n \in Nat  OBVIOUS
<1> HIDE DEF n
<1>1. Good(0)
  <2>1. Values(0, [k \in 0..0 |-> st])  OBVIOUS
  <2> HIDE DEF Values
  <2> QED  BY <2>1
<1>2. ASSUME NEW m \in 1..n, Good(m - 1) PROVE Good(m)
  <2>1. PICK f : Values(m - 1, f)  BY <1>2
  <2> DEFINE g == [k \in 0..m |-> IF k = m THEN stepToken(f[m - 1], text[m]) ELSE f[k]]
  <2>2. ASSUME NEW k \in 0..m PROVE g[k] = IF k = 0 THEN st ELSE stepToken(g[k - 1], text[k])
    <3>1. m \in Nat /\ m > 0  BY <1>0
    <3>2. CASE k = 0  BY <2>1, <3>1, <3>2
    <3>3. CASE k # 0 /\ k # m
      <4>1. k \in 0..(m - 1) /\ k - 1 \in 0..m /\ k - 1 # m  BY <3>1, <3>3
      <4> QED  BY <2>1, <3>3, <4>1
    <3>4. CASE k # 0 /\ k = m
      <4>1. k - 1 \in 0..m /\ k - 1 # m  BY <3>1, <3>4
      <4> QED  BY <3>4, <4>1
    <3> QED  BY <3>2, <3>3, <3>4
  <2>3. Values(m, g)  BY <2>2
  <2> HIDE DEF Values, g
  <2> QED  BY <2>3
<1>3. Bad = {}
  <2> SUFFICES ASSUME Bad # {} PROVE FALSE  OBVIOUS
  <2>1. PICK m \in Bad : \A j \in Bad : m <= j  BY <1>0, FirstPlace
  <2> HIDE DEF Good
  <2>2. m \in 1..n /\ ~Good(m)  OBVIOUS
  <2>3. m - 1 = 0 \/ (m - 1 \in 1..n /\ ~(m <= m - 1))  BY <1>0, <2>2
  <2>4. Good(m - 1)  BY <1>1, <2>1, <2>3
  <2> QED  BY <1>2, <2>2, <2>4
<1>4. Good(n)
  <2> HIDE DEF Good
  <2> QED  BY <1>0, <1>1, <1>3
<1> DEFINE after == CHOOSE f : Values(n, f)
<1>5. Values(n, after)  BY <1>4
<1>6. walkTokens(st, text) = after[n]  BY DEF walkTokens, n
<1>7. 0 \in 0..n /\ n \in 0..n /\ \A k \in 1..n : k \in 0..n /\ k # 0  BY <1>0
<1>8. Walks(after, st, text)
  <2> HIDE DEF after
  <2> QED  BY <1>5, <1>7 DEF Walks, n
<1> HIDE DEF after
<1> QED  BY <1>6, <1>8 DEF n

(* The walk of two texts in a row is that of the second from where the     *)
(* first has ended.                                                        *)
LEMMA WalkConcat ==
  ASSUME NEW S, NEW s \in Seq(S), NEW t \in Seq(S), NEW st
  PROVE  walkTokens(st, s \o t) = walkTokens(walkTokens(st, s), t)
<1>0. /\ s \o t \in Seq(S) /\ Len(s \o t) = Len(s) + Len(t) /\ Len(s) \in Nat /\ Len(t) \in Nat
      /\ \A i \in 1..(Len(s) + Len(t)) : (s \o t)[i] = IF i <= Len(s) THEN s[i] ELSE t[i - Len(s)]
  BY ConcatProperties
<1>1. PICK u : u = s \o t  OBVIOUS
<1>2. PICK f : Walks(f, st, u) /\ walkTokens(st, u) = f[Len(u)]  BY <1>0, <1>1, WalkSteps
<1>3. PICK g : Walks(g, st, s) /\ walkTokens(st, s) = g[Len(s)]  BY WalkSteps
<1>4. PICK h : Walks(h, g[Len(s)], t) /\ walkTokens(g[Len(s)], t) = h[Len(t)]  BY WalkSteps
<1> DEFINE n == Len(s)
           m == Len(t)
<1>5. n \in Nat /\ m \in Nat /\ Len(u) = n + m  BY <1>0, <1>1
<1>6. ASSUME NEW k \in 1..n PROVE f[k] = stepToken(f[k - 1], s[k]) /\ g[k] = stepToken(g[k - 1], s[k])
  <2>1. k \in 1..Len(u) /\ u[k] = s[k]  BY <1>0, <1>1, <1>5
  <2> QED  BY <1>2, <1>3, <2>1 DEF Walks
<1>7. ASSUME NEW k \in 1..m PROVE f[n + k] = stepToken(f[n + k - 1], t[k]) /\ h[k] = stepToken(h[k - 1], t[k])
  <2>1. n + k \in 1..Len(u) /\ u[n + k] = t[k]
    <3>1. n + k \in 1..(n + m) /\ ~(n + k <= n) /\ n + k - n = k  BY <1>5
    <3> QED  BY <1>0, <1>1, <1>5, <3>1
  <2> QED  BY <1>2, <1>4, <2>1 DEF Walks
<1>8. f[0] = g[0] /\ h[0] = g[n]  BY <1>2, <1>3, <1>4 DEF Walks
<1> HIDE DEF n, m
<1>9. \A k \in 1..n : f[k] = g[k]
  <2> DEFINE Bad == {k \in 1..n : f[k] # g[k]}
  <2> SUFFICES ASSUME Bad # {} PROVE FALSE  OBVIOUS
  <2>1. PICK k \in Bad : \A j \in Bad : k <= j  BY <1>5, FirstPlace
  <2>2. k - 1 = 0 \/ (k - 1 \in 1..n /\ ~(k <= k - 1))  BY <1>5
  <2>3. f[k - 1] = g[k - 1]  BY <1>8, <2>1, <2>2
  <2> QED  BY <1>6, <2>1, <2>3
<1>10. f[n] = g[n]  BY <1>5, <1>8, <1>9
<1>11. \A k \in 1..m : f[n + k] = h[k]
  <2> DEFINE Bad == {k \in 1..m : f[n + k] # h[k]}
  <2> SUFFICES ASSUME Bad # {} PROVE FALSE  OBVIOUS
  <2>1. PICK k \in Bad : \A j \in Bad : k <= j  BY <1>5, FirstPlace
  <2>2. k \in 1..m /\ (k - 1 = 0 \/ (k - 1 \in 1..m /\ ~(k <= k - 1)))  BY <1>5
  <2>3. f[n + (k - 1)] = h[k - 1]
    <3>1. CASE k - 1 = 0  BY <1>5, <1>8, <1>10, <3>1
    <3>2. CASE k - 1 # 0  BY <2>1, <2>2, <3>2
    <3> QED  BY <3>1, <3>2
  <2>4. n + k - 1 = n + (k - 1)  BY <1>5, <2>2
  <2> QED  BY <1>7, <2>1, <2>3, <2>4
<1>12. f[n + m] = h[m]
  <2>1. CASE m = 0  BY <1>5, <1>8, <1>10, <2>1
  <2>2. CASE m # 0  BY <1>5, <1>11, <2>2
  <2> QED  BY <2>1, <2>2
<1> QED  BY <1>1, <1>2, <1>3, <1>4, <1>5, <1>12 DEF n, m

(* An empty text changes nothing, one token is one step.                   *)
LEMMA WalkNothing == \A st : walkTokens(st, <<>>) = st
<1> TAKE st
<1>1. <<>> \in Seq({}) /\ Len(<<>>) = 0  OBVIOUS
<1>2. PICK f : Walks(f, st, <<>>) /\ walkTokens(st, <<>>) = f[Len(<<>>)]  BY <1>1, WalkSteps
<1> QED  BY <1>1, <1>2 DEF Walks

LEMMA WalkOne == \A st, t : walkTokens(st, <<t>>) = stepToken(st, t)
<1> TAKE st, t
<1>1. PICK one : one = <<t>>  OBVIOUS
<1>2. one \in Seq({t}) /\ Len(one) = 1 /\ one[1] = t  BY <1>1
<1>3. PICK f : Walks(f, st, one) /\ walkTokens(st, one) = f[Len(one)]  BY <1>2, WalkSteps
<1>4. f[1] = stepToken(f[1 - 1], one[1]) /\ f[0] = st  BY <1>2, <1>3 DEF Walks
<1> QED  BY <1>1, <1>2, <1>3, <1>4

(* What has failed stays so. *)
LEMMA WalkStaysFailed ==
  ASSUME NEW S, NEW text \in Seq(S), NEW stack
  PROVE  walkTokens([stack |-> stack, failed |-> TRUE], text) = [stack |-> stack, failed |-> TRUE]
<1> DEFINE st == [stack |-> stack, failed |-> TRUE]
           n == Len(text)
<1>1. PICK f : Walks(f, st, text) /\ walkTokens(st, text) = f[n]  BY WalkSteps
<1>2. n \in Nat  OBVIOUS
<1>3. \A t : stepToken(st, t) = st  BY DEF stepToken
<1> HIDE DEF st, n
<1>4. f[0] = st /\ \A k \in 1..n : f[k] = stepToken(f[k - 1], text[k])  BY <1>1 DEF Walks, n
<1> DEFINE Bad == {k \in 1..n : f[k] # st}
<1>5. Bad = {}
  <2> SUFFICES ASSUME Bad # {} PROVE FALSE  OBVIOUS
  <2>1. PICK k \in Bad : \A j \in Bad : k <= j  BY <1>2, FirstPlace
  <2>2. k - 1 = 0 \/ (k - 1 \in 1..n /\ ~(k <= k - 1))  BY <1>2
  <2>3. f[k - 1] = st  BY <1>4, <2>1, <2>2
  <2> QED  BY <1>3, <1>4, <2>1, <2>3
<1>6. n = 0 \/ n \in 1..n  BY <1>2
<1> QED  BY <1>1, <1>4, <1>5, <1>6 DEF st
(* The same of the walk into a map of verdicts. *)
Reads(f, st, text) == f[0] = st /\ \A k \in 1..Len(text) : f[k] = decode(f[k - 1], text[k])

(* The same of the reader.                                                 *)
LEMMA ReadSteps ==
  ASSUME NEW S, NEW text \in Seq(S), NEW st
  PROVE  \E f : Reads(f, st, text) /\ readTokens(st, text) = f[Len(text)]
<1> DEFINE n == Len(text)
           Values(m, f) == f = [k \in 0..m |-> IF k = 0 THEN st ELSE decode(f[k - 1], text[k])]
           Good(m) == \E f : Values(m, f)
           Bad == {m \in 1..n : ~Good(m)}
<1>0. n \in Nat  OBVIOUS
<1> HIDE DEF n
<1>1. Good(0)
  <2>1. Values(0, [k \in 0..0 |-> st])  OBVIOUS
  <2> HIDE DEF Values
  <2> QED  BY <2>1
<1>2. ASSUME NEW m \in 1..n, Good(m - 1) PROVE Good(m)
  <2>1. PICK f : Values(m - 1, f)  BY <1>2
  <2> DEFINE g == [k \in 0..m |-> IF k = m THEN decode(f[m - 1], text[m]) ELSE f[k]]
  <2>2. ASSUME NEW k \in 0..m PROVE g[k] = IF k = 0 THEN st ELSE decode(g[k - 1], text[k])
    <3>1. m \in Nat /\ m > 0  BY <1>0
    <3>2. CASE k = 0  BY <2>1, <3>1, <3>2
    <3>3. CASE k # 0 /\ k # m
      <4>1. k \in 0..(m - 1) /\ k - 1 \in 0..m /\ k - 1 # m  BY <3>1, <3>3
      <4> QED  BY <2>1, <3>3, <4>1
    <3>4. CASE k # 0 /\ k = m
      <4>1. k - 1 \in 0..m /\ k - 1 # m  BY <3>1, <3>4
      <4> QED  BY <3>4, <4>1
    <3> QED  BY <3>2, <3>3, <3>4
  <2>3. Values(m, g)  BY <2>2
  <2> HIDE DEF Values, g
  <2> QED  BY <2>3
<1>3. Bad = {}
  <2> SUFFICES ASSUME Bad # {} PROVE FALSE  OBVIOUS
  <2>1. PICK m \in Bad : \A j \in Bad : m <= j  BY <1>0, FirstPlace
  <2> HIDE DEF Good
  <2>2. m \in 1..n /\ ~Good(m)  OBVIOUS
  <2>3. m - 1 = 0 \/ (m - 1 \in 1..n /\ ~(m <= m - 1))  BY <1>0, <2>2
  <2>4. Good(m - 1)  BY <1>1, <2>1, <2>3
  <2> QED  BY <1>2, <2>2, <2>4
<1>4. Good(n)
  <2> HIDE DEF Good
  <2> QED  BY <1>0, <1>1, <1>3
<1> DEFINE after == CHOOSE f : Values(n, f)
<1>5. Values(n, after)  BY <1>4
<1>6. readTokens(st, text) = after[n]  BY DEF readTokens, n
<1>7. 0 \in 0..n /\ n \in 0..n /\ \A k \in 1..n : k \in 0..n /\ k # 0  BY <1>0
<1>8. Reads(after, st, text)
  <2> HIDE DEF after
  <2> QED  BY <1>5, <1>7 DEF Reads, n
<1> HIDE DEF after
<1> QED  BY <1>6, <1>8 DEF n

LEMMA ReadConcat ==
  ASSUME NEW S, NEW s \in Seq(S), NEW t \in Seq(S), NEW st
  PROVE  readTokens(st, s \o t) = readTokens(readTokens(st, s), t)
<1>0. /\ s \o t \in Seq(S) /\ Len(s \o t) = Len(s) + Len(t) /\ Len(s) \in Nat /\ Len(t) \in Nat
      /\ \A i \in 1..(Len(s) + Len(t)) : (s \o t)[i] = IF i <= Len(s) THEN s[i] ELSE t[i - Len(s)]
  BY ConcatProperties
<1>1. PICK u : u = s \o t  OBVIOUS
<1>2. PICK f : Reads(f, st, u) /\ readTokens(st, u) = f[Len(u)]  BY <1>0, <1>1, ReadSteps
<1>3. PICK g : Reads(g, st, s) /\ readTokens(st, s) = g[Len(s)]  BY ReadSteps
<1>4. PICK h : Reads(h, g[Len(s)], t) /\ readTokens(g[Len(s)], t) = h[Len(t)]  BY ReadSteps
<1> DEFINE n == Len(s)
           m == Len(t)
<1>5. n \in Nat /\ m \in Nat /\ Len(u) = n + m  BY <1>0, <1>1
<1>6. ASSUME NEW k \in 1..n PROVE f[k] = decode(f[k - 1], s[k]) /\ g[k] = decode(g[k - 1], s[k])
  <2>1. k \in 1..Len(u) /\ u[k] = s[k]  BY <1>0, <1>1, <1>5
  <2> QED  BY <1>2, <1>3, <2>1 DEF Reads
<1>7. ASSUME NEW k \in 1..m PROVE f[n + k] = decode(f[n + k - 1], t[k]) /\ h[k] = decode(h[k - 1], t[k])
  <2>1. n + k \in 1..Len(u) /\ u[n + k] = t[k]
    <3>1. n + k \in 1..(n + m) /\ ~(n + k <= n) /\ n + k - n = k  BY <1>5
    <3> QED  BY <1>0, <1>1, <1>5, <3>1
  <2> QED  BY <1>2, <1>4, <2>1 DEF Reads
<1>8. f[0] = g[0] /\ h[0] = g[n]  BY <1>2, <1>3, <1>4 DEF Reads
<1> HIDE DEF n, m
<1>9. \A k \in 1..n : f[k] = g[k]
  <2> DEFINE Bad == {k \in 1..n : f[k] # g[k]}
  <2> SUFFICES ASSUME Bad # {} PROVE FALSE  OBVIOUS
  <2>1. PICK k \in Bad : \A j \in Bad : k <= j  BY <1>5, FirstPlace
  <2>2. k - 1 = 0 \/ (k - 1 \in 1..n /\ ~(k <= k - 1))  BY <1>5
  <2>3. f[k - 1] = g[k - 1]  BY <1>8, <2>1, <2>2
  <2> QED  BY <1>6, <2>1, <2>3
<1>10. f[n] = g[n]  BY <1>5, <1>8, <1>9
<1>11. \A k \in 1..m : f[n + k] = h[k]
  <2> DEFINE Bad == {k \in 1..m : f[n + k] # h[k]}
  <2> SUFFICES ASSUME Bad # {} PROVE FALSE  OBVIOUS
  <2>1. PICK k \in Bad : \A j \in Bad : k <= j  BY <1>5, FirstPlace
  <2>2. k \in 1..m /\ (k - 1 = 0 \/ (k - 1 \in 1..m /\ ~(k <= k - 1)))  BY <1>5
  <2>3. f[n + (k - 1)] = h[k - 1]
    <3>1. CASE k - 1 = 0  BY <1>5, <1>8, <1>10, <3>1
    <3>2. CASE k - 1 # 0  BY <2>1, <2>2, <3>2
    <3> QED  BY <3>1, <3>2
  <2>4. n + k - 1 = n + (k - 1)  BY <1>5, <2>2
  <2> QED  BY <1>7, <2>1, <2>3, <2>4
<1>12. f[n + m] = h[m]
  <2>1. CASE m = 0  BY <1>5, <1>8, <1>10, <2>1
  <2>2. CASE m # 0  BY <1>5, <1>11, <2>2
  <2> QED  BY <2>1, <2>2
<1> QED  BY <1>1, <1>2, <1>3, <1>4, <1>5, <1>12 DEF n, m

(* An empty text changes nothing, one token is one step.                   *)
LEMMA ReadNothing == \A st : readTokens(st, <<>>) = st
<1> TAKE st
<1>1. <<>> \in Seq({}) /\ Len(<<>>) = 0  OBVIOUS
<1>2. PICK f : Reads(f, st, <<>>) /\ readTokens(st, <<>>) = f[Len(<<>>)]  BY <1>1, ReadSteps
<1> QED  BY <1>1, <1>2 DEF Reads

LEMMA ReadOne == \A st, t : readTokens(st, <<t>>) = decode(st, t)
<1> TAKE st, t
<1>1. PICK one : one = <<t>>  OBVIOUS
<1>2. one \in Seq({t}) /\ Len(one) = 1 /\ one[1] = t  BY <1>1
<1>3. PICK f : Reads(f, st, one) /\ readTokens(st, one) = f[Len(one)]  BY <1>2, ReadSteps
<1>4. f[1] = decode(f[1 - 1], one[1]) /\ f[0] = st  BY <1>2, <1>3 DEF Reads
<1> QED  BY <1>1, <1>2, <1>3, <1>4

-----------------------------------------------------------------------------
(* The states of the walk over all keys: a scope that waits for a key, and *)
(* one that has read it.                                                   *)
Token == STRING \cup Delims \cup {Junk}
Frame == [seen : SUBSET STRING, expectKey : BOOLEAN, object : BOOLEAN]
Scope(seen) == [seen |-> seen, expectKey |-> TRUE, object |-> TRUE]
Named(seen) == [seen |-> seen, expectKey |-> FALSE, object |-> TRUE]
Walked(stack) == [stack |-> stack, failed |-> FALSE]
Broken(st) == \E stack : st = [stack |-> stack, failed |-> TRUE]
Turn(t) == IF t \in Openers THEN 1 ELSE IF t \in Closers THEN -1 ELSE 0

(* Which tokens are delimiters, and what they differ in.                   *)
LEMMA Delimiters ==
  /\ Openers \cap Closers = {} /\ Junk \notin Delims
  /\ \A t \in Names : t \in STRING /\ t \in Token /\ t \notin Delims /\ t # Junk /\ t \notin Openers /\ t \notin Closers
  /\ "{" \in Delims /\ "[" \in Delims /\ "{" \in Openers /\ "[" \in Openers /\ "}" \in Closers /\ "}" \in Delims
  /\ "{" # "[" /\ "{" # "}" /\ "[" # "}" /\ "{" # Junk /\ "[" # Junk /\ "}" # Junk
  /\ \A t \in Openers : t = "{" \/ t = "["
BY DEF Openers, Closers, Delims, Junk, Names, Token

(* The top of a stack that was just pushed.                                *)
LEMMA Top ==
  ASSUME NEW S, NEW s \in Seq(S), NEW x \in S
  PROVE  /\ Append(s, x) \in Seq(S) /\ Append(s, x) # <<>>
         /\ Last(Append(s, x)) = x /\ Front(Append(s, x)) = s
         /\ Len(Append(s, x)) = Len(s) + 1 /\ \A i \in 1..Len(s) : Append(s, x)[i] = s[i]
<1> DEFINE u == Append(s, x)
<1>1. /\ u \in Seq(S) /\ u # <<>> /\ Len(u) = Len(s) + 1
      /\ \A i \in 1..Len(s) : u[i] = s[i]
      /\ u[Len(s) + 1] = x
  BY AppendProperties
<1>2. Len(s) \in Nat  OBVIOUS
<1> HIDE DEF u
<1>3. Last(u) = x  BY <1>1 DEF Last
<1>4. Front(u) = SubSeq(u, 1, Len(s))  BY <1>1, <1>2 DEF Front
<1>5. /\ SubSeq(u, 1, Len(s)) \in Seq(S) /\ Len(SubSeq(u, 1, Len(s))) = Len(s)
      /\ \A i \in 1..Len(s) : SubSeq(u, 1, Len(s))[i] = s[i]
  <2>1. \A i \in 1..Len(s) : u[i] \in S  BY <1>1, ElementOfSeq
  <2>2. /\ SubSeq(u, 1, Len(s)) \in Seq(S)
        /\ Len(SubSeq(u, 1, Len(s))) = IF 1 <= Len(s) THEN Len(s) - 1 + 1 ELSE 0
        /\ \A i \in 1..(Len(s) - 1 + 1) : SubSeq(u, 1, Len(s))[i] = u[1 + i - 1]
    BY <1>2, <2>1, SubSeqProperties
  <2> QED  BY <1>1, <1>2, <2>2
<1>6. Front(u) = s  BY <1>4, <1>5, SeqEqual
<1> QED  BY <1>1, <1>3, <1>6 DEF u

(* A value that is written where a scope waits for none leaves it waiting  *)
(* for a key again.                                                        *)
LEMMA AfterValue ==
  ASSUME NEW base \in Seq(Frame), NEW F \in Frame
  PROVE  afterValue(Append(base, F)) = Append(base, [F EXCEPT !.expectKey = IF F.object THEN TRUE ELSE @])
<1>1. Append(base, F) # <<>> /\ Last(Append(base, F)) = F /\ Front(Append(base, F)) = base  BY Top
<1>2. ~F.object => [F EXCEPT !.expectKey = IF F.object THEN TRUE ELSE @] = F  BY DEF Frame
<1>3. F.object => [F EXCEPT !.expectKey = IF F.object THEN TRUE ELSE @] = [F EXCEPT !.expectKey = TRUE]  OBVIOUS
<1> QED  BY <1>1, <1>2, <1>3, Zenon DEF afterValue

(* The stack a token leaves: its height follows the brackets, and what is  *)
(* below the top is left alone.                                            *)
Above(up, stack, t) ==
  /\ up \in Seq(Frame) /\ Len(up) = Len(stack) + Turn(t)
  /\ \A j \in 1..(Len(stack) - 1) : up[j] = stack[j]

(* What a token of a value makes of the scopes it stands in.               *)
LEMMA StackStep ==
  ASSUME NEW stack \in Seq(Frame), stack # <<>>, NEW t \in STRING, t # Junk
  PROVE  \/ Broken(stepToken(Walked(stack), t))
         \/ \E up : stepToken(Walked(stack), t) = Walked(up) /\ Above(up, stack, t)
<1>1. PICK base \in Seq(Frame), F \in Frame : stack = Append(base, F)  BY SequenceEmptyOrAppend
<1>2. /\ Last(stack) = F /\ Front(stack) = base /\ Len(stack) = Len(base) + 1 /\ Len(base) \in Nat
      /\ \A j \in 1..Len(base) : stack[j] = base[j]
  BY <1>1, Top
<1> DEFINE F2 == [F EXCEPT !.expectKey = IF F.object THEN TRUE ELSE @]
<1>3. F2 \in Frame  BY DEF Frame
<1>4. afterValue(stack) = Append(base, F2)  BY <1>1, AfterValue
<1>5. objectFrame \in Frame /\ Array \in Frame  BY DEF objectFrame, Array, Frame
<1> HIDE DEF F2
<1>6. Append(base, F2) \in Seq(Frame) /\ Len(Append(base, F2)) = Len(base) + 1 /\ \A j \in 1..Len(base) : Append(base, F2)[j] = base[j]
  BY <1>3, Top
<1>7. CASE t \in Openers
  <2>1. PICK G \in Frame : stepDelim(stack, t) = Append(Append(base, F2), G)
    <3>1. t = "{" \/ t = "["  BY <1>7, Delimiters
    <3>2. CASE t = "{"  BY <1>4, <1>5, <3>2 DEF stepDelim
    <3>3. CASE t = "["  BY <1>4, <1>5, <3>3, Delimiters DEF stepDelim
    <3> QED  BY <3>1, <3>2, <3>3
  <2> DEFINE up == Append(Append(base, F2), G)
  <2>2. up \in Seq(Frame) /\ Len(up) = Len(base) + 2 /\ \A j \in 1..Len(base) : up[j] = base[j]
    <3> DEFINE low == Append(base, F2)
    <3>1. low \in Seq(Frame) /\ Len(low) = Len(base) + 1 /\ \A j \in 1..Len(base) : low[j] = base[j]  BY <1>6
    <3> HIDE DEF low
    <3>2. Append(low, G) \in Seq(Frame) /\ Len(Append(low, G)) = Len(low) + 1 /\ \A j \in 1..Len(low) : Append(low, G)[j] = low[j]
      BY <3>1, Top
    <3>3. \A j \in 1..Len(base) : j \in 1..Len(low)  BY <1>2, <3>1
    <3> QED  BY <1>2, <3>1, <3>2, <3>3 DEF low
  <2>3. stepToken(Walked(stack), t) = Walked(up)
    BY <1>7, <2>1, Zenon DEF stepToken, Walked, Delims
  <2> HIDE DEF up
  <2>4. Above(up, stack, t)  BY <1>2, <1>7, <2>2 DEF Above, Turn
  <2> QED  BY <2>3, <2>4
<1>8. CASE t \in Closers
  <2>1. t # "{" /\ t # "[" /\ t \notin Openers /\ t \in Delims  BY <1>8 DEF Closers, Openers, Delims
  <2>2. stepDelim(stack, t) = base  BY <1>2, <2>1 DEF stepDelim
  <2>3. stepToken(Walked(stack), t) = Walked(base)  BY <2>1, <2>2, Zenon DEF stepToken, Walked
  <2>4. Turn(t) = -1  BY <1>8, <2>1 DEF Turn
  <2>5. Len(base) = Len(stack) + Turn(t) /\ Len(stack) - 1 = Len(base)  BY <1>2, <2>4
  <2>6. Above(base, stack, t)  BY <1>2, <2>5 DEF Above
  <2> QED  BY <2>3, <2>6
<1>9. CASE t \notin Openers /\ t \notin Closers
  <2>1. t \notin Delims  BY <1>9 DEF Delims
  <2>2. CASE F.expectKey
    <3>1. stepToken(Walked(stack), t) = stepKey(Walked(stack), t)
      BY <1>2, <2>1, <2>2, Zenon DEF stepToken, Walked
    <3>2. CASE duplicate(F, t)
      <4>1. stepKey(Walked(stack), t) = [stack |-> stack, failed |-> TRUE]
        BY <1>2, <3>2, Zenon DEF stepKey, Walked
      <4> QED  BY <3>1, <4>1 DEF Broken
    <3>3. CASE ~duplicate(F, t)
      <4> DEFINE G == [F EXCEPT !.seen = @ \cup {t}, !.expectKey = FALSE]
      <4>1. G \in Frame  BY DEF Frame
      <4>2. stepKey(Walked(stack), t) = Walked(Append(base, G))
        BY <1>2, <3>3, Zenon DEF stepKey, Walked
      <4> HIDE DEF G
      <4>3. Append(base, G) \in Seq(Frame) /\ Len(Append(base, G)) = Len(base) + 1 /\ \A j \in 1..Len(base) : Append(base, G)[j] = base[j]
        BY <4>1, Top
      <4>4. Above(Append(base, G), stack, t)  BY <1>2, <1>9, <4>3 DEF Above, Turn
      <4> QED  BY <3>1, <4>2, <4>4
    <3> QED  BY <3>2, <3>3
  <2>3. CASE ~F.expectKey
    <3>1. stepToken(Walked(stack), t) = Walked(Append(base, F2))
      BY <1>2, <1>4, <2>1, <2>3, Zenon DEF stepToken, Walked
    <3>2. Above(Append(base, F2), stack, t)  BY <1>2, <1>6, <1>9 DEF Above, Turn
    <3> QED  BY <3>1, <3>2
  <2> QED  BY <2>2, <2>3
<1> QED  BY <1>7, <1>8, <1>9

(* The depth follows the brackets, one at a time. *)
LEMMA DepthStep ==
  ASSUME NEW value, NEW k \in Nat, k > 0
  PROVE  /\ Depth(value, k) \in Int /\ Depth(value, k - 1) \in Int
         /\ Depth(value, k) = Depth(value, k - 1) + Turn(value[k])
<1> DEFINE With(T, n) == {i \in 1..n : value[i] \in T}
<1>1. \A T : \A n \in Nat : IsFiniteSet(With(T, n)) /\ Cardinality(With(T, n)) \in Nat
  <2> TAKE T
  <2> TAKE n \in Nat
  <2>1. IsFiniteSet(1..n)  BY FS_Interval
  <2>2. With(T, n) \subseteq 1..n  OBVIOUS
  <2>3. IsFiniteSet(With(T, n))  BY <2>1, <2>2, FS_Subset
  <2> QED  BY <2>3, FS_CardinalityType
<1>2. \A T : Cardinality(With(T, k)) = Cardinality(With(T, k - 1)) + (IF value[k] \in T THEN 1 ELSE 0)
  <2> TAKE T
  <2>1. k - 1 \in Nat /\ k \notin 1..(k - 1) /\ 1..k = (1..(k - 1)) \cup {k}  OBVIOUS
  <2>2. CASE value[k] \in T
    <3>1. With(T, k) = With(T, k - 1) \cup {k} /\ k \notin With(T, k - 1)  BY <2>1, <2>2
    <3>2. IsFiniteSet(With(T, k - 1))  BY <1>1, <2>1
    <3> HIDE DEF With
    <3>3. Cardinality(With(T, k - 1) \cup {k}) = Cardinality(With(T, k - 1)) + 1  BY <3>1, <3>2, FS_AddElement
    <3> QED  BY <2>2, <3>1, <3>3
  <2>3. CASE value[k] \notin T
    <3>1. With(T, k) = With(T, k - 1)  BY <2>1, <2>3
    <3>2. Cardinality(With(T, k - 1)) \in Nat  BY <1>1, <2>1
    <3> HIDE DEF With
    <3> QED  BY <2>3, <3>1, <3>2
  <2> QED  BY <2>2, <2>3
<1>3. \A n : Depth(value, n) = Cardinality(With(Openers, n)) - Cardinality(With(Closers, n))
  BY DEF Depth
<1>4. k - 1 \in Nat  OBVIOUS
<1>5. value[k] \in Openers => value[k] \notin Closers  BY Delimiters
<1> HIDE DEF With
<1>6. /\ Cardinality(With(Openers, k)) \in Nat /\ Cardinality(With(Closers, k)) \in Nat
      /\ Cardinality(With(Openers, k - 1)) \in Nat /\ Cardinality(With(Closers, k - 1)) \in Nat
  BY <1>1, <1>4
<1> QED  BY <1>2, <1>3, <1>5, <1>6 DEF Turn

(* Before its first token a value has opened nothing.                      *)
LEMMA DepthZero == \A value : Depth(value, 0) = 0
<1> TAKE value
<1>1. \A T : {i \in 1..0 : value[i] \in T} = {}  OBVIOUS
<1>2. Depth(value, 0) = Cardinality({i \in 1..0 : value[i] \in Openers}) - Cardinality({i \in 1..0 : value[i] \in Closers})
  BY Zenon DEF Depth
<1>3. Cardinality({}) = 0  BY FS_EmptySet
<1> QED  BY <1>1, <1>2, <1>3

(* A walk that has failed stays where it is.                               *)
LEMMA StaysBroken == \A st, t : Broken(st) => stepToken(st, t) = st
<1> SUFFICES ASSUME NEW stack, NEW t
             PROVE  stepToken([stack |-> stack, failed |-> TRUE], t) = [stack |-> stack, failed |-> TRUE]
  BY DEF Broken
<1> QED  BY DEF stepToken

(* A scope waits for a key, or for the value of the key just read.         *)
LEMMA Waits ==
  ASSUME NEW seen, NEW key
  PROVE  /\ [Named(seen) EXCEPT !.expectKey = TRUE] = Scope(seen)
         /\ [Scope(seen) EXCEPT !.seen = @ \cup {key}, !.expectKey = FALSE] = Named(seen \cup {key})
<1> DEFINE x == [Named(seen) EXCEPT !.expectKey = TRUE]
           y == [Scope(seen) EXCEPT !.seen = @ \cup {key}, !.expectKey = FALSE]
           z == Scope(seen)
           w == Named(seen \cup {key})
<1>1. x.seen = z.seen /\ x.expectKey = z.expectKey /\ x.object = z.object  BY DEF Named, Scope
<1>2. y.seen = w.seen /\ y.expectKey = w.expectKey /\ y.object = w.object  BY DEF Named, Scope
<1>3. DOMAIN x = {"seen", "expectKey", "object"} /\ DOMAIN y = {"seen", "expectKey", "object"}  BY DEF Named, Scope
<1>4. DOMAIN z = {"seen", "expectKey", "object"} /\ DOMAIN w = {"seen", "expectKey", "object"}  BY DEF Named, Scope
<1>5. x = [i \in DOMAIN x |-> x[i]] /\ y = [i \in DOMAIN y |-> y[i]]  BY DEF Named, Scope
<1>6. z = [i \in DOMAIN z |-> z[i]] /\ w = [i \in DOMAIN w |-> w[i]]  BY DEF Named, Scope
<1> HIDE DEF x, y, z, w
<1>7. x = z  BY <1>1, <1>3, <1>4, <1>5, <1>6
<1>8. y = w  BY <1>2, <1>3, <1>4, <1>5, <1>6
<1> QED  BY <1>7, <1>8 DEF x, y, z, w

(* A whole value leaves the scopes as they were, and the one it is in      *)
(* waiting for a key, unless a key is twice in a scope in it.              *)
LEMMA ValueWalk ==
  ASSUME NEW base \in Seq(Frame), NEW seen \in SUBSET STRING, NEW value, JSONValue(value)
  PROVE  LET st == walkTokens(Walked(Append(base, Named(seen))), value)
         IN /\ Broken(st) \/ st = Walked(Append(base, Scope(seen)))
            /\ Len(value) = 1 => st = Walked(Append(base, Scope(seen)))
<1> DEFINE n == Len(value)
           stack == Append(base, Named(seen))
           low == Append(base, Scope(seen))
           m == Len(base) + 1
<1>1. /\ value \in Seq(STRING) /\ n \in Nat /\ n > 0 /\ Depth(value, n) = 0 /\ \A k \in 1..(n - 1) : Depth(value, k) > 0
      /\ \A k \in 1..n : value[k] \in STRING /\ value[k] # Junk
  <2>1. value \in Seq(STRING)  BY DEF JSONValue
  <2>2. DOMAIN value = 1..n /\ n \in Nat /\ \A k \in 1..n : value[k] \in STRING  BY <2>1, ElementOfSeq, LenProperties
  <2> QED  BY <2>1, <2>2 DEF JSONValue
<1>2. Named(seen) \in Frame /\ Scope(seen) \in Frame /\ [Named(seen) EXCEPT !.expectKey = TRUE] = Scope(seen)
  <2>1. Named(seen) \in Frame /\ Scope(seen) \in Frame  BY DEF Named, Scope, Frame
  <2>2. [Named(seen) EXCEPT !.expectKey = TRUE] = Scope(seen)  BY Waits
  <2> QED  BY <2>1, <2>2
<1>3. /\ stack \in Seq(Frame) /\ stack # <<>> /\ Last(stack) = Named(seen) /\ Front(stack) = base
      /\ low \in Seq(Frame) /\ Len(low) = m /\ Len(base) \in Nat
  BY <1>2, Top
<1>4. afterValue(stack) = low
  <2>1. Named(seen).object  BY DEF Named
  <2> QED  BY <1>2, <2>1, AfterValue
<1>5. ~Named(seen).expectKey  BY DEF Named
<1>6. PICK f : Walks(f, Walked(stack), value) /\ walkTokens(Walked(stack), value) = f[n]  BY <1>1, WalkSteps
<1>7. f[0] = Walked(stack) /\ \A k \in 1..n : f[k] = stepToken(f[k - 1], value[k])  BY <1>6 DEF Walks
<1>8. f[1] = stepToken(Walked(stack), value[1]) /\ value[1] \in STRING /\ value[1] # Junk
  <2>1. 1 \in 1..n /\ 1 - 1 = 0  BY <1>1
  <2> QED  BY <1>1, <1>7, <2>1
<1>9. Depth(value, 1) = Turn(value[1])
  <2>1. 1 - 1 = 0 /\ 1 \in Nat /\ 1 > 0  OBVIOUS
  <2>2. Depth(value, 1) = Depth(value, 0) + Turn(value[1])  BY <2>1, DepthStep
  <2>3. Turn(value[1]) \in Int  BY DEF Turn
  <2> QED  BY <2>2, <2>3, DepthZero
<1> HIDE DEF stack, low, n, m
<1>10. CASE n = 1
  <2>1. Turn(value[1]) = 0  BY <1>1, <1>9, <1>10
  <2>2. value[1] \notin Delims  BY <2>1 DEF Turn, Delims
  <2>3. f[1] = Walked(low)
    BY <1>3, <1>4, <1>5, <1>8, <2>2, Zenon DEF stepToken, Walked
  <2> QED  BY <1>6, <1>10, <2>3 DEF stack, low, n
<1>11. CASE n # 1
  <2> DEFINE On(st, k) == \E up : /\ st = Walked(up) /\ up \in Seq(Frame) /\ Len(up) = m + Depth(value, k)
                                  /\ \A j \in 1..m : up[j] = low[j]
             Bad == {k \in 1..n : ~(Broken(f[k]) \/ On(f[k], k))}
  <2>1. m \in Nat  BY <1>3 DEF m
  <2>2. On(f[1], 1)
    <3>1. 1 \in 1..(n - 1)  BY <1>1, <1>11
    <3>2. value[1] \in Openers /\ Turn(value[1]) = 1  BY <1>1, <1>9, <3>1 DEF Turn
    <3>3. PICK G \in Frame : stepDelim(stack, value[1]) = Append(low, G)
      <4>1. value[1] = "{" \/ value[1] = "["  BY <3>2 DEF Openers
      <4>2. objectFrame \in Frame /\ Array \in Frame  BY DEF objectFrame, Array, Frame
      <4>3. CASE value[1] = "{"  BY <1>4, <4>2, <4>3 DEF stepDelim
      <4>4. CASE value[1] = "["  BY <1>4, <4>2, <4>4, Delimiters DEF stepDelim
      <4> QED  BY <4>1, <4>3, <4>4
    <3>4. f[1] = Walked(Append(low, G))
      <4>1. value[1] \in Delims  BY <3>2 DEF Delims
      <4> QED  BY <1>8, <3>3, <4>1, Zenon DEF stepToken, Walked
    <3>5. Append(low, G) \in Seq(Frame) /\ Len(Append(low, G)) = m + 1 /\ \A j \in 1..m : Append(low, G)[j] = low[j]
      BY <1>3, Top
    <3> QED  BY <1>9, <3>2, <3>4, <3>5
  <2>3. ASSUME NEW k \in 2..n, On(f[k - 1], k - 1) PROVE Broken(f[k]) \/ On(f[k], k)
    <3>1. PICK up : /\ f[k - 1] = Walked(up) /\ up \in Seq(Frame) /\ Len(up) = m + Depth(value, k - 1)
                    /\ \A j \in 1..m : up[j] = low[j]
      BY <2>3
    <3>2. k \in 1..n /\ k - 1 \in 1..(n - 1) /\ k \in Nat /\ k > 0  BY <1>1
    <3>3. /\ Depth(value, k) = Depth(value, k - 1) + Turn(value[k]) /\ Depth(value, k - 1) > 0
          /\ Depth(value, k - 1) \in Int /\ Turn(value[k]) \in Int
      <4>1. Turn(value[k]) \in Int  BY DEF Turn
      <4> QED  BY <1>1, <3>2, <4>1, DepthStep
    <3>4. up # <<>> /\ Len(up) > m  BY <2>1, <3>1, <3>3, EmptySeq
    <3>5. f[k] = stepToken(Walked(up), value[k]) /\ value[k] \in STRING /\ value[k] # Junk  BY <1>1, <1>7, <3>1, <3>2
    <3>6. CASE Broken(stepToken(Walked(up), value[k]))  BY <3>5, <3>6
    <3>7. CASE \E top : stepToken(Walked(up), value[k]) = Walked(top) /\ Above(top, up, value[k])
      <4>1. PICK top : stepToken(Walked(up), value[k]) = Walked(top) /\ Above(top, up, value[k])  BY <3>7
      <4>2. \A j \in 1..m : j \in 1..(Len(up) - 1)  BY <2>1, <3>4, <3>1
      <4>3. top \in Seq(Frame) /\ Len(top) = m + Depth(value, k) /\ \A j \in 1..m : top[j] = low[j]
        BY <2>1, <3>1, <3>3, <4>1, <4>2 DEF Above
      <4> QED  BY <3>5, <4>1, <4>3
    <3> QED  BY <3>1, <3>4, <3>5, <3>6, <3>7, StackStep
  <2>4. Bad = {}
    <3> SUFFICES ASSUME Bad # {} PROVE FALSE  OBVIOUS
    <3> HIDE DEF On
    <3>1. PICK k \in Bad : \A j \in Bad : k <= j  BY <1>1, FirstPlace
    <3>2. k \in 1..n /\ k # 1 /\ ~(Broken(f[k]) \/ On(f[k], k))  BY <2>2, <3>1
    <3>3. k \in 2..n /\ k - 1 \in 1..n /\ ~(k <= k - 1)  BY <1>1, <3>2
    <3>4. Broken(f[k - 1]) \/ On(f[k - 1], k - 1)  BY <3>1, <3>3
    <3>5. ~Broken(f[k - 1])
      <4>1. Broken(f[k - 1]) => f[k] = f[k - 1]  BY <1>7, <3>2, StaysBroken
      <4> QED  BY <3>2, <4>1
    <3> QED  BY <2>3, <3>2, <3>3, <3>4, <3>5
  <2>5. Broken(f[n]) \/ On(f[n], n)
    <3> HIDE DEF On
    <3> QED  BY <1>1, <2>4
  <2>6. On(f[n], n) => f[n] = Walked(low)
    <3> SUFFICES ASSUME On(f[n], n) PROVE f[n] = Walked(low)  OBVIOUS
    <3>1. PICK up : /\ f[n] = Walked(up) /\ up \in Seq(Frame) /\ Len(up) = m + Depth(value, n) /\ \A j \in 1..m : up[j] = low[j]
      OBVIOUS
    <3>2. Len(up) = Len(low) /\ \A j \in 1..Len(up) : up[j] = low[j]  BY <1>1, <1>3, <2>1, <3>1
    <3>3. up = low  BY <1>3, <3>1, <3>2, SeqEqual
    <3> QED  BY <3>1, <3>3
  <2> QED  BY <1>6, <1>11, <2>5, <2>6 DEF stack, low, n
<1> QED  BY <1>10, <1>11

(* A key that is in the scope already, in any case, breaks the walk. *)
LEMMA KeyWalk ==
  ASSUME NEW base \in Seq(Frame), NEW seen \in SUBSET STRING, NEW key \in Names
  PROVE  LET st == stepToken(Walked(Append(base, Scope(seen))), key)
             known == ToLower(key) \in {ToLower(k) : k \in seen}
         IN (known => Broken(st)) /\ (~known => st = Walked(Append(base, Named(seen \cup {key}))))
<1> DEFINE stack == Append(base, Scope(seen))
<1>1. Scope(seen) \in Frame /\ Scope(seen).expectKey /\ [Scope(seen) EXCEPT !.seen = @ \cup {key}, !.expectKey = FALSE] = Named(seen \cup {key})
  <2>1. Scope(seen) \in Frame /\ Scope(seen).expectKey  BY DEF Scope, Frame
  <2>2. [Scope(seen) EXCEPT !.seen = @ \cup {key}, !.expectKey = FALSE] = Named(seen \cup {key})  BY Waits
  <2> QED  BY <2>1, <2>2
<1>2. stack # <<>> /\ Last(stack) = Scope(seen) /\ Front(stack) = base  BY <1>1, Top
<1>3. key \notin Delims /\ key # Junk  BY Delimiters
<1>4. duplicate(Scope(seen), key) <=> ToLower(key) \in {ToLower(k) : k \in seen}  BY DEF duplicate, Scope
<1> HIDE DEF stack
<1>5. stepToken(Walked(stack), key) = stepKey(Walked(stack), key)
  BY <1>1, <1>2, <1>3, Zenon DEF stepToken, Walked
<1>6. CASE duplicate(Scope(seen), key)
  <2>1. stepKey(Walked(stack), key) = [stack |-> stack, failed |-> TRUE]
    BY <1>2, <1>6, Zenon DEF stepKey, Walked
  <2> QED  BY <1>4, <1>5, <1>6, <2>1 DEF Broken, stack
<1>7. CASE ~duplicate(Scope(seen), key)
  <2>1. stepKey(Walked(stack), key) = Walked(Append(base, Named(seen \cup {key})))
    BY <1>1, <1>2, <1>7, Zenon DEF stepKey, Walked
  <2> QED  BY <1>4, <1>5, <1>7, <2>1 DEF stack
<1> QED  BY <1>6, <1>7

-----------------------------------------------------------------------------
(* The members of an object, one after the other. *)
Written(ms) == ms \in Seq(Range(ms)) /\ \A i \in 1..Len(ms) : ms[i].key \in Names /\ ms[i].value \in Seq(Token)
Keys(ms, n) == {ms[j].key : j \in 1..n}
LowerOnce(ms, n) == \A j, k \in 1..n : ToLower(ms[j].key) = ToLower(ms[k].key) => j = k

(* The text of members is that of one after the other.                     *)
LEMMA MembersText ==
  ASSUME NEW ms, Written(ms)
  PROVE  \E p : /\ \A i \in 0..Len(ms) : p[i] \in Seq(Token)
                /\ p[0] = <<>> /\ \A i \in 1..Len(ms) : p[i] = p[i - 1] \o (<<ms[i].key>> \o ms[i].value)
                /\ Members(ms) = p[Len(ms)]
<1> DEFINE n == Len(ms)
           T == Seq(Token)
           chunk == [i \in DOMAIN ms |-> <<ms[i].key>> \o ms[i].value]
<1>1. n \in Nat /\ DOMAIN ms = 1..n  BY LenProperties DEF Written
<1>2. ASSUME NEW i \in 1..n PROVE <<ms[i].key>> \o ms[i].value \in T
  <2>1. PICK one : one = <<ms[i].key>>  OBVIOUS
  <2>2. ms[i].key \in Token /\ ms[i].value \in Seq(Token)  BY Delimiters DEF Written
  <2>3. one \in Seq(Token)  BY <2>1, <2>2
  <2>4. one \o ms[i].value \in T  BY <2>2, <2>3, ConcatProperties
  <2> QED  BY <2>1, <2>4
<1> HIDE DEF n, T
<1>3. chunk \in [1..n -> T]  BY <1>1, <1>2
<1>4. chunk \in Seq(T) /\ Len(chunk) = n
  <2>1. chunk \in Seq(T)  BY <1>1, <1>3, FunctionIsSeq
  <2>2. DOMAIN chunk = 1..n  BY <1>3
  <2> HIDE DEF chunk
  <2>3. DOMAIN chunk = 1..Len(chunk) /\ Len(chunk) \in Nat  BY <2>1, LenProperties
  <2> QED  BY <1>1, <2>1, <2>2, <2>3
<1>5. \A i \in 1..n : chunk[i] = <<ms[i].key>> \o ms[i].value  BY <1>1
<1>6. Members(ms) = FlattenSeq(chunk)  BY Zenon DEF Members
<1> HIDE DEF chunk
<1>7. PICK p \in [0..n -> T] : /\ p[0] = <<>> /\ \A i \in 1..n : p[i] = p[i - 1] \o chunk[i]
                               /\ FlattenSeq(chunk) = p[n]
  BY <1>4, FlattenSteps DEF T
<1>8. \A i \in 0..n : p[i] \in T  BY <1>7
<1> QED  BY <1>5, <1>6, <1>7, <1>8 DEF n, T

(* The walk over members goes one key and one value at a time.             *)
LEMMA MembersWalk ==
  ASSUME NEW ms, Written(ms), NEW st
  PROVE  \E w : /\ w[0] = st
                /\ \A i \in 1..Len(ms) : w[i] = walkTokens(stepToken(w[i - 1], ms[i].key), ms[i].value)
                /\ walkTokens(st, Members(ms)) = w[Len(ms)]
<1> DEFINE n == Len(ms)
<1>1. n \in Nat  BY LenProperties DEF Written
<1>2. PICK p : /\ \A i \in 0..n : p[i] \in Seq(Token)
               /\ p[0] = <<>> /\ \A i \in 1..n : p[i] = p[i - 1] \o (<<ms[i].key>> \o ms[i].value)
               /\ Members(ms) = p[n]
  BY MembersText
<1> HIDE DEF n
<1> DEFINE w == [i \in 0..n |-> walkTokens(st, p[i])]
<1>3. w[0] = st
  <2>1. w[0] = walkTokens(st, <<>>)  BY <1>1, <1>2
  <2> QED  BY <2>1, WalkNothing
<1>4. ASSUME NEW i \in 1..n PROVE w[i] = walkTokens(stepToken(w[i - 1], ms[i].key), ms[i].value)
  <2>1. i \in 0..n /\ i - 1 \in 0..n  BY <1>1
  <2>2. PICK one : one = <<ms[i].key>>  OBVIOUS
  <2>3. ms[i].key \in Token /\ ms[i].value \in Seq(Token)  BY Delimiters DEF Written, n
  <2>4. one \in Seq(Token)  BY <2>2, <2>3
  <2>5. one \o ms[i].value \in Seq(Token)  BY <2>3, <2>4, ConcatProperties
  <2>6. p[i - 1] \in Seq(Token) /\ p[i] = p[i - 1] \o (one \o ms[i].value)  BY <1>2, <2>1, <2>2
  <2>7. walkTokens(st, p[i]) = walkTokens(walkTokens(st, p[i - 1]), one \o ms[i].value)
    <3>1. PICK pre \in Seq(Token), chunk \in Seq(Token) : pre = p[i - 1] /\ chunk = one \o ms[i].value  BY <2>5, <2>6
    <3>2. walkTokens(st, pre \o chunk) = walkTokens(walkTokens(st, pre), chunk)  BY WalkConcat
    <3> QED  BY <2>6, <3>1, <3>2
  <2>8. walkTokens(w[i - 1], one \o ms[i].value) = walkTokens(walkTokens(w[i - 1], one), ms[i].value)
    BY <2>3, <2>4, WalkConcat
  <2>9. walkTokens(w[i - 1], one) = stepToken(w[i - 1], ms[i].key)  BY <2>2, WalkOne
  <2> QED  BY <2>1, <2>7, <2>8, <2>9
<1>5. walkTokens(st, Members(ms)) = w[n]  BY <1>1, <1>2
<1> HIDE DEF w
<1> QED  BY <1>3, <1>4, <1>5 DEF n

(* The walk of an object whose values leave its scope as it was: it breaks *)
(* or has met every key once.                                              *)
LEMMA ScopeWalk ==
  ASSUME NEW base \in Seq(Frame), NEW ms, Written(ms),
         \A i \in 1..Len(ms) : \A seen \in SUBSET STRING :
           \/ Broken(walkTokens(Walked(Append(base, Named(seen))), ms[i].value))
           \/ walkTokens(Walked(Append(base, Named(seen))), ms[i].value) = Walked(Append(base, Scope(seen)))
  PROVE  LET st == walkTokens(Walked(Append(base, Scope({}))), Members(ms))
             end == Walked(Append(base, Scope(Keys(ms, Len(ms)))))
             Passed(i, seen) == walkTokens(Walked(Append(base, Named(seen))), ms[i].value) = Walked(Append(base, Scope(seen)))
         IN /\ \/ Broken(st)
               \/ st = end /\ LowerOnce(ms, Len(ms)) /\ \A i \in 1..Len(ms) : \E seen \in SUBSET STRING : Passed(i, seen)
            /\ LowerOnce(ms, Len(ms)) /\ (\A i \in 1..Len(ms) : \A seen \in SUBSET STRING : Passed(i, seen)) => st = end
<1> DEFINE n == Len(ms)
           Passed(i, seen) == walkTokens(Walked(Append(base, Named(seen))), ms[i].value) = Walked(Append(base, Scope(seen)))
           Easy == LowerOnce(ms, n) /\ \A i \in 1..n : \A seen \in SUBSET STRING : Passed(i, seen)
           So(i) == Walked(Append(base, Scope(Keys(ms, i))))
           Met(i) == LowerOnce(ms, i) /\ \A j \in 1..i : \E seen \in SUBSET STRING : Passed(j, seen)
<1>1. n \in Nat /\ \A i \in 1..n : ms[i].key \in Names /\ ms[i].value \in Seq(Token)  BY LenProperties DEF Written
<1>2. PICK w : /\ w[0] = Walked(Append(base, Scope({})))
               /\ \A i \in 1..n : w[i] = walkTokens(stepToken(w[i - 1], ms[i].key), ms[i].value)
               /\ walkTokens(Walked(Append(base, Scope({}))), Members(ms)) = w[n]
  BY MembersWalk
<1>3. \A i \in 1..n : \A seen \in SUBSET STRING : Broken(walkTokens(Walked(Append(base, Named(seen))), ms[i].value)) \/ Passed(i, seen)
  OBVIOUS
<1> HIDE DEF n, Passed
<1> DEFINE Good(i) == (Broken(w[i]) \/ (w[i] = So(i) /\ Met(i))) /\ (Easy => w[i] = So(i))
           Bad == {i \in 1..n : ~Good(i)}
<1>4. Good(0)
  <2>1. 1..0 = {} /\ Keys(ms, 0) = {}  BY DEF Keys
  <2>2. LowerOnce(ms, 0)  BY <2>1 DEF LowerOnce
  <2> QED  BY <1>2, <2>1, <2>2
<1>5. ASSUME NEW i \in 1..n, Good(i - 1) PROVE Good(i)
  <2> DEFINE key == ms[i].key
             seen == Keys(ms, i - 1)
             st == stepToken(w[i - 1], key)
  <2>1. key \in Names /\ ms[i].value \in Seq(Token) /\ w[i] = walkTokens(st, ms[i].value)  BY <1>1, <1>2
  <2>2. i \in Nat /\ i > 0 /\ i - 1 \in Nat /\ 1..i = (1..(i - 1)) \cup {i} /\ i \notin 1..(i - 1) /\ i <= n /\ 1..i \subseteq 1..n  BY <1>1
  <2>3. Keys(ms, i) = seen \cup {key}  BY <2>2 DEF Keys
  <2>4. seen \in SUBSET STRING /\ seen \cup {key} \in SUBSET STRING
    <3>1. \A j \in 1..i : ms[j].key \in STRING  BY <1>1, <2>2, Delimiters
    <3> QED  BY <2>2, <3>1 DEF Keys
  <2>5. {ToLower(k) : k \in seen} = {ToLower(ms[j].key) : j \in 1..(i - 1)}  BY DEF Keys
  <2>6. LowerOnce(ms, i) <=> LowerOnce(ms, i - 1) /\ ToLower(key) \notin {ToLower(k) : k \in seen}
    <3> HIDE DEF seen
    <3> QED  BY <2>2, <2>5 DEF LowerOnce
  <2> HIDE DEF seen
  <2>7. CASE Broken(w[i - 1])
    <3>1. st = w[i - 1]  BY <2>7, StaysBroken
    <3>2. Broken(w[i])
      <4>1. PICK stack : st = [stack |-> stack, failed |-> TRUE]  BY <2>7, <3>1 DEF Broken
      <4> QED  BY <2>1, <4>1, WalkStaysFailed DEF Broken
    <3>3. ~Easy
      <4>1. \A s : ~Broken(Walked(s))  BY DEF Broken, Walked
      <4> QED  BY <1>5, <2>7, <4>1
    <3> QED  BY <3>2, <3>3
  <2>8. CASE w[i - 1] = So(i - 1) /\ Met(i - 1)
    <3>1. w[i - 1] = Walked(Append(base, Scope(seen)))  BY <2>8 DEF seen
    <3>2. CASE ToLower(key) \in {ToLower(k) : k \in seen}
      <4>1. Broken(st)  BY <2>1, <2>4, <3>1, <3>2, KeyWalk
      <4>2. Broken(w[i])
        <5>1. PICK stack : st = [stack |-> stack, failed |-> TRUE]  BY <4>1 DEF Broken
        <5> QED  BY <2>1, <5>1, WalkStaysFailed DEF Broken
      <4>3. ~LowerOnce(ms, i)  BY <2>6, <3>2
      <4>4. ~Easy  BY <2>2, <4>3 DEF LowerOnce
      <4> QED  BY <4>2, <4>4
    <3>3. CASE ToLower(key) \notin {ToLower(k) : k \in seen}
      <4>1. st = Walked(Append(base, Named(seen \cup {key})))
        <5>1. \A k \in Names : ToLower(k) \notin {ToLower(j) : j \in seen} =>
                stepToken(Walked(Append(base, Scope(seen))), k) = Walked(Append(base, Named(seen \cup {k})))
          BY <2>4, KeyWalk
        <5> QED  BY <2>1, <3>1, <3>3, <5>1
      <4>2. Passed(i, seen \cup {key}) => w[i] = So(i)  BY <2>1, <2>3, <4>1 DEF Passed
      <4>3. Broken(w[i]) \/ Passed(i, seen \cup {key})  BY <1>3, <2>1, <2>4, <4>1
      <4>4. LowerOnce(ms, i)  BY <2>6, <2>8, <3>3
      <4>5. Passed(i, seen \cup {key}) => Met(i)  BY <2>2, <2>4, <2>8, <4>4
      <4>6. Easy => Passed(i, seen \cup {key})  BY <2>4
      <4> QED  BY <4>2, <4>3, <4>5, <4>6
    <3> QED  BY <3>2, <3>3
  <2> QED  BY <1>5, <2>7, <2>8
<1>6. Bad = {}
  <2> SUFFICES ASSUME Bad # {} PROVE FALSE  OBVIOUS
  <2> HIDE DEF Good
  <2>1. PICK i \in Bad : \A j \in Bad : i <= j  BY <1>1, FirstPlace
  <2>2. i \in 1..n /\ ~Good(i)  OBVIOUS
  <2>3. i - 1 = 0 \/ (i - 1 \in 1..n /\ ~(i <= i - 1))  BY <1>1, <2>2
  <2>4. Good(i - 1)  BY <1>4, <2>1, <2>3
  <2> QED  BY <1>5, <2>2, <2>4
<1>7. Good(n)
  <2> HIDE DEF Good
  <2> QED  BY <1>1, <1>4, <1>6
<1> QED  BY <1>2, <1>7 DEF n, Passed

(* An object in a scope, as its fields are written. *)
WithFields(fields) ==
  fields \in Seq(Range(fields)) /\ \A f \in Range(fields) : f.key \in Names /\ JSONValue(f.value)

(* Fields are members whose values are JSON.                               *)
LEMMA FieldsAreWritten ==
  ASSUME NEW fields, WithFields(fields)
  PROVE  Written(fields) /\ Len(fields) \in Nat /\ \A i \in 1..Len(fields) : fields[i] \in Range(fields) /\ JSONValue(fields[i].value)
<1>1. fields \in Seq(Range(fields)) /\ Len(fields) \in Nat  BY LenProperties DEF WithFields
<1>2. ASSUME NEW i \in 1..Len(fields)
      PROVE  fields[i] \in Range(fields) /\ fields[i].key \in Names /\ JSONValue(fields[i].value) /\ fields[i].value \in Seq(Token)
  <2>1. fields[i] \in Range(fields)  BY <1>1, ElementOfSeq
  <2>2. fields[i].key \in Names /\ JSONValue(fields[i].value)  BY <2>1 DEF WithFields
  <2>3. fields[i].value \in Seq(STRING)  BY <2>2 DEF JSONValue
  <2>4. STRING \subseteq Token  BY DEF Token
  <2>5. fields[i].value \in Seq(Token)  BY <2>3, <2>4, SeqMonotonic
  <2> QED  BY <2>1, <2>2, <2>5
<1> QED  BY <1>1, <1>2 DEF Written

(* A brace opens a scope; the one it is in waits for the next key.         *)
LEMMA Opened ==
  ASSUME NEW base \in Seq(Frame), NEW seen \in SUBSET STRING
  PROVE  /\ Append(base, Scope(seen)) \in Seq(Frame)
         /\ stepToken(Walked(Append(base, Named(seen))), "{") = Walked(Append(Append(base, Scope(seen)), Scope({})))
         /\ stepToken(Walked(<<>>), "{") = Walked(Append(<<>>, Scope({})))
<1>1. Named(seen) \in Frame /\ Scope(seen) \in Frame /\ Named(seen).object  BY DEF Named, Scope, Frame
<1>2. Append(base, Scope(seen)) \in Seq(Frame)  BY <1>1, Top
<1>3. afterValue(Append(base, Named(seen))) = Append(base, Scope(seen))  BY <1>1, AfterValue, Waits
<1>4. afterValue(<<>>) = <<>>  BY DEF afterValue
<1>5. objectFrame = Scope({})  BY Zenon DEF objectFrame, Scope
<1>6. stepDelim(Append(base, Named(seen)), "{") = Append(Append(base, Scope(seen)), Scope({}))
  BY <1>3, <1>5, Zenon DEF stepDelim
<1>7. stepDelim(<<>>, "{") = Append(<<>>, Scope({}))  BY <1>4, <1>5, Zenon DEF stepDelim
<1>8. "{" \in Delims /\ "{" # Junk  BY Delimiters
<1>9. \A stack : stepToken(Walked(stack), "{") = Walked(stepDelim(stack, "{"))  BY <1>8, Zenon DEF stepToken, Walked
<1> QED  BY <1>2, <1>6, <1>7, <1>9

(* A closing brace leaves the scope below.                                 *)
LEMMA Closed ==
  ASSUME NEW base \in Seq(Frame), NEW F \in Frame
  PROVE  stepToken(Walked(Append(base, F)), "}") = Walked(base)
<1>1. Front(Append(base, F)) = base  BY Top
<1>2. "}" \in Delims /\ "}" # Junk /\ "}" # "{" /\ "}" # "["  BY Delimiters
<1>3. stepDelim(Append(base, F), "}") = base  BY <1>1, <1>2 DEF stepDelim
<1> QED  BY <1>2, <1>3, Zenon DEF stepToken, Walked

(* Three texts in a row, of which the outer ones are a token each. *)
LEMMA WalkBetween ==
  ASSUME NEW text \in Seq(Token), NEW open \in Token, NEW close \in Token, NEW st
  PROVE  /\ <<open>> \o text \o <<close>> \in Seq(Token)
         /\ walkTokens(st, <<open>> \o text \o <<close>>) = stepToken(walkTokens(stepToken(st, open), text), close)
<1>1. PICK one, two : one = <<open>> /\ two = <<close>>  OBVIOUS
<1>2. one \in Seq(Token) /\ two \in Seq(Token)  BY <1>1
<1>3. PICK left : left = one \o text  OBVIOUS
<1>4. left \in Seq(Token) /\ left \o two \in Seq(Token)
  <2>1. left \in Seq(Token)  BY <1>2, <1>3, ConcatProperties
  <2> QED  BY <1>2, <2>1, ConcatProperties
<1>5. walkTokens(st, left \o two) = walkTokens(walkTokens(st, left), two)  BY <1>2, <1>4, WalkConcat
<1>6. walkTokens(st, left) = walkTokens(walkTokens(st, one), text)  BY <1>2, <1>3, WalkConcat
<1>7. walkTokens(st, one) = stepToken(st, open)  BY <1>1, WalkOne
<1>8. \A s : walkTokens(s, two) = stepToken(s, close)  BY <1>1, WalkOne
<1>9. walkTokens(st, left \o two) = stepToken(walkTokens(stepToken(st, open), text), close)  BY <1>5, <1>6, <1>7, <1>8
<1> QED  BY <1>1, <1>3, <1>4, <1>9

(* Members are written in tokens.                                          *)
LEMMA MembersInTokens ==
  ASSUME NEW ms, Written(ms)
  PROVE  Members(ms) \in Seq(Token)
<1>1. Len(ms) \in Nat  BY LenProperties DEF Written
<1>2. PICK p : (\A i \in 0..Len(ms) : p[i] \in Seq(Token)) /\ Members(ms) = p[Len(ms)]  BY MembersText
<1>3. Len(ms) \in 0..Len(ms)  BY <1>1
<1> QED  BY <1>2, <1>3

(* An object of fields is walked over when no two names are the same.      *)
LEMMA ObjectWalk ==
  ASSUME NEW base \in Seq(Frame), NEW seen \in SUBSET STRING, NEW fields, WithFields(fields)
  PROVE  LET st == walkTokens(Walked(Append(base, Named(seen))), <<"{">> \o Members(fields) \o <<"}">>)
             end == Walked(Append(base, Scope(seen)))
         IN /\ Broken(st) \/ (st = end /\ LowerOnce(fields, Len(fields)))
            /\ LowerOnce(fields, Len(fields)) /\ (\A i \in 1..Len(fields) : Len(fields[i].value) = 1) => st = end
<1> DEFINE n == Len(fields)
           low == Append(base, Scope(seen))
           text == Members(fields)
           inner == walkTokens(Walked(Append(low, Scope({}))), text)
<1>1. Written(fields) /\ n \in Nat /\ \A i \in 1..n : fields[i] \in Range(fields) /\ JSONValue(fields[i].value)
  BY FieldsAreWritten
<1>2. text \in Seq(Token) /\ "{" \in Token /\ "}" \in Token
  <2>1. "{" \in Token /\ "}" \in Token  BY Delimiters DEF Token
  <2> QED  BY <1>1, <2>1, MembersInTokens
<1>3. low \in Seq(Frame) /\ stepToken(Walked(Append(base, Named(seen))), "{") = Walked(Append(low, Scope({})))  BY Opened
<1>4. walkTokens(Walked(Append(base, Named(seen))), <<"{">> \o text \o <<"}">>) = stepToken(inner, "}")
  <2> HIDE DEF text, low
  <2>1. PICK open, close : open = "{" /\ close = "}"  OBVIOUS
  <2>2. text \in Seq(Token) /\ open \in Token /\ close \in Token  BY <1>2, <2>1
  <2>3. ASSUME NEW st PROVE walkTokens(st, <<open>> \o text \o <<close>>) = stepToken(walkTokens(stepToken(st, open), text), close)
    BY <2>2, WalkBetween
  <2>4. stepToken(Walked(Append(base, Named(seen))), open) = Walked(Append(low, Scope({})))  BY <1>3, <2>1
  <2> QED  BY <2>1, <2>3, <2>4
<1> DEFINE Passed(i, s) == walkTokens(Walked(Append(low, Named(s))), fields[i].value) = Walked(Append(low, Scope(s)))
<1>5. ASSUME NEW i \in 1..n, NEW s \in SUBSET STRING
      PROVE  /\ Broken(walkTokens(Walked(Append(low, Named(s))), fields[i].value)) \/ Passed(i, s)
             /\ Len(fields[i].value) = 1 => Passed(i, s)
  <2> HIDE DEF low
  <2> QED  BY <1>1, <1>3, ValueWalk
<1>6. /\ Broken(inner) \/ (inner = Walked(Append(low, Scope(Keys(fields, n)))) /\ LowerOnce(fields, n))
      /\ LowerOnce(fields, n) /\ (\A i \in 1..n : \A s \in SUBSET STRING : Passed(i, s)) => inner = Walked(Append(low, Scope(Keys(fields, n))))
  <2> HIDE DEF low, text
  <2>1. \A i \in 1..n : \A s \in SUBSET STRING :
          Broken(walkTokens(Walked(Append(low, Named(s))), fields[i].value)) \/ Passed(i, s)
    BY <1>5
  <2> QED  BY <1>1, <1>3, <2>1, ScopeWalk DEF text
<1>7. Scope(Keys(fields, n)) \in Frame
  <2>1. \A i \in 1..n : fields[i].key \in STRING  BY <1>1, Delimiters DEF Written
  <2> QED  BY <2>1 DEF Scope, Frame, Keys
<1>8. stepToken(Walked(Append(low, Scope(Keys(fields, n)))), "}") = Walked(low)
  <2> HIDE DEF low
  <2> QED  BY <1>3, <1>7, Closed
<1>9. Broken(inner) => Broken(stepToken(inner, "}"))  BY StaysBroken
<1> HIDE DEF inner, text, n
<1> QED  BY <1>4, <1>5, <1>6, <1>8, <1>9 DEF text, n

(* The members of an answer, as Text writes them. *)
ToldValue(m) == IF m.fields = <<>> THEN m.value ELSE <<"{">> \o Members(m.fields) \o <<"}">>
Told(ms) == [i \in DOMAIN ms |-> [key |-> ms[i].key, value |-> ToldValue(ms[i])]]
AsMember(m) ==
  /\ m.key \in Names /\ m.fields \in Seq(Range(m.fields))
  /\ IF m.fields = <<>> THEN FlatValue(m.value) ELSE WithFields(m.fields)
AsMembers(ms) == ms \in Seq(Range(ms)) /\ \A m \in Range(ms) : AsMember(m)

LEMMA AnswerParts ==
  ASSUME NEW a, WellWritten(a)
  PROVE  /\ Text(a) = a.before \o <<"{">> \o Members(Told(a.members)) \o a.after
         /\ AsMembers(a.members)
         /\ a.before \in Seq(Token) /\ (a.before # <<>> => a.before[1] # "{")
         /\ a.after \in Seq(Token) /\ (a.after # <<>> => a.after[1] = "}" \/ a.after[1] = Junk)
<1>1. Text(a) = a.before \o <<"{">> \o Members(Told(a.members)) \o a.after  BY Zenon DEF Text, Told, ToldValue
<1>2. STRING \subseteq Token  BY DEF Token
<1>3. a.before \in Seq(STRING) /\ a.after \in Seq(STRING)  BY DEF WellWritten
<1>4. a.before \in Seq(Token) /\ a.after \in Seq(Token)  BY <1>2, <1>3, SeqMonotonic
<1>5. ASSUME NEW m \in Range(a.members) PROVE AsMember(m)
  <2>1. /\ m.key \in Names /\ m.fields \in Seq(Range(m.fields))
        /\ IF m.fields = <<>> THEN FlatValue(m.value)
           ELSE \A f \in Range(m.fields) : f.key \in Names /\ JSONValue(f.value)
    BY <1>5 DEF WellWritten
  <2> QED  BY <2>1 DEF AsMember, WithFields
<1>6. a.members \in Seq(Range(a.members))  BY DEF WellWritten
<1>7. AsMembers(a.members)  BY <1>5, <1>6 DEF AsMembers
<1>8. (a.before # <<>> => a.before[1] # "{") /\ (a.after # <<>> => a.after[1] \in {"}", Junk})  BY DEF WellWritten
<1> QED  BY <1>1, <1>4, <1>7, <1>8

(* The value of a member is written in tokens.                             *)
LEMMA ToldInTokens ==
  ASSUME NEW m, AsMember(m)
  PROVE  ToldValue(m) \in Seq(Token)
<1>1. CASE m.fields = <<>>
  <2>1. m.value \in Seq(STRING)  BY <1>1 DEF AsMember, FlatValue
  <2>2. STRING \subseteq Token  BY DEF Token
  <2>3. m.value \in Seq(Token)  BY <2>1, <2>2, SeqMonotonic
  <2> QED  BY <1>1, <2>3 DEF ToldValue
<1>2. CASE m.fields # <<>>
  <2>1. WithFields(m.fields)  BY <1>2 DEF AsMember
  <2>2. Members(m.fields) \in Seq(Token)  BY <2>1, FieldsAreWritten, MembersInTokens
  <2>3. "{" \in Token /\ "}" \in Token  BY Delimiters DEF Token
  <2>4. <<"{">> \o Members(m.fields) \o <<"}">> \in Seq(Token)  BY <2>2, <2>3, WalkBetween
  <2> QED  BY <1>2, <2>4, Zenon DEF ToldValue
<1> QED  BY <1>1, <1>2

(* What is told of the members is written as members are.                  *)
LEMMA ToldWritten ==
  ASSUME NEW ms, AsMembers(ms)
  PROVE  /\ Written(Told(ms)) /\ Len(Told(ms)) = Len(ms) /\ Len(ms) \in Nat
         /\ \A i \in 1..Len(ms) : /\ ms[i] \in Range(ms) /\ AsMember(ms[i])
                                  /\ Told(ms)[i].key = ms[i].key /\ Told(ms)[i].value = ToldValue(ms[i])
<1> DEFINE n == Len(ms)
           u == Told(ms)
<1>1. ms \in Seq(Range(ms)) /\ n \in Nat /\ DOMAIN ms = 1..n  BY LenProperties DEF AsMembers
<1>2. \A i \in 1..n : ms[i] \in Range(ms) /\ AsMember(ms[i])  BY <1>1, ElementOfSeq DEF AsMembers
<1>3. DOMAIN u = 1..n /\ u = [i \in DOMAIN u |-> u[i]]  BY <1>1 DEF Told
<1>4. \A i \in 1..n : u[i].key = ms[i].key /\ u[i].value = ToldValue(ms[i])  BY <1>1 DEF Told
<1>5. \A i \in 1..n : ms[i].key \in Names /\ ToldValue(ms[i]) \in Seq(Token)  BY <1>2, ToldInTokens DEF AsMember
<1> HIDE DEF u, n
<1>6. u \in Seq(Range(u)) /\ Len(u) = n
  <2>1. u \in [1..n -> Range(u)]  BY <1>3 DEF Range
  <2>2. u \in Seq(Range(u))  BY <1>1, <2>1, FunctionIsSeq
  <2>3. DOMAIN u = 1..Len(u) /\ Len(u) \in Nat  BY <2>2, LenProperties
  <2> QED  BY <1>1, <1>3, <2>2, <2>3
<1>7. Written(u)  BY <1>4, <1>5, <1>6 DEF Written
<1> QED  BY <1>1, <1>2, <1>4, <1>6, <1>7 DEF u, n

(* A value that is one name.                                               *)
LEMMA OneName ==
  ASSUME NEW value \in Seq(STRING), Len(value) = 1, value[1] \in Names
  PROVE  JSONValue(value)
<1>1. DOMAIN value = 1..1  BY LenProperties
<1>2. value[1] # Junk /\ Turn(value[1]) = 0  BY Delimiters DEF Turn
<1>3. Depth(value, 1) = 0
  <2>1. 1 \in Nat /\ 1 > 0 /\ 1 - 1 = 0  OBVIOUS
  <2>2. Depth(value, 1) = Depth(value, 0) + Turn(value[1])  BY <2>1, DepthStep
  <2> QED  BY <1>2, <2>2, DepthZero
<1>4. \A k \in DOMAIN value : value[k] # Junk  BY <1>1, <1>2
<1>5. 1..(1 - 1) = {}  OBVIOUS
<1> QED  BY <1>3, <1>4, <1>5 DEF JSONValue

(* Two tokens one after the other are a text of two.                       *)
LEMMA TwoTokens ==
  ASSUME NEW x, NEW y
  PROVE  <<x>> \o <<y>> = <<x, y>> /\ Len(<<x, y>>) = 2
<1> DEFINE s == <<x>> \o <<y>>
           t == <<x, y>>
<1>1. s \in Seq({x, y}) /\ Len(s) = 2 /\ s[1] = x /\ s[2] = y  OBVIOUS
<1>2. t \in Seq({x, y}) /\ Len(t) = 2 /\ t[1] = x /\ t[2] = y  OBVIOUS
<1> HIDE DEF s, t
<1>3. \A i \in 1..Len(s) : s[i] = t[i]  BY <1>1, <1>2
<1>4. s = t  BY <1>1, <1>2, <1>3, SeqEqual
<1> QED  BY <1>2, <1>4 DEF s, t

(* A value of a finding that reads as a map of fields. *)
AsMap(m) == m.fields # <<>> \/ m.value = <<"null">> \/ m.value = <<"{", "}">>
AllText(fields) == \A i \in 1..Len(fields) : Len(fields[i].value) = 1

(* The walk over the value of a member, be it null or an object.           *)
LEMMA MemberWalk ==
  ASSUME NEW base \in Seq(Frame), NEW seen \in SUBSET STRING, NEW m, AsMember(m), AsMap(m)
  PROVE  LET st == walkTokens(Walked(Append(base, Named(seen))), ToldValue(m))
             end == Walked(Append(base, Scope(seen)))
         IN /\ Broken(st) \/ (st = end /\ LowerOnce(m.fields, Len(m.fields)))
            /\ m.fields # <<>> /\ LowerOnce(m.fields, Len(m.fields)) /\ AllText(m.fields) => st = end
<1> DEFINE st == walkTokens(Walked(Append(base, Named(seen))), ToldValue(m))
           end == Walked(Append(base, Scope(seen)))
<1>1. CASE m.fields # <<>>
  <2>1. WithFields(m.fields)  BY <1>1 DEF AsMember
  <2>2. ToldValue(m) = <<"{">> \o Members(m.fields) \o <<"}">>  BY <1>1, Zenon DEF ToldValue
  <2> DEFINE text == <<"{">> \o Members(m.fields) \o <<"}">>
  <2>3. /\ Broken(walkTokens(Walked(Append(base, Named(seen))), text)) \/ (walkTokens(Walked(Append(base, Named(seen))), text) = end /\ LowerOnce(m.fields, Len(m.fields)))
        /\ LowerOnce(m.fields, Len(m.fields)) /\ AllText(m.fields) => walkTokens(Walked(Append(base, Named(seen))), text) = end
    BY <2>1, ObjectWalk DEF AllText
  <2> HIDE DEF text
  <2> QED  BY <2>2, <2>3 DEF text
<1>2. CASE m.fields = <<>>
  <2>1. ToldValue(m) = m.value /\ FlatValue(m.value)  BY <1>2 DEF ToldValue, AsMember
  <2>2. LowerOnce(m.fields, Len(m.fields))
    <3>1. Len(m.fields) = 0 /\ 1..0 = {}  BY <1>2
    <3> QED  BY <3>1 DEF LowerOnce
  <2>3. CASE m.value = <<"null">>
    <3>1. m.value \in Seq(STRING) /\ Len(m.value) = 1 /\ m.value[1] = "null"  BY <2>1, <2>3 DEF FlatValue
    <3>2. m.value # <<"{", "}">>
      <4>1. Len(<<"{", "}">>) = 2 /\ 1 # 2  BY TwoTokens
      <4> QED  BY <3>1, <4>1, Zenon
    <3>3. m.value[1] \in Names  BY <2>1, <3>1, <3>2 DEF FlatValue
    <3>4. st = end  BY <2>1, <3>1, <3>3, OneName, ValueWalk
    <3> QED  BY <1>2, <2>2, <3>4
  <2>4. CASE m.value = <<"{", "}">>
    <3>1. PICK open \in Token, close \in Token : open = "{" /\ close = "}"
      <4>1. "{" \in Token /\ "}" \in Token  BY Delimiters DEF Token
      <4> QED  BY <4>1
    <3>2. PICK one, two : one = <<open>> /\ two = <<close>>  OBVIOUS
    <3>3. one \in Seq(Token) /\ two \in Seq(Token) /\ one \o two = <<open, close>>  BY <3>2, TwoTokens
    <3>4. ToldValue(m) = one \o two  BY <2>1, <2>4, <3>1, <3>3, Zenon
    <3>5. \A s : walkTokens(s, one \o two) = walkTokens(walkTokens(s, one), two)  BY <3>3, WalkConcat
    <3>6. \A s : walkTokens(s, one) = stepToken(s, open) /\ walkTokens(s, two) = stepToken(s, close)  BY <3>2, WalkOne
    <3>7. Scope({}) \in Frame  BY DEF Scope, Frame
    <3>8. stepToken(Walked(Append(Append(base, Scope(seen)), Scope({}))), close) = end
      <4>1. Append(base, Scope(seen)) \in Seq(Frame)  BY Opened
      <4> QED  BY <3>1, <3>7, <4>1, Closed
    <3>10. stepToken(Walked(Append(base, Named(seen))), open) = Walked(Append(Append(base, Scope(seen)), Scope({})))
      BY <3>1, Opened
    <3> HIDE DEF end
    <3>9. st = end  BY <3>4, <3>5, <3>6, <3>8, <3>10
    <3> QED  BY <1>2, <2>2, <3>9 DEF end
  <2> QED  BY <1>2, <2>3, <2>4 DEF AsMap
<1> QED  BY <1>1, <1>2

(* The answer that is one object of findings: the walk fails, or no scope  *)
(* of it has a key twice.                                                  *)
LEMMA AnswerWalk ==
  ASSUME NEW ms, AsMembers(ms), \A i \in 1..Len(ms) : AsMap(ms[i])
  PROVE  LET text == <<"{">> \o Members(Told(ms)) \o <<"}">>
         IN /\ ensureNoDuplicateKeys(text) => \A i \in 1..Len(ms) : LowerOnce(ms[i].fields, Len(ms[i].fields))
            /\ LowerOnce(ms, Len(ms)) /\ (\A i \in 1..Len(ms) : ms[i].fields # <<>> /\ LowerOnce(ms[i].fields, Len(ms[i].fields)) /\ AllText(ms[i].fields))
                 => ensureNoDuplicateKeys(text)
<1>0. PICK base \in Seq(Frame) : base = <<>>  BY EmptySeq
<1> DEFINE n == Len(ms)
           u == Told(ms)
           text == Members(u)
           inner == walkTokens(Walked(Append(base, Scope({}))), text)
           Passed(i, s) == walkTokens(Walked(Append(base, Named(s))), u[i].value) = Walked(Append(base, Scope(s)))
           Once(i) == LowerOnce(ms[i].fields, Len(ms[i].fields))
           Easy(i) == ms[i].fields # <<>> /\ Once(i) /\ AllText(ms[i].fields)
<1>1. /\ Written(u) /\ Len(u) = n /\ n \in Nat
      /\ \A i \in 1..n : AsMember(ms[i]) /\ AsMap(ms[i]) /\ u[i].key = ms[i].key /\ u[i].value = ToldValue(ms[i])
  BY ToldWritten
<1>2. "{" \in Token /\ "}" \in Token
  <2>1. "{" \in Token /\ "}" \in Token  BY Delimiters DEF Token
  <2> QED  BY <2>1
<1>3. text \in Seq(Token)  BY <1>1, MembersInTokens
<1>4. walkTokens(NoScope, <<"{">> \o text \o <<"}">>) = stepToken(inner, "}")
  <2>1. NoScope = Walked(base)  BY <1>0 DEF NoScope, Walked
  <2>2. {} \in SUBSET STRING  OBVIOUS
  <2> HIDE DEF text
  <2>3. PICK open, close : open = "{" /\ close = "}"  OBVIOUS
  <2>4. open \in Token /\ close \in Token  BY <1>2, <2>3
  <2>5. stepToken(NoScope, open) = Walked(Append(base, Scope({})))  BY <1>0, <2>1, <2>2, <2>3, Opened
  <2>6. ASSUME NEW st PROVE walkTokens(st, <<open>> \o text \o <<close>>) = stepToken(walkTokens(stepToken(st, open), text), close)
    BY <1>3, <2>4, WalkBetween
  <2> QED  BY <2>3, <2>5, <2>6
<1>5. ASSUME NEW i \in 1..n, NEW s \in SUBSET STRING
      PROVE  /\ Broken(walkTokens(Walked(Append(base, Named(s))), u[i].value)) \/ (Passed(i, s) /\ Once(i))
             /\ Easy(i) => Passed(i, s)
  BY <1>1, <1>2, MemberWalk
<1>6. /\ \/ Broken(inner)
         \/ inner = Walked(Append(base, Scope(Keys(u, n)))) /\ \A i \in 1..n : \E s \in SUBSET STRING : Passed(i, s)
      /\ LowerOnce(u, n) /\ (\A i \in 1..n : \A s \in SUBSET STRING : Passed(i, s)) => inner = Walked(Append(base, Scope(Keys(u, n))))
  <2> HIDE DEF u
  <2>1. \A i \in 1..n : \A s \in SUBSET STRING :
          Broken(walkTokens(Walked(Append(base, Named(s))), u[i].value)) \/ Passed(i, s)
    BY <1>5
  <2>2. /\ \/ Broken(inner)
           \/ inner = Walked(Append(base, Scope(Keys(u, Len(u))))) /\ \A i \in 1..Len(u) : \E s \in SUBSET STRING : Passed(i, s)
        /\ LowerOnce(u, Len(u)) /\ (\A i \in 1..Len(u) : \A s \in SUBSET STRING : Passed(i, s)) => inner = Walked(Append(base, Scope(Keys(u, Len(u)))))
    BY <1>1, <2>1, ScopeWalk
  <2> HIDE DEF n, inner, Passed
  <2> QED  BY <1>1, <2>2
<1>7. stepToken(Walked(Append(base, Scope(Keys(u, n)))), "}") = Walked(base)
  <2>1. \A i \in 1..n : u[i].key \in STRING  BY <1>1, Delimiters DEF Written
  <2>2. Scope(Keys(u, n)) \in Frame  BY <2>1 DEF Scope, Frame, Keys
  <2> QED  BY <1>2, <2>2, Closed
<1>8. Broken(inner) => Broken(stepToken(inner, "}"))  BY StaysBroken
<1>9. \A st : (Broken(st) => st.failed) /\ ~Walked(base).failed  BY DEF Broken, Walked
<1>10. ASSUME NEW i \in 1..n, NEW s \in SUBSET STRING, Passed(i, s) PROVE Once(i)
  <2>1. \A stack : ~Broken(Walked(stack))  BY DEF Broken, Walked
  <2> HIDE DEF Once
  <2> QED  BY <1>5, <1>10, <2>1
<1>11. LowerOnce(u, n) <=> LowerOnce(ms, n)  BY <1>1 DEF LowerOnce
<1> DEFINE whole == <<"{">> \o text \o <<"}">>
<1>12. ensureNoDuplicateKeys(whole) <=> ~stepToken(inner, "}").failed  BY <1>4 DEF ensureNoDuplicateKeys
<1> HIDE DEF u, text, inner, Passed, Once, Easy, n, whole
<1>13. ensureNoDuplicateKeys(whole) => \A i \in 1..n : Once(i)  BY <1>6, <1>8, <1>9, <1>10, <1>12
<1>14. LowerOnce(ms, n) /\ (\A i \in 1..n : Easy(i)) => ensureNoDuplicateKeys(whole)
  BY <1>5, <1>6, <1>7, <1>9, <1>11, <1>12
<1> QED  BY <1>13, <1>14 DEF whole, text, u, n, Once, Easy

-----------------------------------------------------------------------------
(* The states of the walk into the map. *)
State(s, m, k, f, v, d) == [at |-> s, map |-> m, key |-> k, field |-> f, verdict |-> v, depth |-> d]
StateFields == {"at", "map", "key", "field", "verdict", "depth"}
Dead(st) == \E m, k, f, v, d : st = State("failed", m, k, f, v, d)
Put(m, k, v) == [x \in DOMAIN m \cup {k} |-> IF x = k THEN v ELSE m[x]]

LEMMA StateIs ==
  ASSUME NEW st, DOMAIN st = StateFields, st = [i \in DOMAIN st |-> st[i]]
  PROVE  st = State(st.at, st.map, st.key, st.field, st.verdict, st.depth)
<1> DEFINE u == State(st.at, st.map, st.key, st.field, st.verdict, st.depth)
<1>1. /\ u.at = st.at /\ u.map = st.map /\ u.key = st.key /\ u.field = st.field
      /\ u.verdict = st.verdict /\ u.depth = st.depth
  BY DEF State
<1>2. DOMAIN u = StateFields /\ u = [i \in DOMAIN u |-> u[i]]  BY DEF State, StateFields
<1> HIDE DEF u
<1>3. \A i \in StateFields : u[i] = st[i]  BY <1>1 DEF StateFields
<1>4. u = st  BY <1>2, <1>3
<1> QED  BY <1>4 DEF u

LEMMA StateParts ==
  ASSUME NEW s, NEW m, NEW k, NEW f, NEW v, NEW d
  PROVE  /\ State(s, m, k, f, v, d).at = s /\ State(s, m, k, f, v, d).map = m /\ State(s, m, k, f, v, d).key = k
         /\ State(s, m, k, f, v, d).field = f /\ State(s, m, k, f, v, d).verdict = v /\ State(s, m, k, f, v, d).depth = d
         /\ DOMAIN State(s, m, k, f, v, d) = StateFields
         /\ State(s, m, k, f, v, d) = [i \in DOMAIN State(s, m, k, f, v, d) |-> State(s, m, k, f, v, d)[i]]
<1>1. DOMAIN State(s, m, k, f, v, d) = StateFields  BY DEF State, StateFields
<1> QED  BY <1>1 DEF State

(* What the steps of the walk make of a state. *)
Moved(st, x) == [st EXCEPT !.at = x]
Opens(st, x, y) == [st EXCEPT !.at = x, !.depth = y]
Skips(st, x, y) == [st EXCEPT !.depth = y, !.at = x]
Hears(st, x, y) == [st EXCEPT !.at = x, !.verdict = y]
Enters(st, x, y) == [st EXCEPT !.at = x, !.field = y]
Begins(st, x, y, z) == [st EXCEPT !.at = x, !.key = y, !.verdict = z]

LEMMA Updates ==
  ASSUME NEW s, NEW m, NEW k, NEW f, NEW v, NEW d
  PROVE  /\ \A x : Moved(State(s, m, k, f, v, d), x) = State(x, m, k, f, v, d)
         /\ \A x, y : Opens(State(s, m, k, f, v, d), x, y) = State(x, m, k, f, v, y)
         /\ \A x, y : Skips(State(s, m, k, f, v, d), x, y) = State(x, m, k, f, v, y)
         /\ \A x, y : Hears(State(s, m, k, f, v, d), x, y) = State(x, m, k, f, y, d)
         /\ \A x, y : Enters(State(s, m, k, f, v, d), x, y) = State(x, m, k, y, v, d)
         /\ \A x, y, z : Begins(State(s, m, k, f, v, d), x, y, z) = State(x, m, y, f, z, d)
         /\ \A x : Keep(State(s, m, k, f, v, d), x) = State("key", Put(m, k, x), k, f, v, d)
<1>1. PICK st : st = State(s, m, k, f, v, d)  OBVIOUS
<1>2. /\ st.at = s /\ st.map = m /\ st.key = k /\ st.field = f /\ st.verdict = v /\ st.depth = d
      /\ DOMAIN st = StateFields /\ st = [i \in DOMAIN st |-> st[i]]
  BY <1>1, StateParts
<1>3. ASSUME NEW x PROVE Moved(st, x) = State(x, m, k, f, v, d)
  <2> DEFINE u == [st EXCEPT !.at = x]
  <2>1. u.at = x /\ u.map = m /\ u.key = k /\ u.field = f /\ u.verdict = v /\ u.depth = d  BY <1>2 DEF StateFields
  <2>2. DOMAIN u = StateFields /\ u = [i \in DOMAIN u |-> u[i]]  BY <1>2
  <2> HIDE DEF u
  <2>3. u = State(x, m, k, f, v, d)  BY <2>1, <2>2, StateIs
  <2> QED  BY <2>3 DEF u, Moved
<1>4. ASSUME NEW x, NEW y PROVE Opens(st, x, y) = State(x, m, k, f, v, y)
  <2> DEFINE u == [st EXCEPT !.at = x, !.depth = y]
  <2>1. u.at = x /\ u.map = m /\ u.key = k /\ u.field = f /\ u.verdict = v /\ u.depth = y  BY <1>2 DEF StateFields
  <2>2. DOMAIN u = StateFields /\ u = [i \in DOMAIN u |-> u[i]]  BY <1>2
  <2> HIDE DEF u
  <2>3. u = State(x, m, k, f, v, y)  BY <2>1, <2>2, StateIs
  <2> QED  BY <2>3 DEF u, Opens
<1>5. ASSUME NEW x, NEW y PROVE Skips(st, x, y) = State(x, m, k, f, v, y)
  <2> DEFINE u == [st EXCEPT !.depth = y, !.at = x]
  <2>1. u.at = x /\ u.map = m /\ u.key = k /\ u.field = f /\ u.verdict = v /\ u.depth = y  BY <1>2 DEF StateFields
  <2>2. DOMAIN u = StateFields /\ u = [i \in DOMAIN u |-> u[i]]  BY <1>2
  <2> HIDE DEF u
  <2>3. u = State(x, m, k, f, v, y)  BY <2>1, <2>2, StateIs
  <2> QED  BY <2>3 DEF u, Skips
<1>6. ASSUME NEW x, NEW y PROVE Hears(st, x, y) = State(x, m, k, f, y, d)
  <2> DEFINE u == [st EXCEPT !.at = x, !.verdict = y]
  <2>1. u.at = x /\ u.map = m /\ u.key = k /\ u.field = f /\ u.verdict = y /\ u.depth = d  BY <1>2 DEF StateFields
  <2>2. DOMAIN u = StateFields /\ u = [i \in DOMAIN u |-> u[i]]  BY <1>2
  <2> HIDE DEF u
  <2>3. u = State(x, m, k, f, y, d)  BY <2>1, <2>2, StateIs
  <2> QED  BY <2>3 DEF u, Hears
<1>7. ASSUME NEW x, NEW y PROVE Enters(st, x, y) = State(x, m, k, y, v, d)
  <2> DEFINE u == [st EXCEPT !.at = x, !.field = y]
  <2>1. u.at = x /\ u.map = m /\ u.key = k /\ u.field = y /\ u.verdict = v /\ u.depth = d  BY <1>2 DEF StateFields
  <2>2. DOMAIN u = StateFields /\ u = [i \in DOMAIN u |-> u[i]]  BY <1>2
  <2> HIDE DEF u
  <2>3. u = State(x, m, k, y, v, d)  BY <2>1, <2>2, StateIs
  <2> QED  BY <2>3 DEF u, Enters
<1>8. ASSUME NEW x, NEW y, NEW z PROVE Begins(st, x, y, z) = State(x, m, y, f, z, d)
  <2> DEFINE u == [st EXCEPT !.at = x, !.key = y, !.verdict = z]
  <2>1. u.at = x /\ u.map = m /\ u.key = y /\ u.field = f /\ u.verdict = z /\ u.depth = d  BY <1>2 DEF StateFields
  <2>2. DOMAIN u = StateFields /\ u = [i \in DOMAIN u |-> u[i]]  BY <1>2
  <2> HIDE DEF u
  <2>3. u = State(x, m, y, f, z, d)  BY <2>1, <2>2, StateIs
  <2> QED  BY <2>3 DEF u, Begins
<1>9. ASSUME NEW x PROVE Keep(st, x) = State("key", Put(m, k, x), k, f, v, d)
  <2> DEFINE u == [st EXCEPT !.at = "key", !.map = Put(m, k, x)]
  <2>1. u.at = "key" /\ u.map = Put(m, k, x) /\ u.key = k /\ u.field = f /\ u.verdict = v /\ u.depth = d  BY <1>2 DEF StateFields
  <2>2. DOMAIN u = StateFields /\ u = [i \in DOMAIN u |-> u[i]]  BY <1>2
  <2>3. Keep(st, x) = u  BY <1>2, Zenon DEF Keep, Put
  <2> HIDE DEF u
  <2> QED  BY <2>1, <2>2, <2>3, StateIs
<1> QED  BY <1>1, <1>3, <1>4, <1>5, <1>6, <1>7, <1>8, <1>9

Brace == "{"
EndBrace == "}"

LEMMA DecodeSteps ==
  ASSUME NEW m, NEW k, NEW f, NEW v, NEW d, NEW t, t # Junk
  PROVE  /\ t = Brace => decode(State("start", m, k, f, v, d), t) = State("key", m, k, f, v, d)
         /\ t # Brace => decode(State("start", m, k, f, v, d), t) = State("failed", m, k, f, v, d)
         /\ t = EndBrace => decode(State("key", m, k, f, v, d), t) = State("closed", m, k, f, v, d)
         /\ t # EndBrace /\ t \in DOMAIN m => decode(State("key", m, k, f, v, d), t) = State("failed", m, k, f, v, d)
         /\ t # EndBrace /\ t \notin DOMAIN m => decode(State("key", m, k, f, v, d), t) = State("value", m, t, f, NoVerdict, d)
         /\ t = Brace => decode(State("value", m, k, f, v, d), t) = State("fields", m, k, f, v, d)
         /\ t = "null" => decode(State("value", m, k, f, v, d), t) = State("key", Put(m, k, NoVerdict), k, f, v, d)
         /\ t # Brace /\ t # "null" => decode(State("value", m, k, f, v, d), t) = State("failed", m, k, f, v, d)
         /\ t = EndBrace => decode(State("fields", m, k, f, v, d), t) = State("key", Put(m, k, v), k, f, v, d)
         /\ t # EndBrace => decode(State("fields", m, k, f, v, d), t) = State("field", m, k, t, v, d)
         /\ decode(State("field", m, k, f, v, d), t) = Field(State("field", m, k, f, v, d), t)
         /\ decode(State("skip", m, k, f, v, d), t) = Skip(State("skip", m, k, f, v, d), t)
         /\ decode(State("closed", m, k, f, v, d), t) = State("failed", m, k, f, v, d)
<1> DEFINE In(s) == State(s, m, k, f, v, d)
<1>1. \A s : In(s).at = s /\ In(s).map = m /\ In(s).verdict = v  BY StateParts
<1>2. /\ \A s, x : Moved(In(s), x) = In(x)
      /\ \A s, x : Keep(In(s), x) = State("key", Put(m, k, x), k, f, v, d)
      /\ \A s, x, y : Enters(In(s), x, y) = State(x, m, k, y, v, d)
      /\ \A s, x, y, z : Begins(In(s), x, y, z) = State(x, m, y, f, z, d)
  BY Updates
<1> HIDE DEF In
<1>11. \A st : Fail(st) = Moved(st, "failed")  BY Zenon DEF Fail, Moved
<1>3. Key(In("key"), t) = IF t = "}" THEN In("closed") ELSE IF t \in DOMAIN m THEN In("failed")
                          ELSE State("value", m, t, f, NoVerdict, d)
  <2>1. \A st : Key(st, t) = IF t = "}" THEN Moved(st, "closed") ELSE IF t \in DOMAIN st.map THEN Fail(st)
                             ELSE Begins(st, "value", t, NoVerdict)
    BY Zenon DEF Key, Moved, Begins
  <2>2. Moved(In("key"), "closed") = In("closed") /\ Fail(In("key")) = In("failed") /\ In("key").map = m  BY <1>1, <1>2, <1>11
  <2>3. Begins(In("key"), "value", t, NoVerdict) = State("value", m, t, f, NoVerdict, d)
    <3>1. PICK none : none = NoVerdict  OBVIOUS
    <3>2. Begins(In("key"), "value", t, none) = State("value", m, t, f, none, d)  BY <1>2
    <3> QED  BY <3>1, <3>2
  <2> QED  BY <2>1, <2>2, <2>3, Zenon
<1>14. ASSUME NEW st
       PROVE  /\ st.at = "start" => decode(st, t) = IF t = "{" THEN Moved(st, "key") ELSE Fail(st)
              /\ st.at = "key" => decode(st, t) = Key(st, t)
              /\ st.at = "value" => decode(st, t) = IF t = "{" THEN Moved(st, "fields")
                                                     ELSE IF t = "null" THEN Keep(st, NoVerdict) ELSE Fail(st)
              /\ st.at = "fields" => decode(st, t) = IF t = "}" THEN Keep(st, st.verdict) ELSE Enters(st, "field", t)
              /\ st.at = "field" => decode(st, t) = Field(st, t)
              /\ st.at = "skip" => decode(st, t) = Skip(st, t)
              /\ st.at = "closed" => decode(st, t) = Fail(st)
  BY DEF decode, Moved, Enters
<1>4. decode(In("start"), t) = IF t = "{" THEN In("key") ELSE In("failed")
  <2>1. Moved(In("start"), "key") = In("key") /\ Fail(In("start")) = In("failed")  BY <1>2, <1>11
  <2>2. decode(In("start"), t) = IF t = "{" THEN Moved(In("start"), "key") ELSE Fail(In("start"))
    BY <1>1, <1>14, Zenon
  <2> QED  BY <2>1, <2>2, Zenon
<1>5. decode(In("key"), t) = Key(In("key"), t)  BY <1>1, <1>14, Zenon
<1>6. decode(In("value"), t) = IF t = "{" THEN In("fields")
                               ELSE IF t = "null" THEN State("key", Put(m, k, NoVerdict), k, f, v, d) ELSE In("failed")
  <2>1. Moved(In("value"), "fields") = In("fields") /\ Fail(In("value")) = In("failed")  BY <1>2, <1>11
  <2>2. Keep(In("value"), NoVerdict) = State("key", Put(m, k, NoVerdict), k, f, v, d)  BY <1>2
  <2>3. decode(In("value"), t) = IF t = "{" THEN Moved(In("value"), "fields")
                                 ELSE IF t = "null" THEN Keep(In("value"), NoVerdict) ELSE Fail(In("value"))
    BY <1>1, <1>14, Zenon
  <2> QED  BY <2>1, <2>2, <2>3, Zenon
<1>7. decode(In("fields"), t) = IF t = "}" THEN State("key", Put(m, k, v), k, f, v, d) ELSE State("field", m, k, t, v, d)
  <2>1. Keep(In("fields"), v) = State("key", Put(m, k, v), k, f, v, d) /\ In("fields").verdict = v  BY <1>1, <1>2
  <2>2. Enters(In("fields"), "field", t) = State("field", m, k, t, v, d)  BY <1>2
  <2>3. decode(In("fields"), t) = IF t = "}" THEN Keep(In("fields"), In("fields").verdict) ELSE Enters(In("fields"), "field", t)
    BY <1>1, <1>14, Zenon
  <2> QED  BY <2>1, <2>2, <2>3, Zenon
<1>8. decode(In("field"), t) = Field(In("field"), t)  BY <1>1, <1>14, Zenon
<1>9. decode(In("skip"), t) = Skip(In("skip"), t)  BY <1>1, <1>14, Zenon
<1>10. decode(In("closed"), t) = In("failed")
  <2>1. Fail(In("closed")) = In("failed")  BY <1>2, <1>11
  <2>2. decode(In("closed"), t) = Fail(In("closed"))  BY <1>1, <1>14, Zenon
  <2> QED  BY <2>1, <2>2, Zenon
<1>15. "{" # "null"  OBVIOUS
<1>16. /\ t = "{" => decode(In("start"), t) = In("key")
       /\ t # "{" => decode(In("start"), t) = In("failed")
       /\ t = "}" => decode(In("key"), t) = In("closed")
       /\ t # "}" /\ t \in DOMAIN m => decode(In("key"), t) = In("failed")
       /\ t # "}" /\ t \notin DOMAIN m => decode(In("key"), t) = State("value", m, t, f, NoVerdict, d)
  BY <1>3, <1>4, <1>5, Zenon
<1>17. /\ t = "{" => decode(In("value"), t) = In("fields")
       /\ t = "null" => decode(In("value"), t) = State("key", Put(m, k, NoVerdict), k, f, v, d)
       /\ t # "{" /\ t # "null" => decode(In("value"), t) = In("failed")
       /\ t = "}" => decode(In("fields"), t) = State("key", Put(m, k, v), k, f, v, d)
       /\ t # "}" => decode(In("fields"), t) = State("field", m, k, t, v, d)
  BY <1>6, <1>7, <1>15, Zenon
<1>18. Brace = "{" /\ EndBrace = "}"  BY DEF Brace, EndBrace
<1> QED  BY <1>8, <1>9, <1>10, <1>16, <1>17, <1>18, Zenon DEF In

LEMMA StaysDead ==
  /\ \A st, t : Dead(st) => decode(st, t) = st
  /\ \A s, m, k, f, v, d : decode(State(s, m, k, f, v, d), Junk) = State("failed", m, k, f, v, d)
<1>1. ASSUME NEW s, NEW m, NEW k, NEW f, NEW v, NEW d, NEW t, s = "failed" \/ t = Junk
      PROVE  decode(State(s, m, k, f, v, d), t) = State("failed", m, k, f, v, d)
  <2>1. PICK st : st = State(s, m, k, f, v, d)  OBVIOUS
  <2>2. st.at = s  BY <2>1, StateParts
  <2>3. Fail(st) = State("failed", m, k, f, v, d)
    <3>1. Moved(st, "failed") = State("failed", m, k, f, v, d)  BY <2>1, Updates
    <3> QED  BY <3>1, Zenon DEF Fail, Moved
  <2>4. decode(st, t) = Fail(st)  BY <1>1, <2>2, Zenon DEF decode
  <2> QED  BY <2>1, <2>3, <2>4
<1> QED  BY <1>1 DEF Dead

(* From the step that fails on, nothing changes.                           *)
LEMMA DeadFrom ==
  ASSUME NEW S, NEW text \in Seq(S), NEW st, NEW f, Reads(f, st, text), NEW i \in 0..Len(text), Dead(f[i])
  PROVE  f[Len(text)] = f[i]
<1> DEFINE n == Len(text)
           Bad == {k \in 1..n : k > i /\ f[k] # f[i]}
<1>1. n \in Nat /\ i \in Nat /\ i <= n  OBVIOUS
<1>2. \A k \in 1..n : f[k] = decode(f[k - 1], text[k])  BY DEF Reads
<1>3. \A t : decode(f[i], t) = f[i]  BY StaysDead
<1> HIDE DEF n
<1>4. Bad = {}
  <2> SUFFICES ASSUME Bad # {} PROVE FALSE  OBVIOUS
  <2>1. PICK k \in Bad : \A j \in Bad : k <= j  BY <1>1, FirstPlace
  <2>2. k - 1 = i \/ (k - 1 \in 1..n /\ k - 1 > i /\ ~(k <= k - 1))  BY <1>1
  <2>3. f[k - 1] = f[i]  BY <2>1, <2>2
  <2> QED  BY <1>2, <1>3, <2>1, <2>3
<1>5. n = i \/ (n \in 1..n /\ n > i)  BY <1>1
<1> QED  BY <1>4, <1>5 DEF n

(* Nothing is read once the reader has failed.                             *)
LEMMA ReadStaysDead ==
  ASSUME NEW S, NEW text \in Seq(S), NEW st, Dead(st)
  PROVE  readTokens(st, text) = st
<1>1. PICK f : Reads(f, st, text) /\ readTokens(st, text) = f[Len(text)]  BY ReadSteps
<1>2. f[0] = st /\ 0 \in 0..Len(text)  BY <1>1 DEF Reads
<1> QED  BY <1>1, <1>2, DeadFrom

(* What is read of a field: the verdict is the text of the last one.  A    *)
(* value that is no text is none of a known field's.                       *)
IsVerdict(key) == ToLower(key) = "verdict"
HeardOf(key, value, v) == IF IsVerdict(key) /\ value[1] # "null" THEN value[1] ELSE v

LEMMA FieldRead ==
  ASSUME NEW m, NEW k, NEW f, NEW v, NEW d, NEW key \in Names, NEW value, JSONValue(value)
  PROVE  LET st == readTokens(decode(State("fields", m, k, f, v, d), key), value)
         IN /\ Dead(st) \/ ((IsVerdict(key) => Len(value) = 1) /\ \E e : st = State("fields", m, k, key, HeardOf(key, value, v), e))
            /\ Len(value) = 1 /\ value[1] \notin NotStrings => ~Dead(st)
<1> DEFINE n == Len(value)
           In(s) == State(s, m, k, key, v, d)
           known == ToLower(key) \in {"verdict", "justification"}
<1>1. /\ value \in Seq(STRING) /\ n \in Nat /\ n > 0 /\ Depth(value, n) = 0 /\ \A i \in 1..(n - 1) : Depth(value, i) > 0
      /\ \A i \in 1..n : value[i] \in STRING /\ value[i] # Junk
  <2>1. value \in Seq(STRING)  BY DEF JSONValue
  <2>2. DOMAIN value = 1..n /\ n \in Nat /\ \A i \in 1..n : value[i] \in STRING  BY <2>1, ElementOfSeq, LenProperties
  <2> QED  BY <2>1, <2>2 DEF JSONValue
<1>2. decode(State("fields", m, k, f, v, d), key) = In("field")
  <2>1. key # EndBrace /\ key # Junk  BY Delimiters DEF EndBrace
  <2> QED  BY <2>1, DecodeSteps
<1>3. PICK g : Reads(g, In("field"), value) /\ readTokens(In("field"), value) = g[n]  BY <1>1, ReadSteps
<1>4. g[0] = In("field") /\ \A i \in 1..n : g[i] = decode(g[i - 1], value[i])  BY <1>3 DEF Reads
<1>5. g[1] = Field(In("field"), value[1]) /\ value[1] \in STRING /\ value[1] # Junk
  <2>1. 1 \in 1..n /\ 1 - 1 = 0  BY <1>1
  <2>2. g[1] = decode(In("field"), value[1]) /\ value[1] \in STRING /\ value[1] # Junk  BY <1>1, <1>4, <2>1
  <2>3. \A t : t # Junk => decode(In("field"), t) = Field(In("field"), t)  BY DecodeSteps
  <2> QED  BY <2>2, <2>3
<1>6. /\ \A s : In(s).field = key
      /\ \A s, x : Moved(In(s), x) = In(x)
      /\ \A s, x, y : Hears(In(s), x, y) = State(x, m, k, key, y, d)
      /\ \A s, x, y : Opens(In(s), x, y) = State(x, m, k, key, v, y)
  BY StateParts, Updates
<1>7. Depth(value, 1) = Turn(value[1])
  <2>1. 1 - 1 = 0 /\ 1 \in Nat /\ 1 > 0  OBVIOUS
  <2>2. Depth(value, 1) = Depth(value, 0) + Turn(value[1])  BY <2>1, DepthStep
  <2>3. Turn(value[1]) \in Int  BY DEF Turn
  <2> QED  BY <2>2, <2>3, DepthZero
<1>8. Dead(In("failed"))  BY DEF Dead
<1>9. ~Dead(State("fields", m, k, key, HeardOf(key, value, v), d))
  <2>1. ASSUME NEW m2, NEW k2, NEW f2, NEW v2, NEW d2 PROVE State("fields", m, k, key, HeardOf(key, value, v), d) # State("failed", m2, k2, f2, v2, d2)
    BY StateParts
  <2> QED  BY <2>1 DEF Dead
<1>10. IsVerdict(key) => known  BY DEF IsVerdict
<1> HIDE DEF In, n
<1>11. CASE n = 1
  <2>1. value[1] \notin Openers  BY <1>1, <1>7, <1>11 DEF Turn
  <2>2. Field(In("field"), value[1]) =
          IF known /\ value[1] = "1" THEN In("failed")
          ELSE IF IsVerdict(key) /\ value[1] # "null" THEN State("fields", m, k, key, value[1], d) ELSE In("fields")
    <3>1. PICK st, t : st = In("field") /\ t = value[1]  OBVIOUS
    <3>2. st.field = key /\ t \notin Openers  BY <1>6, <2>1, <3>1
    <3>3. Field(st, t) = IF known /\ t = "1" THEN Moved(st, "failed")
                         ELSE IF IsVerdict(key) /\ t # "null" THEN Hears(st, "fields", t) ELSE Moved(st, "fields")
      BY <3>2, Zenon DEF Field, Fail, IsVerdict, Moved, Hears
    <3>4. /\ Moved(st, "failed") = In("failed") /\ Moved(st, "fields") = In("fields")
          /\ Hears(st, "fields", t) = State("fields", m, k, key, t, d)
      BY <1>6, <3>1
    <3> QED  BY <3>1, <3>3, <3>4, Zenon
  <2>3. ~(known /\ value[1] = "1") => g[1] = State("fields", m, k, key, HeardOf(key, value, v), d)
    BY <1>5, <2>2 DEF HeardOf, In
  <2>4. value[1] \notin NotStrings => value[1] # "1"  BY DEF NotStrings
  <2>5. known /\ value[1] = "1" => g[1] = In("failed")  BY <1>5, <2>2
  <2> HIDE DEF known
  <2> QED  BY <1>2, <1>3, <1>8, <1>9, <1>11, <2>3, <2>4, <2>5 DEF n
<1>12. CASE n # 1
  <2>1. 1 \in 1..(n - 1)  BY <1>1, <1>12
  <2>2. value[1] \in Openers /\ Turn(value[1]) = 1  BY <1>1, <1>7, <2>1 DEF Turn
  <2>3. Field(In("field"), value[1]) = IF known THEN In("failed") ELSE State("skip", m, k, key, v, 1)
    <3>1. PICK st, t : st = In("field") /\ t = value[1]  OBVIOUS
    <3>2. st.field = key /\ t \in Openers  BY <1>6, <2>2, <3>1
    <3>3. Field(st, t) = IF known THEN Moved(st, "failed") ELSE Opens(st, "skip", 1)
      BY <3>2, Zenon DEF Field, Fail, Moved, Opens
    <3>4. Moved(st, "failed") = In("failed") /\ Opens(st, "skip", 1) = State("skip", m, k, key, v, 1)  BY <1>6, <3>1
    <3> QED  BY <3>1, <3>3, <3>4, Zenon
  <2> DEFINE S == Seq(STRING)
             Good(i) == Dead(g[i]) \/ (~known /\ g[i] = State(IF i = n THEN "fields" ELSE "skip", m, k, key, v, Depth(value, i)))
             Bad == {i \in 1..n : ~Good(i)}
  <2>4. Good(1)  BY <1>5, <1>7, <1>8, <1>12, <2>2, <2>3
  <2>5. ASSUME NEW i \in 2..n, Good(i - 1) PROVE Good(i)
    <3>1. i - 1 \in 1..(n - 1) /\ i \in 1..n /\ i \in Nat /\ i > 0 /\ i - 1 # n  BY <1>1
    <3>2. g[i] = decode(g[i - 1], value[i])  BY <1>4, <3>1
    <3>3. CASE Dead(g[i - 1])
      <4>1. g[i] = g[i - 1]  BY <3>2, <3>3, StaysDead
      <4> QED  BY <3>3, <4>1
    <3>4. CASE ~known /\ g[i - 1] = State("skip", m, k, key, v, Depth(value, i - 1))
      <4> DEFINE e == Depth(value, i - 1)
                 st == State("skip", m, k, key, v, e)
      <4>1. Depth(value, i) = e + Turn(value[i]) /\ e \in Int  BY <3>1, DepthStep
      <4>2. value[i] # Junk  BY <1>1, <3>1
      <4>3. g[i] = Skip(st, value[i])
        <5>1. \A t : t # Junk => decode(st, t) = Skip(st, t)  BY DecodeSteps
        <5> QED  BY <3>2, <3>4, <4>2, <5>1
      <4>4. st.depth = e /\ \A x, y : Skips(st, x, y) = State(x, m, k, key, v, y)  BY StateParts, Updates
      <4>5. Turn(value[i]) = IF value[i] \in Openers THEN 1 ELSE IF value[i] \in Delims THEN -1 ELSE 0
        BY DEF Turn, Delims
      <4> HIDE DEF e, st
      <4>6. Skip(st, value[i]) = State(IF Depth(value, i) = 0 THEN "fields" ELSE "skip", m, k, key, v, Depth(value, i))
        <5>1. PICK t, next : t = value[i] /\ next = Depth(value, i)  OBVIOUS
        <5>2. e + (IF t \in Openers THEN 1 ELSE IF t \in Delims THEN -1 ELSE 0) = next  BY <4>1, <4>5, <5>1
        <5>3. Skip(st, t) = Skips(st, IF next = 0 THEN "fields" ELSE "skip", next)
          BY <4>4, <5>2, Zenon DEF Skip, Skips
        <5> QED  BY <4>4, <5>1, <5>3, Zenon
      <4>7. Depth(value, i) = 0 <=> i = n  BY <1>1, <3>1
      <4> QED  BY <3>4, <4>3, <4>6, <4>7
    <3> QED  BY <2>5, <3>1, <3>3, <3>4
  <2>6. Bad = {}
    <3> SUFFICES ASSUME Bad # {} PROVE FALSE  OBVIOUS
    <3> HIDE DEF Good
    <3>1. PICK i \in Bad : \A j \in Bad : i <= j  BY <1>1, FirstPlace
    <3>2. i \in 1..n /\ i # 1 /\ ~Good(i)  BY <2>4, <3>1
    <3>3. i \in 2..n /\ i - 1 \in 1..n /\ ~(i <= i - 1)  BY <1>1, <3>2
    <3> QED  BY <2>5, <3>1, <3>2, <3>3
  <2>7. Good(n)
    <3> HIDE DEF Good
    <3> QED  BY <1>1, <2>6
  <2>8. ~IsVerdict(key) => HeardOf(key, value, v) = v  BY DEF HeardOf
  <2> HIDE DEF known
  <2> QED  BY <1>2, <1>3, <1>10, <1>12, <2>7, <2>8 DEF n
<1> QED  BY <1>11, <1>12

(* Members are read one key and one value at a time.                       *)
LEMMA MembersRead ==
  ASSUME NEW ms, Written(ms), NEW st
  PROVE  \E w : /\ w[0] = st
                /\ \A i \in 1..Len(ms) : w[i] = readTokens(decode(w[i - 1], ms[i].key), ms[i].value)
                /\ readTokens(st, Members(ms)) = w[Len(ms)]
<1> DEFINE n == Len(ms)
<1>1. n \in Nat  BY LenProperties DEF Written
<1>2. PICK p : /\ \A i \in 0..n : p[i] \in Seq(Token)
               /\ p[0] = <<>> /\ \A i \in 1..n : p[i] = p[i - 1] \o (<<ms[i].key>> \o ms[i].value)
               /\ Members(ms) = p[n]
  BY MembersText
<1> HIDE DEF n
<1> DEFINE w == [i \in 0..n |-> readTokens(st, p[i])]
<1>3. w[0] = st
  <2>1. w[0] = readTokens(st, <<>>)  BY <1>1, <1>2
  <2> QED  BY <2>1, ReadNothing
<1>4. ASSUME NEW i \in 1..n PROVE w[i] = readTokens(decode(w[i - 1], ms[i].key), ms[i].value)
  <2>1. i \in 0..n /\ i - 1 \in 0..n  BY <1>1
  <2>2. PICK one : one = <<ms[i].key>>  OBVIOUS
  <2>3. ms[i].key \in Token /\ ms[i].value \in Seq(Token)  BY Delimiters DEF Written, n
  <2>4. one \in Seq(Token)  BY <2>2, <2>3
  <2>5. one \o ms[i].value \in Seq(Token)  BY <2>3, <2>4, ConcatProperties
  <2>6. p[i - 1] \in Seq(Token) /\ p[i] = p[i - 1] \o (one \o ms[i].value)  BY <1>2, <2>1, <2>2
  <2>7. readTokens(st, p[i]) = readTokens(readTokens(st, p[i - 1]), one \o ms[i].value)
    <3>1. PICK pre \in Seq(Token), chunk \in Seq(Token) : pre = p[i - 1] /\ chunk = one \o ms[i].value  BY <2>5, <2>6
    <3>2. readTokens(st, pre \o chunk) = readTokens(readTokens(st, pre), chunk)  BY ReadConcat
    <3> QED  BY <2>6, <3>1, <3>2
  <2>8. readTokens(w[i - 1], one \o ms[i].value) = readTokens(readTokens(w[i - 1], one), ms[i].value)
    BY <2>3, <2>4, ReadConcat
  <2>9. readTokens(w[i - 1], one) = decode(w[i - 1], ms[i].key)  BY <2>2, ReadOne
  <2> QED  BY <2>1, <2>7, <2>8, <2>9
<1>5. readTokens(st, Members(ms)) = w[n]  BY <1>1, <1>2
<1> HIDE DEF w
<1> QED  BY <1>3, <1>4, <1>5 DEF n

(* A text in braces is read from brace to brace.                           *)
LEMMA ReadBetween ==
  ASSUME NEW text \in Seq(Token), NEW open \in Token, NEW close \in Token, NEW st
  PROVE  /\ <<open>> \o text \o <<close>> \in Seq(Token)
         /\ readTokens(st, <<open>> \o text \o <<close>>) = decode(readTokens(decode(st, open), text), close)
<1>1. PICK one, two : one = <<open>> /\ two = <<close>>  OBVIOUS
<1>2. one \in Seq(Token) /\ two \in Seq(Token)  BY <1>1
<1>3. PICK left : left = one \o text  OBVIOUS
<1>4. left \in Seq(Token) /\ left \o two \in Seq(Token)
  <2>1. left \in Seq(Token)  BY <1>2, <1>3, ConcatProperties
  <2> QED  BY <1>2, <2>1, ConcatProperties
<1>5. readTokens(st, left \o two) = readTokens(readTokens(st, left), two)  BY <1>2, <1>4, ReadConcat
<1>6. readTokens(st, left) = readTokens(readTokens(st, one), text)  BY <1>2, <1>3, ReadConcat
<1>7. readTokens(st, one) = decode(st, open)  BY <1>1, ReadOne
<1>8. \A s : readTokens(s, two) = decode(s, close)  BY <1>1, ReadOne
<1>9. readTokens(st, left \o two) = decode(readTokens(decode(st, open), text), close)  BY <1>5, <1>6, <1>7, <1>8
<1> QED  BY <1>1, <1>3, <1>4, <1>9

(* The verdict that is read of the first n fields: one that was written,   *)
(* if any but null was.                                                    *)
Heard(fields, n, v) ==
  /\ v # NoVerdict => \E j \in 1..n : IsVerdict(fields[j].key) /\ Len(fields[j].value) = 1 /\ fields[j].value[1] = v
  /\ (\E j \in 1..n : IsVerdict(fields[j].key) /\ fields[j].value[1] # "null")
       => \E j \in 1..n : IsVerdict(fields[j].key) /\ Len(fields[j].value) = 1 /\ fields[j].value[1] = v
AllStrings(fields) == \A i \in 1..Len(fields) : Len(fields[i].value) = 1 /\ fields[i].value[1] \notin NotStrings

(* The fields of a finding are read to what they are heard to say.         *)
LEMMA FieldsRead ==
  ASSUME NEW m, NEW k, NEW f, NEW d, NEW fields, WithFields(fields)
  PROVE  LET st == readTokens(State("fields", m, k, f, NoVerdict, d), Members(fields))
         IN /\ Dead(st) \/ \E g, v, e : st = State("fields", m, k, g, v, e) /\ Heard(fields, Len(fields), v)
            /\ AllStrings(fields) => ~Dead(st)
<1> DEFINE n == Len(fields)
           start == State("fields", m, k, f, NoVerdict, d)
<1>1. Written(fields) /\ n \in Nat /\ \A i \in 1..n : fields[i].key \in Names /\ JSONValue(fields[i].value)
  BY FieldsAreWritten DEF Written
<1>2. PICK r : /\ r[0] = start
               /\ \A i \in 1..n : r[i] = readTokens(decode(r[i - 1], fields[i].key), fields[i].value)
               /\ readTokens(start, Members(fields)) = r[n]
  <2> HIDE DEF start
  <2> QED  BY <1>1, MembersRead
<1> DEFINE On(st, i) == \E g, v, e : st = State("fields", m, k, g, v, e) /\ Heard(fields, i, v)
           Good(i) == (Dead(r[i]) \/ On(r[i], i)) /\ (AllStrings(fields) => ~Dead(r[i]))
           Bad == {i \in 1..n : ~Good(i)}
<1>3. \A s, g, v, e, x : s # "failed" => ~Dead(State(s, x, k, g, v, e))
  <2>1. ASSUME NEW s, NEW g, NEW v, NEW e, NEW x, s # "failed", NEW m2, NEW k2, NEW f2, NEW v2, NEW d2
        PROVE  State(s, x, k, g, v, e) # State("failed", m2, k2, f2, v2, d2)
    BY <2>1, StateParts
  <2> QED  BY <2>1 DEF Dead
<1>4. Good(0)
  <2>1. 1..0 = {}  OBVIOUS
  <2>2. Heard(fields, 0, NoVerdict)  BY <2>1, Zenon DEF Heard
  <2>3. On(r[0], 0)  BY <1>2, <2>2
  <2>4. ~Dead(r[0])  BY <1>2, <1>3
  <2> QED  BY <2>3, <2>4
<1> HIDE DEF n
<1>5. ASSUME NEW i \in 1..n, Good(i - 1) PROVE Good(i)
  <2> DEFINE key == fields[i].key
             value == fields[i].value
  <2>1. key \in Names /\ JSONValue(value) /\ r[i] = readTokens(decode(r[i - 1], key), value) /\ value \in Seq(Token)
    BY <1>1, <1>2 DEF Written, n
  <2>2. i \in Nat /\ i > 0 /\ 1..i = (1..(i - 1)) \cup {i} /\ i \notin 1..(i - 1)  BY <1>1
  <2>3. CASE Dead(r[i - 1])
    <3>1. decode(r[i - 1], key) = r[i - 1]  BY <2>3, StaysDead
    <3>2. r[i] = r[i - 1]  BY <2>1, <2>3, <3>1, ReadStaysDead
    <3> QED  BY <1>5, <2>3, <3>2
  <2>4. CASE On(r[i - 1], i - 1)
    <3>1. PICK g, v, e : r[i - 1] = State("fields", m, k, g, v, e) /\ Heard(fields, i - 1, v)  BY <2>4
    <3>2. /\ Dead(r[i]) \/ ((IsVerdict(key) => Len(value) = 1) /\ \E e2 : r[i] = State("fields", m, k, key, HeardOf(key, value, v), e2))
          /\ Len(value) = 1 /\ value[1] \notin NotStrings => ~Dead(r[i])
      <4> HIDE DEF key, value
      <4> QED  BY <2>1, <3>1, FieldRead
    <3>3. AllStrings(fields) => ~Dead(r[i])  BY <3>2 DEF AllStrings, n
    <3>4. (IsVerdict(key) => Len(value) = 1) => Heard(fields, i, HeardOf(key, value, v))
      <4> SUFFICES ASSUME IsVerdict(key) => Len(value) = 1 PROVE Heard(fields, i, HeardOf(key, value, v))  OBVIOUS
      <4>1. i \in 1..i /\ \A j \in 1..(i - 1) : j \in 1..i  BY <2>2
      <4>2. CASE IsVerdict(key) /\ value[1] # "null"
        <5>1. HeardOf(key, value, v) = value[1]  BY <4>2, Zenon DEF HeardOf
        <5>2. \E j \in 1..i : IsVerdict(fields[j].key) /\ Len(fields[j].value) = 1 /\ fields[j].value[1] = value[1]
          BY <4>1, <4>2
        <5> QED  BY <5>1, <5>2, Zenon DEF Heard
      <4>3. CASE ~(IsVerdict(key) /\ value[1] # "null")
        <5>1. HeardOf(key, value, v) = v  BY <4>3, Zenon DEF HeardOf
        <5>2. \A j \in 1..i : IsVerdict(fields[j].key) /\ fields[j].value[1] # "null" => j \in 1..(i - 1)  BY <2>2, <4>3
        <5>3. Heard(fields, i, v)  BY <3>1, <4>1, <5>2, Zenon DEF Heard
        <5> QED  BY <5>1, <5>3
      <4> QED  BY <4>2, <4>3
    <3>5. Dead(r[i]) \/ On(r[i], i)
      <4> HIDE DEF key, value
      <4> QED  BY <3>2, <3>4
    <3> QED  BY <3>3, <3>5
  <2> HIDE DEF On
  <2> QED  BY <1>5, <2>3, <2>4
<1>6. Bad = {}
  <2> SUFFICES ASSUME Bad # {} PROVE FALSE  OBVIOUS
  <2> HIDE DEF Good
  <2>1. PICK i \in Bad : \A j \in Bad : i <= j  BY <1>1, FirstPlace
  <2>2. i \in 1..n /\ ~Good(i)  OBVIOUS
  <2>3. i - 1 = 0 \/ (i - 1 \in 1..n /\ ~(i <= i - 1))  BY <1>1, <2>2
  <2>4. Good(i - 1)  BY <1>4, <2>1, <2>3
  <2> QED  BY <1>5, <2>2, <2>4
<1>7. Good(n)
  <2> HIDE DEF Good
  <2> QED  BY <1>1, <1>4, <1>6
<1> QED  BY <1>2, <1>7 DEF n

(* Only a state that has failed is dead.                                   *)
LEMMA AliveStates ==
  /\ \A s, m, k, f, v, d : s # "failed" => ~Dead(State(s, m, k, f, v, d))
  /\ \A st : Dead(st) => st.at = "failed"
  /\ \A m, k, f, v, d : Dead(State("failed", m, k, f, v, d))
<1>1. ASSUME NEW s, NEW m, NEW k, NEW f, NEW v, NEW d, s # "failed", NEW m2, NEW k2, NEW f2, NEW v2, NEW d2
      PROVE  State(s, m, k, f, v, d) # State("failed", m2, k2, f2, v2, d2)
  BY <1>1, StateParts
<1>2. \A st : Dead(st) => st.at = "failed"  BY StateParts DEF Dead
<1> QED  BY <1>1, <1>2 DEF Dead

(* What is read for a finding: nothing, or a verdict of its fields. *)
Said(m, u) == IF m.fields = <<>> THEN u = NoVerdict ELSE Heard(m.fields, Len(m.fields), u)

LEMMA MemberRead ==
  ASSUME NEW map, NEW k, NEW f, NEW v, NEW d, NEW m, AsMember(m)
  PROVE  LET st == readTokens(decode(State("key", map, k, f, v, d), m.key), ToldValue(m))
         IN /\ \/ Dead(st)
               \/ /\ m.key \notin DOMAIN map /\ AsMap(m)
                  /\ \E u, g, w, e : st = State("key", Put(map, m.key, u), m.key, g, w, e) /\ Said(m, u)
            /\ m.key \notin DOMAIN map /\ m.fields # <<>> /\ AllStrings(m.fields) => ~Dead(st)
<1> DEFINE key == m.key
           In(s) == State(s, map, key, f, NoVerdict, d)
           st1 == decode(State("key", map, k, f, v, d), key)
           st == readTokens(st1, ToldValue(m))
           Right == /\ key \notin DOMAIN map /\ AsMap(m)
                    /\ \E u, g, w, e : st = State("key", Put(map, key, u), key, g, w, e) /\ Said(m, u)
<1>1. key \in Names /\ key # EndBrace /\ key # Junk /\ ToldValue(m) \in Seq(Token)
  BY Delimiters, ToldInTokens DEF AsMember, EndBrace
<1>2. CASE key \in DOMAIN map
  <2>1. st1 = State("failed", map, k, f, v, d)
    <3> HIDE DEF key
    <3> QED  BY <1>1, <1>2, DecodeSteps
  <2>2. Dead(st1)  BY <2>1 DEF Dead
  <2> HIDE DEF st1
  <2>3. Dead(st)  BY <1>1, <2>2, ReadStaysDead
  <2> QED  BY <1>2, <2>3 DEF st1
<1>3. CASE key \notin DOMAIN map
  <2>1. st1 = In("value")
    <3> HIDE DEF key
    <3> QED  BY <1>1, <1>3, DecodeSteps
  <2> HIDE DEF st1, In, key
  <2>2. /\ decode(In("value"), Brace) = In("fields")
        /\ decode(In("value"), "null") = State("key", Put(map, key, NoVerdict), key, f, NoVerdict, d)
        /\ \A t : t # Brace /\ t # "null" /\ t # Junk => Dead(decode(In("value"), t))
        /\ \A g, w, e : decode(State("fields", map, key, g, w, e), EndBrace) = State("key", Put(map, key, w), key, g, w, e)
    <3>1. Brace # Junk /\ EndBrace # Junk /\ "null" # Junk  BY DEF Brace, EndBrace, Junk
    <3>2. \A t : t # Brace /\ t # "null" /\ t # Junk => decode(In("value"), t) = In("failed")  BY DecodeSteps DEF In
    <3>3. Dead(In("failed"))  BY DEF In, Dead
    <3> QED  BY <3>1, <3>2, <3>3, DecodeSteps DEF In
  <2>3. CASE m.fields # <<>>
    <3> DEFINE text == Members(m.fields)
               inner == readTokens(In("fields"), text)
    <3>1. WithFields(m.fields) /\ text \in Seq(Token)
      <4>1. WithFields(m.fields)  BY <2>3 DEF AsMember
      <4> QED  BY <4>1, FieldsAreWritten, MembersInTokens
    <3>2. ToldValue(m) = <<Brace>> \o text \o <<EndBrace>>  BY <2>3, Zenon DEF ToldValue, Brace, EndBrace
    <3>3. Brace \in Token /\ EndBrace \in Token  BY Delimiters DEF Token, Brace, EndBrace
    <3> HIDE DEF text
    <3>4. \A s : readTokens(s, <<Brace>> \o text \o <<EndBrace>>) = decode(readTokens(decode(s, Brace), text), EndBrace)
      BY <3>1, <3>3, ReadBetween
    <3>5. st = decode(inner, EndBrace)  BY <2>1, <2>2, <3>2, <3>4
    <3>6. /\ Dead(inner) \/ \E g, w, e : inner = State("fields", map, key, g, w, e) /\ Heard(m.fields, Len(m.fields), w)
          /\ AllStrings(m.fields) => ~Dead(inner)
      BY <3>1, FieldsRead DEF In, text
    <3> HIDE DEF inner, st
    <3>7. CASE Dead(inner)
      <4>1. Dead(st)  BY <3>5, <3>7, StaysDead
      <4> QED  BY <3>6, <3>7, <4>1 DEF st, st1, key
    <3>8. CASE ~Dead(inner)
      <4>1. PICK g, w, e : inner = State("fields", map, key, g, w, e) /\ Heard(m.fields, Len(m.fields), w)  BY <3>6, <3>8
      <4>2. st = State("key", Put(map, key, w), key, g, w, e)  BY <2>2, <3>5, <4>1
      <4>3. Said(m, w) /\ AsMap(m)  BY <2>3, <4>1 DEF Said, AsMap
      <4>4. Right  BY <1>3, <4>2, <4>3
      <4>5. ~Dead(st)  BY <4>2, AliveStates
      <4> QED  BY <4>4, <4>5 DEF st, st1, key
    <3> QED  BY <3>7, <3>8
  <2>4. CASE m.fields = <<>>
    <3> DEFINE value == m.value
    <3>1. /\ ToldValue(m) = value /\ value \in Seq(STRING) /\ Len(value) > 0
          /\ value = <<Brace, EndBrace>> \/ value[1] = "[" \/ (Len(value) = 1 /\ value[1] \in Names)
      BY <2>4, Zenon DEF ToldValue, AsMember, FlatValue, Brace, EndBrace
    <3>2. Said(m, NoVerdict)  BY <2>4, Zenon DEF Said
    <3>3. PICK g : Reads(g, In("value"), value) /\ st = g[Len(value)]  BY <2>1, <3>1, ReadSteps
    <3>4. g[0] = In("value") /\ g[1] = decode(In("value"), value[1])
      <4>1. 1 \in 1..Len(value) /\ 1 - 1 = 0  BY <3>1
      <4>2. g[1] = decode(g[1 - 1], value[1])  BY <3>3, <4>1 DEF Reads
      <4> QED  BY <3>3, <4>1, <4>2 DEF Reads
    <3>5. Dead(g[1]) => Dead(st)
      <4>1. 1 \in 0..Len(value)  BY <3>1
      <4> QED  BY <3>1, <3>3, <4>1, DeadFrom
    <3> HIDE DEF st
    <3>6. CASE value = <<Brace, EndBrace>>
      <4>1. Len(value) = 2 /\ value[1] = Brace /\ value[2] = EndBrace
        <5>1. \A x, y : <<x, y>>[1] = x /\ <<x, y>>[2] = y  OBVIOUS
        <5> QED  BY <3>6, <5>1, TwoTokens
      <4>2. g[2] = decode(g[1], EndBrace)
        <5>1. 2 \in 1..Len(value) /\ 2 - 1 = 1  BY <4>1
        <5>2. g[2] = decode(g[2 - 1], value[2])  BY <3>3, <5>1 DEF Reads
        <5> QED  BY <4>1, <5>1, <5>2
      <4>3. st = State("key", Put(map, key, NoVerdict), key, f, NoVerdict, d)
        BY <2>2, <3>3, <3>4, <4>1, <4>2 DEF In
      <4>4. AsMap(m)  BY <3>6, Zenon DEF AsMap, Brace, EndBrace
      <4> QED  BY <1>3, <2>4, <3>2, <4>3, <4>4 DEF st, st1, key
    <3>7. CASE value[1] = "["
      <4>1. "[" # Brace /\ "[" # "null" /\ "[" # Junk  BY DEF Brace, Junk
      <4>2. Dead(st)  BY <2>2, <3>4, <3>5, <3>7, <4>1
      <4> QED  BY <2>4, <4>2 DEF st, st1, key
    <3>8. CASE Len(value) = 1 /\ value[1] \in Names
      <4>1. value[1] # Brace /\ value[1] # Junk  BY <3>8, Delimiters DEF Brace
      <4>2. CASE value[1] # "null"
        <5>1. Dead(st)  BY <2>2, <3>4, <3>5, <4>1, <4>2
        <5> QED  BY <2>4, <5>1 DEF st, st1, key
      <4>3. CASE value[1] = "null"
        <5>1. st = State("key", Put(map, key, NoVerdict), key, f, NoVerdict, d)  BY <2>2, <3>3, <3>4, <3>8, <4>3
        <5>2. value = <<value[1]>>  BY <3>1, <3>8
        <5>3. AsMap(m)  BY <4>3, <5>2, Zenon DEF AsMap
        <5> QED  BY <1>3, <2>4, <3>2, <5>1, <5>3 DEF st, st1, key
      <4> QED  BY <4>2, <4>3
    <3> QED  BY <3>1, <3>6, <3>7, <3>8
  <2> QED  BY <2>3, <2>4
<1> QED  BY <1>2, <1>3

(* The map that is read of the first n findings. *)
KeyOnce(ms, n) == \A j, l \in 1..n : ms[j].key = ms[l].key => j = l
Mapped(ms, n, map) ==
  /\ DOMAIN map = Keys(ms, n) /\ KeyOnce(ms, n)
  /\ \A j \in 1..n : AsMap(ms[j]) /\ Said(ms[j], map[ms[j].key])
AllInOrder(ms) == KeyOnce(ms, Len(ms)) /\ \A i \in 1..Len(ms) : ms[i].fields # <<>> /\ AllStrings(ms[i].fields)

(* The map is read one finding at a time, each of them once.               *)
LEMMA MapRead ==
  ASSUME NEW ms, AsMembers(ms), NEW map0, DOMAIN map0 = {}, NEW k0, NEW f0, NEW v0, NEW d0
  PROVE  LET st == readTokens(State("key", map0, k0, f0, v0, d0), Members(Told(ms)))
         IN /\ Dead(st) \/ \E map, k, f, v, d : st = State("key", map, k, f, v, d) /\ Mapped(ms, Len(ms), map)
            /\ AllInOrder(ms) => ~Dead(st)
<1> DEFINE n == Len(ms)
           u == Told(ms)
           start == State("key", map0, k0, f0, v0, d0)
<1>1. /\ Written(u) /\ Len(u) = n /\ n \in Nat
      /\ \A i \in 1..n : AsMember(ms[i]) /\ u[i].key = ms[i].key /\ u[i].value = ToldValue(ms[i])
  BY ToldWritten
<1>2. PICK r : /\ r[0] = start
               /\ \A i \in 1..n : r[i] = readTokens(decode(r[i - 1], ms[i].key), ToldValue(ms[i]))
               /\ readTokens(start, Members(u)) = r[n]
  <2> HIDE DEF start, u, n
  <2>1. PICK r : /\ r[0] = start
                 /\ \A i \in 1..Len(u) : r[i] = readTokens(decode(r[i - 1], u[i].key), u[i].value)
                 /\ readTokens(start, Members(u)) = r[Len(u)]
    BY <1>1, MembersRead
  <2> QED  BY <1>1, <2>1
<1> DEFINE On(st, i) == \E map, k, f, v, d : st = State("key", map, k, f, v, d) /\ Mapped(ms, i, map)
           Good(i) == (Dead(r[i]) \/ On(r[i], i)) /\ (AllInOrder(ms) => ~Dead(r[i]))
           Bad == {i \in 1..n : ~Good(i)}
<1>3. Good(0)
  <2>1. 1..0 = {}  OBVIOUS
  <2>2. Mapped(ms, 0, map0)  BY <2>1 DEF Mapped, Keys, KeyOnce
  <2>3. On(r[0], 0)  BY <1>2, <2>2
  <2>4. ~Dead(r[0])  BY <1>2, AliveStates
  <2> QED  BY <2>3, <2>4
<1> HIDE DEF n, u, start
<1>4. ASSUME NEW i \in 1..n, Good(i - 1) PROVE Good(i)
  <2>1. r[i] = readTokens(decode(r[i - 1], ms[i].key), ToldValue(ms[i])) /\ AsMember(ms[i]) /\ ToldValue(ms[i]) \in Seq(Token)
    BY <1>1, <1>2, ToldInTokens
  <2>2. i \in Nat /\ i > 0 /\ 1..i = (1..(i - 1)) \cup {i} /\ i \notin 1..(i - 1) /\ 1..i \subseteq 1..n  BY <1>1
  <2>3. CASE Dead(r[i - 1])
    <3>1. decode(r[i - 1], ms[i].key) = r[i - 1]  BY <2>3, StaysDead
    <3>2. r[i] = r[i - 1]  BY <2>1, <2>3, <3>1, ReadStaysDead
    <3> QED  BY <1>4, <2>3, <3>2
  <2>4. CASE On(r[i - 1], i - 1)
    <3> DEFINE m == ms[i]
    <3>1. PICK map, k, f, v, d : r[i - 1] = State("key", map, k, f, v, d) /\ Mapped(ms, i - 1, map)  BY <2>4
    <3>2. /\ \/ Dead(r[i])
             \/ /\ m.key \notin DOMAIN map /\ AsMap(m)
                /\ \E w, g, w2, e : r[i] = State("key", Put(map, m.key, w), m.key, g, w2, e) /\ Said(m, w)
          /\ m.key \notin DOMAIN map /\ m.fields # <<>> /\ AllStrings(m.fields) => ~Dead(r[i])
      <4> HIDE DEF m
      <4>1. r[i] = readTokens(decode(r[i - 1], m.key), ToldValue(m)) /\ AsMember(m)  BY <2>1 DEF m
      <4> QED  BY <3>1, <4>1, MemberRead
    <3>3. m.key \notin DOMAIN map <=> \A j \in 1..(i - 1) : ms[j].key # m.key  BY <3>1 DEF Mapped, Keys
    <3>4. AllInOrder(ms) => ~Dead(r[i])
      <4> SUFFICES ASSUME AllInOrder(ms) PROVE ~Dead(r[i])  OBVIOUS
      <4>1. KeyOnce(ms, n) /\ m.fields # <<>> /\ AllStrings(m.fields)  BY <2>2 DEF AllInOrder, n
      <4>2. \A j \in 1..(i - 1) : ms[j].key # m.key  BY <2>2, <4>1 DEF KeyOnce
      <4> QED  BY <3>2, <3>3, <4>1, <4>2
    <3>5. ASSUME NEW w, m.key \notin DOMAIN map, AsMap(m), Said(m, w) PROVE Mapped(ms, i, Put(map, m.key, w))
      <4> DEFINE next == Put(map, m.key, w)
      <4>1. DOMAIN next = Keys(ms, i)  BY <2>2, <3>1 DEF Put, Mapped, Keys
      <4>2. KeyOnce(ms, i)  BY <2>2, <3>1, <3>3, <3>5 DEF KeyOnce, Mapped
      <4>3. ASSUME NEW j \in 1..i PROVE AsMap(ms[j]) /\ Said(ms[j], next[ms[j].key])
        <5>1. CASE j = i
          <6>1. next[m.key] = w  BY DEF Put
          <6> QED  BY <3>5, <5>1, <6>1
        <5>2. CASE j # i
          <6>1. j \in 1..(i - 1)  BY <2>2, <5>2
          <6>2. ms[j].key \in DOMAIN map /\ ms[j].key # m.key  BY <3>1, <3>3, <3>5, <6>1 DEF Mapped, Keys
          <6>3. next[ms[j].key] = map[ms[j].key]  BY <6>2 DEF Put
          <6>4. AsMap(ms[j]) /\ Said(ms[j], map[ms[j].key])  BY <3>1, <6>1 DEF Mapped
          <6> QED  BY <6>3, <6>4
        <5> QED  BY <5>1, <5>2
      <4> HIDE DEF next
      <4>4. Mapped(ms, i, next)  BY <4>1, <4>2, <4>3 DEF Mapped
      <4> QED  BY <4>4 DEF next
    <3>6. Dead(r[i]) \/ On(r[i], i)
      <4> HIDE DEF m
      <4> QED  BY <3>2, <3>5
    <3> QED  BY <3>4, <3>6
  <2> HIDE DEF On
  <2> QED  BY <1>4, <2>3, <2>4
<1>5. Bad = {}
  <2> SUFFICES ASSUME Bad # {} PROVE FALSE  OBVIOUS
  <2> HIDE DEF Good
  <2>1. PICK i \in Bad : \A j \in Bad : i <= j  BY <1>1, FirstPlace
  <2>2. i \in 1..n /\ ~Good(i)  OBVIOUS
  <2>3. i - 1 = 0 \/ (i - 1 \in 1..n /\ ~(i <= i - 1))  BY <1>1, <2>2
  <2>4. Good(i - 1)  BY <1>3, <2>1, <2>3
  <2> QED  BY <1>4, <2>2, <2>4
<1>6. Good(n)
  <2> HIDE DEF Good
  <2> QED  BY <1>1, <1>3, <1>5
<1> QED  BY <1>2, <1>6 DEF n, u, start

(* What is read to the end is one object of findings, with nothing around  *)
(* it, and each of them read once.                                         *)
LEMMA AnswerRead ==
  ASSUME NEW a, WellWritten(a)
  PROVE  LET st == decodeVerdictObject(Text(a))
         IN /\ st.at = "closed" => a.before = <<>> /\ a.after = <<EndBrace>> /\ Mapped(a.members, Len(a.members), st.map)
            /\ a.before = <<>> /\ a.after = <<EndBrace>> /\ AllInOrder(a.members) => st.at = "closed"
<1> DEFINE ms == a.members
           text == Members(Told(ms))
<1>1. /\ Text(a) = a.before \o <<Brace>> \o text \o a.after /\ AsMembers(ms)
      /\ a.before \in Seq(Token) /\ (a.before # <<>> => a.before[1] # Brace)
      /\ a.after \in Seq(Token) /\ (a.after # <<>> => a.after[1] = EndBrace \/ a.after[1] = Junk)
  BY AnswerParts, Zenon DEF Brace, EndBrace
<1>2. text \in Seq(Token)  BY <1>1, ToldWritten, MembersInTokens
<1>3. Brace \in Token /\ Brace # Junk /\ EndBrace # Junk  BY Delimiters DEF Token, Brace, EndBrace
<1>4. PICK none, map0 : none = NoVerdict /\ map0 = <<>>  OBVIOUS
<1>5. Unread = State("start", map0, Junk, Junk, none, 0) /\ DOMAIN map0 = {}
  <2>1. Unread = State("start", map0, Junk, Junk, none, 0)  BY <1>4, Zenon DEF Unread, State
  <2> QED  BY <1>4, <2>1
<1> HIDE DEF ms, text
<1> DEFINE r1 == readTokens(Unread, a.before)
           r2 == decode(r1, Brace)
           r3 == readTokens(r2, text)
           r4 == readTokens(r3, a.after)
<1>6. decodeVerdictObject(Text(a)) = r4
  <2>1. PICK one, t1, t2 : one = <<Brace>> /\ t1 = a.before \o one /\ t2 = t1 \o text  OBVIOUS
  <2>2. one \in Seq(Token)  BY <1>3, <2>1
  <2>3. t1 \in Seq(Token)  BY <1>1, <2>1, <2>2, ConcatProperties
  <2>4. t2 \in Seq(Token)  BY <1>2, <2>1, <2>3, ConcatProperties
  <2>5. readTokens(Unread, t2 \o a.after) = readTokens(readTokens(Unread, t2), a.after)  BY <1>1, <2>4, ReadConcat
  <2>6. readTokens(Unread, t2) = readTokens(readTokens(Unread, t1), text)  BY <1>2, <2>1, <2>3, ReadConcat, ZenonT(60)
  <2>7. readTokens(Unread, t1) = readTokens(r1, one)  BY <1>1, <2>1, <2>2, ReadConcat
  <2>8. readTokens(r1, one) = r2  BY <2>1, ReadOne
  <2>9. Text(a) = t2 \o a.after  BY <1>1, <2>1, Zenon
  <2> QED  BY <2>5, <2>6, <2>7, <2>8, <2>9 DEF decodeVerdictObject
<1>7. a.before # <<>> => Dead(r4)
  <2> SUFFICES ASSUME a.before # <<>> PROVE Dead(r4)  OBVIOUS
  <2>1. PICK g : Reads(g, Unread, a.before) /\ r1 = g[Len(a.before)]  BY <1>1, ReadSteps
  <2>2. Len(a.before) \in Nat /\ Len(a.before) > 0  BY <1>1, EmptySeq
  <2>3. g[1] = decode(Unread, a.before[1])
    <3>1. 1 \in 1..Len(a.before) /\ 1 - 1 = 0  BY <2>2
    <3>2. g[1] = decode(g[1 - 1], a.before[1]) /\ g[0] = Unread  BY <2>1, <3>1 DEF Reads
    <3> QED  BY <3>1, <3>2
  <2>4. decode(Unread, a.before[1]) = State("failed", map0, Junk, Junk, none, 0)
    <3>1. CASE a.before[1] = Junk  BY <1>5, <3>1, StaysDead
    <3>2. CASE a.before[1] # Junk  BY <1>1, <1>5, <3>2, DecodeSteps
    <3> QED  BY <3>1, <3>2
  <2>5. Dead(g[1]) /\ 1 \in 0..Len(a.before)  BY <2>2, <2>3, <2>4, AliveStates
  <2>6. Dead(r1)  BY <1>1, <2>1, <2>5, DeadFrom
  <2> HIDE DEF r1
  <2>7. r2 = r1  BY <2>6, StaysDead
  <2> HIDE DEF r2
  <2>8. r3 = r2  BY <1>2, <2>6, <2>7, ReadStaysDead
  <2> HIDE DEF r3
  <2> QED  BY <1>1, <2>6, <2>7, <2>8, ReadStaysDead
<1>8. a.before = <<>> => r2 = State("key", map0, Junk, Junk, none, 0)
  <2> SUFFICES ASSUME a.before = <<>> PROVE r2 = State("key", map0, Junk, Junk, none, 0)  OBVIOUS
  <2>1. r1 = Unread  BY ReadNothing
  <2> HIDE DEF r1
  <2> QED  BY <1>3, <1>5, <2>1, DecodeSteps
<1> HIDE DEF r2
<1>9. a.before = <<>> =>
        /\ Dead(r3) \/ \E map, k, f, v, d : r3 = State("key", map, k, f, v, d) /\ Mapped(ms, Len(ms), map)
        /\ AllInOrder(ms) => ~Dead(r3)
  BY <1>1, <1>5, <1>8, MapRead DEF text
<1> HIDE DEF r3
<1>10. Dead(r3) => Dead(r4)  BY <1>1, ReadStaysDead
<1>11. ASSUME NEW map, NEW k, NEW f, NEW v, NEW d, r3 = State("key", map, k, f, v, d)
       PROVE  /\ r4.at = "closed" => a.after = <<EndBrace>> /\ r4.map = map
              /\ a.after = <<EndBrace>> => r4.at = "closed"
  <2>1. PICK g : Reads(g, r3, a.after) /\ r4 = g[Len(a.after)]  BY <1>1, ReadSteps
  <2>2. Len(a.after) \in Nat /\ g[0] = r3 /\ \A i \in 1..Len(a.after) : g[i] = decode(g[i - 1], a.after[i])  BY <1>1, <2>1, LenProperties DEF Reads
  <2>3. \A t : t # Junk => decode(State("closed", map, k, f, v, d), t) = State("failed", map, k, f, v, d)  BY DecodeSteps
  <2>4. decode(r3, EndBrace) = State("closed", map, k, f, v, d)  BY <1>3, <1>11, DecodeSteps
  <2>5. decode(r3, Junk) = State("failed", map, k, f, v, d) /\ decode(State("closed", map, k, f, v, d), Junk) = State("failed", map, k, f, v, d)
    BY <1>11, StaysDead
  <2> HIDE DEF r4
  <2>6. CASE a.after = <<>>
    <3>1. r4 = r3  BY <2>1, <2>2, <2>6, EmptySeq
    <3>2. r4.at = "key"  BY <1>11, <3>1, StateParts
    <3>3. a.after # <<EndBrace>>
      <4>1. <<EndBrace>> # <<>>  OBVIOUS
      <4> QED  BY <2>6, <4>1, Zenon
    <3> QED  BY <3>2, <3>3
  <2>7. CASE a.after # <<>> /\ a.after[1] = Junk
    <3>1. 1 \in 1..Len(a.after) /\ 1 - 1 = 0 /\ 1 \in 0..Len(a.after)  BY <1>1, <2>2, <2>7, EmptySeq
    <3>2. g[1] = decode(r3, Junk)  BY <2>2, <2>7, <3>1
    <3>3. Dead(g[1])  BY <2>5, <3>2, AliveStates
    <3>4. Dead(r4)  BY <1>1, <2>1, <3>1, <3>3, DeadFrom
    <3>5. r4.at = "failed"  BY <3>4, AliveStates
    <3>6. a.after # <<EndBrace>>
      <4>1. <<EndBrace>>[1] = EndBrace  OBVIOUS
      <4> QED  BY <1>3, <2>7, <4>1, Zenon
    <3> QED  BY <3>5, <3>6
  <2>8. CASE a.after # <<>> /\ a.after[1] = EndBrace
    <3>1. 1 \in 1..Len(a.after) /\ 1 - 1 = 0  BY <1>1, <2>2, <2>8, EmptySeq
    <3>2. g[1] = State("closed", map, k, f, v, d)  BY <2>2, <2>4, <2>8, <3>1
    <3>3. CASE Len(a.after) = 1
      <4>1. r4 = State("closed", map, k, f, v, d)  BY <2>1, <3>2, <3>3
      <4>2. a.after = <<a.after[1]>>  BY <1>1, <3>3
      <4>3. a.after = <<EndBrace>>  BY <2>8, <4>2, Zenon
      <4>4. r4.at = "closed" /\ r4.map = map  BY <4>1, StateParts
      <4> QED  BY <4>3, <4>4
    <3>4. CASE Len(a.after) # 1
      <4>1. 2 \in 1..Len(a.after) /\ 2 - 1 = 1 /\ 2 \in 0..Len(a.after)
        <5>1. PICK n \in Nat : n = Len(a.after)  BY <2>2
        <5>2. 1 \in 1..n /\ n # 1  BY <3>1, <3>4, <5>1
        <5>3. 2 \in 1..n /\ 2 - 1 = 1 /\ 2 \in 0..n  BY <5>2
        <5> QED  BY <5>1, <5>3
      <4>2. g[2] = decode(g[1], a.after[2])
        <5>1. g[2] = decode(g[2 - 1], a.after[2])  BY <2>2, <4>1
        <5> QED  BY <4>1, <5>1
      <4>3. g[2] = State("failed", map, k, f, v, d)
        <5>1. CASE a.after[2] = Junk  BY <2>5, <3>2, <4>2, <5>1
        <5>2. CASE a.after[2] # Junk  BY <2>3, <3>2, <4>2, <5>2
        <5> QED  BY <5>1, <5>2
      <4>4. Dead(g[2])  BY <4>3, AliveStates
      <4>5. Dead(r4)  BY <1>1, <2>1, <4>1, <4>4, DeadFrom
      <4>6. r4.at = "failed"  BY <4>5, AliveStates
      <4>7. a.after # <<EndBrace>>
        <5>1. Len(<<EndBrace>>) = 1  OBVIOUS
        <5> QED  BY <3>4, <5>1, Zenon
      <4> QED  BY <4>6, <4>7
    <3> QED  BY <3>3, <3>4
  <2> QED  BY <1>1, <2>6, <2>7, <2>8
<1> HIDE DEF r4
<1>12. Dead(r4) => r4.at = "failed"  BY AliveStates
<1>13. r4.at = "closed" => a.before = <<>> /\ a.after = <<EndBrace>> /\ Mapped(ms, Len(ms), r4.map)
  <2> SUFFICES ASSUME r4.at = "closed" PROVE a.before = <<>> /\ a.after = <<EndBrace>> /\ Mapped(ms, Len(ms), r4.map)  OBVIOUS
  <2>1. ~Dead(r4)  BY <1>12
  <2>2. a.before = <<>> /\ ~Dead(r3)  BY <1>7, <1>10, <2>1
  <2>3. PICK map, k, f, v, d : r3 = State("key", map, k, f, v, d) /\ Mapped(ms, Len(ms), map)  BY <1>9, <2>2
  <2>4. a.after = <<EndBrace>> /\ r4.map = map  BY <1>11, <2>3
  <2> QED  BY <2>2, <2>3, <2>4
<1>14. a.before = <<>> /\ a.after = <<EndBrace>> /\ AllInOrder(ms) => r4.at = "closed"  BY <1>9, <1>11
<1> QED  BY <1>6, <1>13, <1>14 DEF ms

(* The verdict of a finding in a pass: insufficient unless all was read. *)
Readable(text) == ensureNoDuplicateKeys(text) /\ decodeVerdictObject(text).at = "closed" /\ DOMAIN decodeVerdictObject(text).map \subseteq Ids

LEMMA PassOf ==
  ASSUME NEW a, NEW i \in 1..Findings
  PROVE  LET text == stripCodeFence(a)
             map == decodeVerdictObject(text).map
             id == findingID[i]
         IN /\ Readable(text) /\ id \in DOMAIN map /\ knownVerdict(map[id]) => parsePass(a)[i] = map[id]
            /\ ~(Readable(text) /\ id \in DOMAIN map /\ knownVerdict(map[id])) => parsePass(a)[i] = "insufficient"
<1> DEFINE text == stripCodeFence(a)
           map == decodeVerdictObject(text).map
<1>1. CASE Readable(text)
  <2>1. parsePass(a) = [k \in 1..Findings |->
                          IF findingID[k] \in DOMAIN map /\ knownVerdict(map[findingID[k]]) THEN map[findingID[k]] ELSE "insufficient"]
    BY <1>1, Zenon DEF parsePass, Readable
  <2> HIDE DEF map
  <2> QED  BY <1>1, <2>1, Zenon DEF map
<1>2. CASE ~Readable(text)
  <2>1. parsePass(a) = degradedPass  BY <1>2, Zenon DEF parsePass, Readable
  <2>2. parsePass(a)[i] = "insufficient"  BY <2>1 DEF degradedPass
  <2> QED  BY <1>2, <2>2, Zenon
<1> QED  BY <1>1, <1>2, Zenon

(* The text of an answer is one of tokens. *)
LEMMA TextInTokens ==
  ASSUME NEW a, WellWritten(a)
  PROVE  Text(a) \in Seq(Token)
<1>1. /\ Text(a) = a.before \o <<Brace>> \o Members(Told(a.members)) \o a.after /\ AsMembers(a.members)
      /\ a.before \in Seq(Token) /\ a.after \in Seq(Token)
  BY AnswerParts, Zenon DEF Brace
<1>2. Members(Told(a.members)) \in Seq(Token)  BY <1>1, ToldWritten, MembersInTokens
<1>3. Brace \in Token  BY Delimiters DEF Token, Brace
<1>4. PICK one, t1, t2, inner : /\ one = <<Brace>> /\ t1 = a.before \o one /\ t2 = t1 \o inner /\ inner = Members(Told(a.members))
  OBVIOUS
<1>5. one \in Seq(Token)  BY <1>3, <1>4
<1>6. t1 \in Seq(Token)  BY <1>1, <1>4, <1>5, ConcatProperties
<1>7. t2 \in Seq(Token)  BY <1>2, <1>4, <1>6, ConcatProperties
<1>8. t2 \o a.after \in Seq(Token)  BY <1>1, <1>7, ConcatProperties
<1> QED  BY <1>1, <1>4, <1>8, Zenon

(* A fence that is not taken off leaves a text that is no JSON. *)
LEMMA FenceSpoils ==
  ASSUME NEW a, WellWritten(a), a.fence \notin {"none", "bare", "json"}
  PROVE  decodeVerdictObject(stripCodeFence(a)).at # "closed"
<1>1. PICK one, text : one = <<Junk>> /\ text = Text(a) /\ stripCodeFence(a) = one \o text  BY Zenon DEF stripCodeFence
<1>2. one \in Seq(Token)
  <2>1. Junk \in Token  BY DEF Token
  <2> QED  BY <1>1, <2>1
<1>3. text \in Seq(Token)  BY <1>1, TextInTokens
<1>4. readTokens(Unread, one \o text) = readTokens(readTokens(Unread, one), text)  BY <1>2, <1>3, ReadConcat
<1>5. readTokens(Unread, one) = decode(Unread, Junk)  BY <1>1, ReadOne
<1>6. PICK none, map0 : Unread = State("start", map0, Junk, Junk, none, 0)
  <2>1. PICK none, map0 : none = NoVerdict /\ map0 = <<>>  OBVIOUS
  <2> QED  BY <2>1, Zenon DEF Unread, State
<1>7. decode(Unread, Junk) = State("failed", map0, Junk, Junk, none, 0)  BY <1>6, StaysDead
<1>8. Dead(decode(Unread, Junk))  BY <1>7, AliveStates
<1>9. PICK dead : dead = decode(Unread, Junk) /\ Dead(dead)  BY <1>8
<1>10. readTokens(dead, text) = dead  BY <1>3, <1>9, ReadStaysDead
<1>11. decodeVerdictObject(stripCodeFence(a)) = dead  BY <1>1, <1>4, <1>5, <1>9, <1>10 DEF decodeVerdictObject
<1>12. dead.at = "failed"  BY <1>9, AliveStates
<1> QED  BY <1>11, <1>12

(* All that an answer gives a finding is what its one member gives. *)
LEMMA GivenOnce ==
  ASSUME NEW a, WellWritten(a), Keys(a.members, Len(a.members)) \subseteq Ids, KeyOnce(a.members, Len(a.members)),
         NEW n \in 1..Len(a.members)
  PROVE  Given(a, a.members[n].key) = {f.value : f \in {g \in Range(a.members[n].fields) : IsVerdict(g.key)}}
<1> DEFINE ms == a.members
           Verdict(m) == {f.value : f \in {g \in Range(m.fields) : ToLower(g.key) = "verdict"}}
<1>1. ms \in Seq(Range(ms))  BY DEF WellWritten
<1>2. DOMAIN ms = 1..Len(ms)  BY <1>1, LenProperties
<1>3. ASSUME NEW m \in Range(ms), ToLower(m.key) = ms[n].key PROVE m = ms[n]
  <2>1. PICK j \in 1..Len(ms) : m = ms[j]  BY <1>2 DEF Range
  <2>2. m.key \in Ids  BY <2>1 DEF Keys
  <2>3. ToLower(m.key) = m.key  BY <2>2, ToLowerAssumption
  <2> QED  BY <1>3, <2>1, <2>3 DEF KeyOnce
<1>4. ms[n] \in Range(ms) /\ ToLower(ms[n].key) = ms[n].key
  <2>1. ms[n] \in Range(ms)  BY <1>2 DEF Range
  <2>2. ms[n].key \in Ids  BY DEF Keys
  <2> QED  BY <2>1, <2>2, ToLowerAssumption
<1>5. {m \in Range(ms) : ToLower(m.key) = ms[n].key} = {ms[n]}  BY <1>3, <1>4
<1> HIDE DEF ms, Verdict
<1>6. Given(a, ms[n].key) = UNION {Verdict(m) : m \in {o \in Range(ms) : ToLower(o.key) = ms[n].key}}  BY Zenon DEF Given, ms, Verdict
<1>7. Given(a, ms[n].key) = Verdict(ms[n])  BY <1>5, <1>6
<1> QED  BY <1>7, Zenon DEF ms, Verdict, IsVerdict

(* What a pass takes for confirmed was given so, in an answer that is one  *)
(* object of asked findings and nothing else.                              *)
Alone(a) == a.before = <<>> /\ a.after = <<EndBrace>> /\ a.fence \in {"none", "bare", "json"}

(* When the whole of an answer is read, and what is read of it then.       *)
LEMMA ReadableText ==
  ASSUME NEW a, WellWritten(a)
  PROVE  /\ Readable(stripCodeFence(a)) =>
              /\ Alone(a) /\ Mapped(a.members, Len(a.members), decodeVerdictObject(stripCodeFence(a)).map)
              /\ \A n \in 1..Len(a.members) : LowerOnce(a.members[n].fields, Len(a.members[n].fields))
              /\ Keys(a.members, Len(a.members)) \subseteq Ids
         /\ /\ Alone(a) /\ AllInOrder(a.members) /\ LowerOnce(a.members, Len(a.members)) /\ Keys(a.members, Len(a.members)) \subseteq Ids
            /\ \A n \in 1..Len(a.members) : LowerOnce(a.members[n].fields, Len(a.members[n].fields)) /\ AllText(a.members[n].fields)
            => Readable(stripCodeFence(a)) /\ Mapped(a.members, Len(a.members), decodeVerdictObject(stripCodeFence(a)).map)
<1> DEFINE ms == a.members
           text == stripCodeFence(a)
           st == decodeVerdictObject(Text(a))
           told == <<Brace>> \o Members(Told(ms)) \o <<EndBrace>>
<1>1. /\ st.at = "closed" => a.before = <<>> /\ a.after = <<EndBrace>> /\ Mapped(ms, Len(ms), st.map)
      /\ a.before = <<>> /\ a.after = <<EndBrace>> /\ AllInOrder(ms) => st.at = "closed"
  BY AnswerRead
<1>2. /\ AsMembers(ms)
      /\ a.before = <<>> /\ a.after = <<EndBrace>> => Text(a) = told
  <2>1. Text(a) = a.before \o <<Brace>> \o Members(Told(ms)) \o a.after /\ AsMembers(ms)  BY AnswerParts, Zenon DEF Brace
  <2>2. <<>> \o <<Brace>> = <<Brace>>  OBVIOUS
  <2>3. ASSUME a.before = <<>>, a.after = <<EndBrace>> PROVE Text(a) = told
    <3>1. Text(a) = <<>> \o <<Brace>> \o Members(Told(ms)) \o <<EndBrace>>  BY <2>1, <2>3, Zenon
    <3> QED  BY <2>2, <3>1, Zenon
  <2> HIDE DEF told
  <2> QED  BY <2>1, <2>3
<1>3. ASSUME \A n \in 1..Len(ms) : AsMap(ms[n])
      PROVE  /\ ensureNoDuplicateKeys(told) => \A n \in 1..Len(ms) : LowerOnce(ms[n].fields, Len(ms[n].fields))
             /\ LowerOnce(ms, Len(ms)) /\ (\A n \in 1..Len(ms) : ms[n].fields # <<>> /\ LowerOnce(ms[n].fields, Len(ms[n].fields)) /\ AllText(ms[n].fields))
                  => ensureNoDuplicateKeys(told)
  <2> HIDE DEF ms
  <2> QED  BY <1>2, <1>3, AnswerWalk, Zenon DEF Brace, EndBrace
<1>4. a.fence \in {"none", "bare", "json"} => text = Text(a)  BY Zenon DEF stripCodeFence
<1>5. decodeVerdictObject(text).at = "closed" => a.fence \in {"none", "bare", "json"}  BY FenceSpoils
<1> HIDE DEF text, st, told, ms
<1>6. Readable(text) =>
        /\ Alone(a) /\ Mapped(ms, Len(ms), decodeVerdictObject(text).map)
        /\ \A n \in 1..Len(ms) : LowerOnce(ms[n].fields, Len(ms[n].fields))
        /\ Keys(ms, Len(ms)) \subseteq Ids
  <2> SUFFICES ASSUME Readable(text)
               PROVE  /\ Alone(a) /\ Mapped(ms, Len(ms), decodeVerdictObject(text).map)
                      /\ \A n \in 1..Len(ms) : LowerOnce(ms[n].fields, Len(ms[n].fields))
                      /\ Keys(ms, Len(ms)) \subseteq Ids
    OBVIOUS
  <2>1. a.fence \in {"none", "bare", "json"} /\ text = Text(a) /\ decodeVerdictObject(text) = st
    <3>1. a.fence \in {"none", "bare", "json"}  BY <1>5 DEF Readable
    <3> QED  BY <1>4, <3>1, Zenon DEF st
  <2>2. st.at = "closed" /\ DOMAIN st.map \subseteq Ids /\ ensureNoDuplicateKeys(text)  BY <2>1, Zenon DEF Readable
  <2>3. a.before = <<>> /\ a.after = <<EndBrace>> /\ Mapped(ms, Len(ms), st.map)  BY <1>1, <2>2
  <2>4. text = told  BY <1>2, <2>1, <2>3
  <2>5. \A n \in 1..Len(ms) : AsMap(ms[n])  BY <2>3 DEF Mapped
  <2>6. \A n \in 1..Len(ms) : LowerOnce(ms[n].fields, Len(ms[n].fields))  BY <1>3, <2>2, <2>4, <2>5
  <2>7. Keys(ms, Len(ms)) \subseteq Ids  BY <2>2, <2>3 DEF Mapped
  <2> QED  BY <2>1, <2>3, <2>6, <2>7, Zenon DEF Alone
<1>7. /\ Alone(a) /\ AllInOrder(ms) /\ LowerOnce(ms, Len(ms)) /\ Keys(ms, Len(ms)) \subseteq Ids
      /\ \A n \in 1..Len(ms) : LowerOnce(ms[n].fields, Len(ms[n].fields)) /\ AllText(ms[n].fields)
      => Readable(text) /\ Mapped(ms, Len(ms), decodeVerdictObject(text).map)
  <2> SUFFICES ASSUME Alone(a), AllInOrder(ms), LowerOnce(ms, Len(ms)), Keys(ms, Len(ms)) \subseteq Ids,
                      \A n \in 1..Len(ms) : LowerOnce(ms[n].fields, Len(ms[n].fields)) /\ AllText(ms[n].fields)
               PROVE  Readable(text) /\ Mapped(ms, Len(ms), decodeVerdictObject(text).map)
    OBVIOUS
  <2>1. a.before = <<>> /\ a.after = <<EndBrace>> /\ text = Text(a) /\ decodeVerdictObject(text) = st
    BY <1>4, Zenon DEF Alone, st
  <2>2. st.at = "closed" /\ Mapped(ms, Len(ms), st.map)  BY <1>1, <2>1
  <2>3. \A n \in 1..Len(ms) : AsMap(ms[n]) /\ ms[n].fields # <<>>  BY <2>2 DEF Mapped, AllInOrder
  <2>4. ensureNoDuplicateKeys(told)  BY <1>3, <2>3
  <2>5. text = told  BY <1>2, <2>1
  <2>6. DOMAIN st.map \subseteq Ids  BY <2>2 DEF Mapped
  <2> QED  BY <2>1, <2>2, <2>4, <2>5, <2>6, Zenon DEF Readable
<1> QED  BY <1>6, <1>7, Zenon DEF text, ms

(* The verdict of a finding, from what its member gives. *)
LEMMA ParsedRight ==
  ASSUME NEW a, WellWritten(a), NEW i \in 1..Findings
  PROVE  /\ parsePass(a)[i] = "confirmed" =>
              Alone(a) /\ Given(a, findingID[i]) = {<<"confirmed">>} /\ \A m \in Range(a.members) : m.key \in Ids
         /\ InOrder(a) /\ Given(a, findingID[i]) = {<<"refuted">>} => parsePass(a)[i] = "refuted"
<1> DEFINE ms == a.members
           text == stripCodeFence(a)
           map == decodeVerdictObject(text).map
           id == findingID[i]
           Verdict(n) == {f.value : f \in {g \in Range(ms[n].fields) : IsVerdict(g.key)}}
<1>1. /\ Readable(text) =>
           /\ Alone(a) /\ Mapped(ms, Len(ms), map)
           /\ \A n \in 1..Len(ms) : LowerOnce(ms[n].fields, Len(ms[n].fields))
           /\ Keys(ms, Len(ms)) \subseteq Ids
      /\ /\ Alone(a) /\ AllInOrder(ms) /\ LowerOnce(ms, Len(ms)) /\ Keys(ms, Len(ms)) \subseteq Ids
         /\ \A n \in 1..Len(ms) : LowerOnce(ms[n].fields, Len(ms[n].fields)) /\ AllText(ms[n].fields)
         => Readable(text) /\ Mapped(ms, Len(ms), map)
  BY ReadableText
<1>2. /\ Readable(text) /\ id \in DOMAIN map /\ knownVerdict(map[id]) => parsePass(a)[i] = map[id]
      /\ ~(Readable(text) /\ id \in DOMAIN map /\ knownVerdict(map[id])) => parsePass(a)[i] = "insufficient"
  BY PassOf
<1>3. /\ ms \in Seq(Range(ms)) /\ DOMAIN ms = 1..Len(ms)
      /\ \A n \in 1..Len(ms) : /\ ms[n].fields \in Seq(Range(ms[n].fields)) /\ DOMAIN ms[n].fields = 1..Len(ms[n].fields)
                               /\ ms[n].fields # <<>> => \A j \in 1..Len(ms[n].fields) : ms[n].fields[j].value \in Seq(STRING)
  <2>1. ms \in Seq(Range(ms)) /\ DOMAIN ms = 1..Len(ms)  BY LenProperties DEF WellWritten
  <2>2. ASSUME NEW n \in 1..Len(ms)
        PROVE  /\ ms[n].fields \in Seq(Range(ms[n].fields)) /\ DOMAIN ms[n].fields = 1..Len(ms[n].fields)
               /\ ms[n].fields # <<>> => \A j \in 1..Len(ms[n].fields) : ms[n].fields[j].value \in Seq(STRING)
    <3>1. PICK m \in Range(ms) : m = ms[n]  BY <2>1 DEF Range
    <3>2. m.fields \in Seq(Range(m.fields))  BY <3>1 DEF WellWritten
    <3>3. DOMAIN m.fields = 1..Len(m.fields)  BY <3>2, LenProperties
    <3>4. m.fields # <<>> => \A f \in Range(m.fields) : JSONValue(f.value)  BY <3>1 DEF WellWritten
    <3>5. m.fields # <<>> => \A j \in 1..Len(m.fields) : m.fields[j].value \in Seq(STRING)
      BY <3>3, <3>4 DEF JSONValue, Range
    <3> QED  BY <3>1, <3>2, <3>3, <3>5
  <2> QED  BY <2>1, <2>2
<1>4. ASSUME NEW n \in 1..Len(ms), Keys(ms, Len(ms)) \subseteq Ids, KeyOnce(ms, Len(ms)) PROVE Given(a, ms[n].key) = Verdict(n)
  BY <1>4, GivenOnce
<1>5. Keys(ms, Len(ms)) = {m.key : m \in Range(ms)}  BY <1>3 DEF Keys, Range
<1> HIDE DEF ms, text, map
<1>6. parsePass(a)[i] = "confirmed" => Alone(a) /\ Given(a, id) = {<<"confirmed">>} /\ \A m \in Range(ms) : m.key \in Ids
  <2> SUFFICES ASSUME parsePass(a)[i] = "confirmed"
               PROVE  Alone(a) /\ Given(a, id) = {<<"confirmed">>} /\ \A m \in Range(ms) : m.key \in Ids
    OBVIOUS
  <2>1. Readable(text) /\ id \in DOMAIN map /\ map[id] = "confirmed"  BY <1>2
  <2>2. /\ Alone(a) /\ Mapped(ms, Len(ms), map) /\ Keys(ms, Len(ms)) \subseteq Ids
        /\ \A n \in 1..Len(ms) : LowerOnce(ms[n].fields, Len(ms[n].fields))
    BY <1>1, <2>1
  <2>3. PICK n \in 1..Len(ms) : ms[n].key = id  BY <2>1, <2>2 DEF Mapped, Keys
  <2> DEFINE fs == ms[n].fields
  <2>4. Said(ms[n], "confirmed")  BY <2>1, <2>2, <2>3 DEF Mapped
  <2>5. "confirmed" # NoVerdict  BY Zenon DEF NoVerdict
  <2>6. fs # <<>> /\ Heard(fs, Len(fs), "confirmed")  BY <2>4, <2>5 DEF Said
  <2>7. PICK j \in 1..Len(fs) : IsVerdict(fs[j].key) /\ Len(fs[j].value) = 1 /\ fs[j].value[1] = "confirmed"  BY <2>5, <2>6 DEF Heard
  <2>8. fs[j].value = <<"confirmed">>
    <3>1. fs[j].value \in Seq(STRING)  BY <1>3, <2>6
    <3> QED  BY <2>7, <3>1
  <2>9. DOMAIN fs = 1..Len(fs) /\ LowerOnce(fs, Len(fs))  BY <1>3, <2>2
  <2> HIDE DEF fs
  <2>10. {g \in Range(fs) : IsVerdict(g.key)} = {fs[j]}
    <3>1. fs[j] \in Range(fs) /\ IsVerdict(fs[j].key)  BY <2>7, <2>9 DEF Range
    <3>2. ASSUME NEW g \in Range(fs), IsVerdict(g.key) PROVE g = fs[j]
      <4>1. PICK l \in 1..Len(fs) : g = fs[l]  BY <2>9 DEF Range
      <4>2. l = j  BY <2>7, <2>9, <3>2, <4>1 DEF LowerOnce, IsVerdict
      <4> QED  BY <4>1, <4>2
    <3> QED  BY <3>1, <3>2
  <2>11. Verdict(n) = {<<"confirmed">>}
    <3>1. {f.value : f \in {fs[j]}} = {fs[j].value}  OBVIOUS
    <3> QED  BY <2>8, <2>10, <3>1, Zenon DEF fs
  <2>12. Given(a, ms[n].key) = Verdict(n)  BY <1>4, <2>2 DEF Mapped
  <2>13. \A m \in Range(ms) : m.key \in Ids  BY <1>5, <2>2
  <2> QED  BY <2>2, <2>3, <2>11, <2>12, <2>13, Zenon
<1>7. InOrder(a) /\ Given(a, id) = {<<"refuted">>} => parsePass(a)[i] = "refuted"
  <2> SUFFICES ASSUME InOrder(a), Given(a, id) = {<<"refuted">>} PROVE parsePass(a)[i] = "refuted"  OBVIOUS
  <2>1. /\ Whole(a) /\ OnceEach(ms)
        /\ \A n \in 1..Len(ms) : /\ ms[n].key \in Ids /\ ms[n].fields # <<>> /\ OnceEach(ms[n].fields)
                                 /\ \A f \in Range(ms[n].fields) : f.key \in {"verdict", "justification"} /\ Len(f.value) = 1 /\ f.value[1] \notin NotStrings
    BY <1>3 DEF InOrder, ms, Range
  <2>2. Alone(a)  BY <2>1, Zenon DEF Whole, Alone, EndBrace
  <2>3. Keys(ms, Len(ms)) \subseteq Ids /\ KeyOnce(ms, Len(ms))
    <3>1. Keys(ms, Len(ms)) \subseteq Ids  BY <2>1 DEF Keys
    <3>2. OnceEach(ms) /\ DOMAIN ms = 1..Len(ms)  BY <1>3, <2>1
    <3>3. KeyOnce(ms, Len(ms))  BY <3>2, Zenon DEF KeyOnce, OnceEach
    <3> QED  BY <3>1, <3>3
  <2>4. \A n \in 1..Len(ms) : ToLower(ms[n].key) = ms[n].key  BY <2>1, ToLowerAssumption
  <2>5. LowerOnce(ms, Len(ms))  BY <2>3, <2>4 DEF LowerOnce, KeyOnce
  <2>6. ASSUME NEW n \in 1..Len(ms)
        PROVE  LET fs == ms[n].fields
               IN /\ fs # <<>> /\ AllStrings(fs) /\ AllText(fs) /\ LowerOnce(fs, Len(fs)) /\ DOMAIN fs = 1..Len(fs)
                  /\ \A j \in 1..Len(fs) : fs[j].value \in Seq(STRING)
    <3> DEFINE fs == ms[n].fields
    <3>1. /\ fs # <<>> /\ OnceEach(fs) /\ DOMAIN fs = 1..Len(fs)
          /\ \A f \in Range(fs) : f.key \in {"verdict", "justification"} /\ Len(f.value) = 1 /\ f.value[1] \notin NotStrings
          /\ \A j \in 1..Len(fs) : fs[j].value \in Seq(STRING)
      BY <1>3, <2>1
    <3> HIDE DEF fs
    <3>2. \A j \in 1..Len(fs) : fs[j].key \in {"verdict", "justification"} /\ Len(fs[j].value) = 1 /\ fs[j].value[1] \notin NotStrings
      BY <3>1 DEF Range
    <3>3. \A j \in 1..Len(fs) : ToLower(fs[j].key) = fs[j].key  BY <3>2, ToLowerAssumption
    <3>4. LowerOnce(fs, Len(fs))  BY <3>1, <3>3, ZenonT(60) DEF LowerOnce, OnceEach
    <3>5. AllStrings(fs) /\ AllText(fs)  BY <3>2 DEF AllStrings, AllText
    <3> QED  BY <3>1, <3>4, <3>5 DEF fs
  <2>7. AllInOrder(ms)  BY <2>3, <2>6 DEF AllInOrder
  <2>8. Readable(text) /\ Mapped(ms, Len(ms), map)  BY <1>1, <2>2, <2>3, <2>5, <2>6, <2>7
  <2>9. PICK n \in 1..Len(ms) : ms[n].key = id
    <3>1. PICK m \in Range(ms) : ToLower(m.key) = id  BY DEF Given, ms
    <3>2. PICK n \in 1..Len(ms) : m = ms[n]  BY <1>3, <3>1 DEF Range
    <3> QED  BY <2>4, <3>1, <3>2
  <2> DEFINE fs == ms[n].fields
  <2>10. /\ fs # <<>> /\ AllStrings(fs) /\ DOMAIN fs = 1..Len(fs) /\ \A j \in 1..Len(fs) : fs[j].value \in Seq(STRING)
    BY <2>6
  <2>11. Verdict(n) = {<<"refuted">>}  BY <1>4, <2>3, <2>9
  <2>12. id \in DOMAIN map /\ Said(ms[n], map[id])  BY <2>8, <2>9 DEF Mapped, Keys
  <2>13. {f.value : f \in {g \in Range(fs) : IsVerdict(g.key)}} = {<<"refuted">>}  BY <2>11
  <2>14. Heard(fs, Len(fs), map[id])  BY <2>10, <2>12 DEF Said
  <2> HIDE DEF fs
  <2>15. PICK j \in 1..Len(fs) : IsVerdict(fs[j].key) /\ fs[j].value = <<"refuted">>
    <3>1. PICK f \in Range(fs) : IsVerdict(f.key) /\ f.value = <<"refuted">>  BY <2>13
    <3>2. PICK j \in 1..Len(fs) : f = fs[j]  BY <2>10, <3>1 DEF Range
    <3> QED  BY <3>1, <3>2
  <2>16. fs[j].value[1] # "null"  BY <2>10, <2>15 DEF AllStrings, NotStrings
  <2>17. PICK l \in 1..Len(fs) : IsVerdict(fs[l].key) /\ Len(fs[l].value) = 1 /\ fs[l].value[1] = map[id]  BY <2>14, <2>15, <2>16 DEF Heard
  <2>18. fs[l].value = <<"refuted">>
    <3>1. fs[l] \in Range(fs)  BY <2>10, <2>17 DEF Range
    <3>2. fs[l].value \in {f.value : f \in {g \in Range(fs) : IsVerdict(g.key)}}  BY <2>17, <3>1
    <3> QED  BY <2>13, <3>2
  <2>19. map[id] = "refuted"  BY <2>17, <2>18
  <2>20. knownVerdict(map[id])  BY <2>19 DEF knownVerdict
  <2> QED  BY <1>2, <2>8, <2>12, <2>19, <2>20
<1> QED  BY <1>6, <1>7, Zenon DEF ms

-----------------------------------------------------------------------------
VerdictSpec == VerdictInit /\ [][VerdictNext]_verdictVars

(* What a pass makes of an answer. *)
Verdicts(a) == IF a.reply # "message" \/ abnormalVerifierStop(a.stop) THEN degradedPass ELSE parsePass(a)

(* The passes are what is made of the first answers, and the outcomes are  *)
(* folded from all of them.                                                *)
VerdictInv ==
  /\ answers \in PassAnswers
  /\ passes \in Seq(Range(passes)) /\ Len(passes) <= Len(answers)
  /\ \A p \in 1..Len(passes) : passes[p] = Verdicts(answers[p])
  /\ \/ outcomes = <<>>
     \/ /\ Len(passes) = Len(answers)
        /\ outcomes = [i \in 1..Findings |-> aggregate([p \in DOMAIN passes |-> passes[p][i]])]

(* Every pass is read as verifyFindings reads it, in order.                *)
LEMMA VerdictInvHolds == VerdictSpec => []VerdictInv
<1>1. VerdictInit => VerdictInv
  <2> SUFFICES ASSUME VerdictInit PROVE VerdictInv  OBVIOUS
  <2>1. answers \in PassAnswers /\ passes = <<>> /\ outcomes = <<>>  BY DEF VerdictInit
  <2>2. answers \in Seq(Range(answers))  BY <2>1, AnswersAssumption
  <2>3. Len(answers) \in Nat  BY <2>2
  <2>4. Len(passes) = 0 /\ passes \in Seq(Range(passes)) /\ 1..0 = {}  BY <2>1
  <2> QED  BY <2>1, <2>3, <2>4 DEF VerdictInv
<1>2. VerdictInv /\ [VerdictNext]_verdictVars => VerdictInv'
  <2> SUFFICES ASSUME VerdictInv, [VerdictNext]_verdictVars PROVE VerdictInv'  OBVIOUS
  <2>1. CASE runPass
    <3> DEFINE n == Len(passes)
    <3>1. n < Len(answers) /\ UNCHANGED <<answers, outcomes>>  BY <2>1 DEF runPass
    <3>2. passes' = Append(passes, Verdicts(answers[n + 1]))  BY <2>1, Zenon DEF runPass, Verdicts
    <3>3. n \in Nat /\ DOMAIN passes = 1..n /\ Len(answers) \in Nat
      <4>1. answers \in Seq(Range(answers))  BY AnswersAssumption DEF VerdictInv
      <4> QED  BY <4>1 DEF VerdictInv
    <3>4. outcomes = <<>>  BY <3>1, <3>3 DEF VerdictInv
    <3>5. /\ passes' \in Seq(Range(passes')) /\ Len(passes') = n + 1 /\ passes'[n + 1] = Verdicts(answers[n + 1])
          /\ \A p \in 1..n : passes'[p] = passes[p]
      <4>1. PICK v : v = Verdicts(answers[n + 1])  OBVIOUS
      <4>2. PICK S : passes \in Seq(S) /\ v \in S
        <5>1. Range(passes) \subseteq Range(passes) \cup {v}  OBVIOUS
        <5>2. passes \in Seq(Range(passes) \cup {v})  BY <5>1, SeqMonotonic DEF VerdictInv
        <5> QED  BY <5>2
      <4>3. passes' = Append(passes, v)  BY <3>2, <4>1
      <4>4. /\ passes' \in Seq(S) /\ Len(passes') = n + 1 /\ passes'[n + 1] = v
            /\ \A p \in 1..n : passes'[p] = passes[p]
        BY <4>2, <4>3, AppendProperties
      <4>5. passes' \in Seq(Range(passes'))
        <5>1. DOMAIN passes' = 1..Len(passes')  BY <4>4, LenProperties
        <5>2. \A p \in 1..Len(passes') : passes'[p] \in Range(passes')  BY <5>1 DEF Range
        <5>3. PICK u : u = passes'  OBVIOUS
        <5>4. u \in Seq(S) /\ \A p \in 1..Len(u) : u[p] \in Range(u)  BY <4>4, <5>2, <5>3
        <5>5. u \in Seq(Range(u))  BY <5>4
        <5> QED  BY <5>3, <5>5
      <4> QED  BY <4>1, <4>4, <4>5
    <3>6. ASSUME NEW p \in 1..(n + 1) PROVE passes'[p] = Verdicts(answers[p])
      <4>1. CASE p = n + 1  BY <3>5, <4>1
      <4>2. CASE p # n + 1
        <5>1. p \in 1..n  BY <3>3, <4>2
        <5> QED  BY <3>5, <5>1 DEF VerdictInv
      <4> QED  BY <4>1, <4>2
    <3>7. answers' = answers /\ outcomes' = <<>> /\ n + 1 \in Nat /\ n + 1 <= Len(answers)  BY <3>1, <3>3, <3>4
    <3>8. answers' \in PassAnswers  BY <3>7 DEF VerdictInv
    <3> HIDE DEF n
    <3>9. \A p \in 1..Len(passes') : passes'[p] = Verdicts(answers[p])  BY <3>5, <3>6
    <3>10. \A p \in 1..Len(passes') : passes'[p] = Verdicts(answers[p])'
      BY <3>7, <3>9, ZenonT(60) DEF Verdicts, degradedPass, parsePass
    <3> QED  BY <3>5, <3>7, <3>8, <3>10 DEF VerdictInv
  <2>2. CASE report
    <3>1. /\ Len(passes) = Len(answers) /\ UNCHANGED <<answers, passes>>
          /\ outcomes' = [i \in 1..Findings |-> aggregate([p \in DOMAIN passes |-> passes[p][i]])]
      BY <2>2 DEF report
    <3> QED  BY <3>1 DEF VerdictInv
  <2>3. CASE UNCHANGED verdictVars  BY <2>3 DEF verdictVars, VerdictInv
  <2> QED  BY <2>1, <2>2, <2>3 DEF VerdictNext
<1> QED  BY <1>1, <1>2, PTL DEF VerdictSpec

(* What is folded from passes that were so read is earned.                 *)
LEMMA VerdictInvMeans == VerdictInv => VerdictsEarned
<1> SUFFICES ASSUME VerdictInv, NEW i \in DOMAIN outcomes, NEW p \in DOMAIN answers
             PROVE  LET a == answers[p]
                        given == Given(a, findingID[i])
                    IN /\ outcomes[i] = "VERIFIED" => Whole(a) /\ given = {<<"confirmed">>} /\ \A m \in Range(a.members) : m.key \in Ids
                       /\ InOrder(a) /\ given = {<<"refuted">>} => outcomes[i] = "REFUTED"
  BY Zenon DEF VerdictsEarned
<1> DEFINE a == answers[p]
           vs == [q \in DOMAIN passes |-> passes[q][i]]
<1>1. answers \in Seq(Range(answers)) /\ WellWritten(a)
  <2>1. answers \in Seq(Range(answers)) /\ \A b \in Range(answers) : WellWritten(b)  BY AnswersAssumption DEF VerdictInv
  <2>2. a \in Range(answers)  BY DEF Range
  <2> QED  BY <2>1, <2>2
<1>2. outcomes # <<>>  OBVIOUS
<1>3. /\ Len(passes) = Len(answers) /\ outcomes = [k \in 1..Findings |-> aggregate([q \in DOMAIN passes |-> passes[q][k]])]
  BY <1>2 DEF VerdictInv
<1>4. i \in 1..Findings /\ outcomes[i] = aggregate(vs)
  <2>1. i \in 1..Findings  BY <1>3
  <2> QED  BY <1>3, <2>1
<1>5. p \in DOMAIN passes /\ passes[p] = Verdicts(a)
  <2>1. DOMAIN answers = 1..Len(answers) /\ DOMAIN passes = 1..Len(passes)  BY <1>1, LenProperties DEF VerdictInv
  <2> QED  BY <1>3, <2>1 DEF VerdictInv
<1>6. p \in DOMAIN vs /\ vs[p] = Verdicts(a)[i]  BY <1>5
<1>7. /\ parsePass(a)[i] = "confirmed" =>
              Alone(a) /\ Given(a, findingID[i]) = {<<"confirmed">>} /\ \A m \in Range(a.members) : m.key \in Ids
      /\ InOrder(a) /\ Given(a, findingID[i]) = {<<"refuted">>} => parsePass(a)[i] = "refuted"
  BY <1>1, <1>4, ParsedRight
<1> HIDE DEF a, vs
<1>8. ASSUME outcomes[i] = "VERIFIED"
      PROVE  Whole(a) /\ Given(a, findingID[i]) = {<<"confirmed">>} /\ \A m \in Range(a.members) : m.key \in Ids
  <2>1. \A q \in DOMAIN vs : vs[q] = "confirmed"  BY <1>4, <1>8 DEF aggregate
  <2>2. Verdicts(a)[i] = "confirmed"  BY <1>6, <2>1
  <2>3. degradedPass[i] = "insufficient"  BY <1>4 DEF degradedPass
  <2>4. a.reply = "message" /\ ~abnormalVerifierStop(a.stop) /\ parsePass(a)[i] = "confirmed"
    <3>1. CASE a.reply # "message" \/ abnormalVerifierStop(a.stop)
      <4>1. Verdicts(a) = degradedPass  BY <3>1, Zenon DEF Verdicts
      <4> QED  BY <2>2, <2>3, <4>1
    <3>2. CASE ~(a.reply # "message" \/ abnormalVerifierStop(a.stop))
      <4>1. Verdicts(a) = parsePass(a)  BY <3>2, Zenon DEF Verdicts
      <4> QED  BY <2>2, <3>2, <4>1, Zenon
    <3> QED  BY <3>1, <3>2
  <2>5. Alone(a) /\ Given(a, findingID[i]) = {<<"confirmed">>} /\ \A m \in Range(a.members) : m.key \in Ids  BY <1>7, <2>4
  <2>6. Whole(a)  BY <2>4, <2>5, Zenon DEF Whole, Alone, EndBrace, abnormalVerifierStop
  <2> QED  BY <2>5, <2>6
<1>9. ASSUME InOrder(a), Given(a, findingID[i]) = {<<"refuted">>} PROVE outcomes[i] = "REFUTED"
  <2>1. parsePass(a)[i] = "refuted"  BY <1>7, <1>9
  <2>2. Whole(a)  BY <1>9, Zenon DEF InOrder
  <2>3. ~(a.reply # "message" \/ abnormalVerifierStop(a.stop))  BY <2>2, Zenon DEF Whole, abnormalVerifierStop
  <2>4. Verdicts(a) = parsePass(a)  BY <2>3, Zenon DEF Verdicts
  <2>5. vs[p] = "refuted" /\ p \in DOMAIN vs  BY <1>6, <2>1, <2>4
  <2> QED  BY <1>4, <2>5 DEF aggregate
<1> QED  BY <1>8, <1>9, Zenon DEF a

(* A finding is VERIFIED only when every pass answered in full and gave it *)
(* no verdict but confirmed, and a refutation in an answer that is in      *)
(* order is never lost: whatever the passes answer, for any number of      *)
(* findings and of passes (verifyFindings, parsePass, aggregate).          *)
THEOREM VerdictsAreEarned == VerdictSpec => []VerdictsEarned
BY VerdictInvHolds, VerdictInvMeans, PTL
=============================================================================
