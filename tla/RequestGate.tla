---------------------------- MODULE RequestGate ----------------------------
(***************************************************************************)
(* The way of a request from the arguments of http_request to the wire:    *)
(* transport.Client.do, the gates of the connector it names, the dial      *)
(* guard and the TLS handshake.  Several requests run at once and share    *)
(* what the connector has cached about its cluster.                        *)
(*                                                                         *)
(* Two connectors: "plain" is one with public hosts and no rule of its own *)
(* for addresses (aws; github, gcp and azure are alike), "cluster" one of  *)
(* a managed Kubernetes cluster addressed by name (eks; aks is alike),     *)
(* whose host and CA a control plane describes.  The control plane may describe  *)
(* another cluster under the same name at any time.  Names are resolved    *)
(* by a resolver that may answer anything at any time, and any server may  *)
(* answer at any address.                                                  *)
(***************************************************************************)
EXTENDS FiniteSets, Naturals

CONSTANTS
  Requests,       \* the requests in flight
  ClusterHosts,   \* hosts a control plane may give a cluster
  CAs,            \* the CAs of clusters; a cluster is known by its CA
  PlainHosts,     \* hosts of the plain connector
  Proxied,        \* hosts whose route goes through the operator's proxy
  MaxFlaws,       \* bound: what is wrong with the requests, in total
  None

Hosts == ClusterHosts \cup PlainHosts
Facts == [host : ClusterHosts, ca : CAs]

ASSUME HostsAssumption == /\ ClusterHosts \cap PlainHosts = {}
                          /\ Proxied \subseteq Hosts
ASSUME CAsAssumption == None \notin CAs \cup Facts /\ "public" \notin CAs

(* What may be wrong with a request, named after what refuses it. *)
Flaws == {"arguments", "hostHeader", "scheme", "authority", "provider", "block", "port",
          "access", "credential"}

(* A server is who holds the key of a certificate for a name.  A cluster   *)
(* CA may sign any cluster host; public roots sign the public hosts.       *)
Servers == [name : ClusterHosts, ca : CAs] \cup [name : PlainHosts, ca : {"public"}]

(* Addresses: what an address is, and how it is written.  "mapped" is the  *)
(* IPv4-mapped form of an IPv4 address, "embedded" an IPv6 address that    *)
(* leads to an IPv4 one (NAT64, 6to4).                                     *)
Ranges == {"public", "private", "local", "platform", "ula"}
Addrs == [form : {"v4", "mapped", "embedded"}, range : Ranges \ {"ula"}]
         \cup [form : {"v6"}, range : {"public", "ula", "local"}]

VARIABLES
  req,      \* the requests: connector, host, and what is wrong with each
  live,     \* what the control plane says of the cluster now
  named,    \* history variable: hosts it has given the cluster
  facts,    \* the connector's cluster cache: Facts, or None
  policy,   \* the connector's policy cache: the CA of the cluster it was read from, or None
  pc,       \* where each request is
  fetched,  \* the facts a request's own fetch brought, before they are stored
  trusted,  \* the CA a request's transport trusts beside the public roots
  addr,     \* what a request's connection reaches: a range, "proxy", or None
  wire      \* credentials sent: by which request, for what purpose, where, to which server

vars == <<req, live, named, facts, policy, pc, fetched, trusted, addr, wire>>
caches == <<facts, policy>>
world == <<live, named>>
conn == <<trusted, addr>>

Goto(r, to) == pc' = [pc EXCEPT ![r] = to]
Flawed(r, flaws) == req[r].flaws \cap flaws # {}

(* Step r to the next gate unless it has one of the flaws.                 *)
Gate(r, flaws, next) ==
  \/ Flawed(r, flaws) /\ Goto(r, "refused")
  \/ ~Flawed(r, flaws) /\ Goto(r, next)
-----------------------------------------------------------------------------
(* The request is built from the arguments: they parse, a connector is     *)
(* named, no Host header, https, an authority with one spelling.           *)
Build(r) ==
  /\ pc[r] = "new"
  /\ Gate(r, {"arguments", "hostHeader", "scheme", "authority"}, "host")
  /\ UNCHANGED <<req, world, caches, fetched, conn, wire>>

(* The host gate of a plain connector: its argument block must parse and   *)
(* claim what the host serves.                                             *)
AuthorizeHostPlain(r) ==
  /\ pc[r] = "host" /\ req[r].provider = "plain"
  /\ \/ req[r].host \in PlainHosts /\ Gate(r, {"provider", "block"}, "action")
     \/ req[r].host \notin PlainHosts /\ Goto(r, "refused")
  /\ UNCHANGED <<req, world, caches, fetched, conn, wire>>

(* What the gate says once it has the facts. *)
hostMatches(r, f) == req[r].host = f.host

(* The host gate of a cluster: the facts are cached ... *)
AuthorizeHostCached(r) ==
  /\ pc[r] = "host" /\ req[r].provider = "cluster"
  /\ \/ Flawed(r, {"provider", "block"}) /\ Goto(r, "refused")
     \/ /\ ~Flawed(r, {"provider", "block"}) /\ facts # None
        /\ Goto(r, IF hostMatches(r, facts) THEN "action" ELSE "refused")
  /\ UNCHANGED <<req, world, caches, fetched, conn, wire>>

(* ... or the control plane is asked, which may fail ... *)
DescribeCluster(r) ==
  /\ pc[r] = "host" /\ req[r].provider = "cluster"
  /\ ~Flawed(r, {"provider", "block"}) /\ facts = None
  /\ \/ /\ Goto(r, "described")
        /\ fetched' = [fetched EXCEPT ![r] = live]
        /\ named' = named \cup {live.host}
     \/ Goto(r, "refused") /\ UNCHANGED <<fetched, named>>
  /\ UNCHANGED <<req, live, caches, conn, wire>>

(* Mutant: the last description wins. *)
cached_Last(f) == f

(* The first facts stored stay. *)
cached(f) == IF facts = None THEN f ELSE facts

(* ... and its answer stored, and used by this request as it came. *)
AuthorizeHostFetched(r) ==
  /\ pc[r] = "described"
  /\ facts' = cached(fetched[r])
  /\ Goto(r, IF hostMatches(r, fetched[r]) THEN "action" ELSE "refused")
  /\ fetched' = [fetched EXCEPT ![r] = None]
  /\ UNCHANGED <<req, world, policy, conn, wire>>

(* The action gate of a plain connector: port, then method and path        *)
(* against its table, which may not be ready.                              *)
AuthorizeActionPlain(r) ==
  /\ pc[r] = "action" /\ req[r].provider = "plain"
  /\ Gate(r, {"port", "access"}, "inject") \/ Goto(r, "refused")
  /\ UNCHANGED <<req, world, caches, fetched, conn, wire>>

(* The port is bound before anything is sent to the cluster. *)
portGate(r) == ~Flawed(r, {"port"})

(* The action gate of a cluster: the port, then the policy, cached ... *)
AuthorizeActionCached(r) ==
  /\ pc[r] = "action" /\ req[r].provider = "cluster"
  /\ \/ ~portGate(r) /\ Goto(r, "refused")
     \/ portGate(r) /\ policy # None /\ Gate(r, {"port", "access"}, "inject")
  /\ UNCHANGED <<req, world, caches, fetched, conn, wire>>
-----------------------------------------------------------------------------
(* Without its mapping; and the range of an address as it is written. *)
Unmap(a) == IF a.form = "mapped" THEN [a EXCEPT !.form = "v4"] ELSE a
ownRange(a) == IF a.form \in {"v4", "v6"} THEN a.range ELSE "public"

(* The range of the IPv4 address an address embeds, or none. *)
embeddedRange(a) == IF a.form = "embedded" THEN {a.range} ELSE {}

(* Mutant: an embedded address is not looked into. *)
floorForbidden_Blind(a) == ownRange(Unmap(a)) \in {"local", "platform", "ula"}

(* What no connector may dial, and what those without a pin may not. *)
floorForbidden(a) ==
  ({ownRange(Unmap(a))} \cup embeddedRange(Unmap(a))) \cap {"local", "platform", "ula"} # {}

isInternalIP(a) ==
  floorForbidden(a) \/ "private" \in {ownRange(Unmap(a))} \cup embeddedRange(Unmap(a))

(* The dial guard.  A cluster's addresses are those its name has when the  *)
(* guard looks, which nothing ties to when the dialer looked.              *)
AuthorizeAddr(r, a, resolved) ==
  \/ req[r].provider = "plain" /\ ~isInternalIP(a)
  \/ req[r].provider = "cluster" /\ ~floorForbidden(a) /\ resolved

(* The handshake: a certificate for the name under a trusted root. *)
handshake(name, ca, s) == s.name = name /\ s.ca \in {"public", ca}

(* Where a connection to host h may lead: to the proxy only, or to an      *)
(* address the guard lets through.                                         *)
reached(r, h) ==
  IF h \in Proxied THEN {"proxy"}
  ELSE {a.range : a \in {b \in Addrs : \E resolved \in BOOLEAN : AuthorizeAddr(r, b, resolved)}}

(* The policy of a cluster is read from the cluster, with the credential,  *)
(* under the facts cached and through the same guard; the read may fail    *)
(* before the credential is out, or after.                                 *)
FetchView(r) ==
  /\ pc[r] = "action" /\ req[r].provider = "cluster"
  /\ portGate(r) /\ policy = None
  /\ \/ \E at \in reached(r, facts.host), s \in Servers :
             /\ handshake(facts.host, facts.ca, s)
             /\ wire' = wire \cup {[by |-> r, for |-> "policy", at |-> at, to |-> s]}
             /\ \/ policy' = s.ca /\ Gate(r, {"port", "access"}, "inject")
                \/ Goto(r, "refused") /\ UNCHANGED policy
     \/ Goto(r, "refused") /\ UNCHANGED <<policy, wire>>
  /\ UNCHANGED <<req, world, facts, fetched, conn>>

(* No credential of the model's; the connector's is minted, or not. *)
Inject(r) ==
  /\ pc[r] = "inject"
  /\ Gate(r, {"credential"}, "transport") \/ Goto(r, "refused")
  /\ UNCHANGED <<req, world, caches, fetched, conn, wire>>

(* The transport of the request trusts the CA of the cluster, unless its   *)
(* certificates cannot be read.                                            *)
configureTransport(r) ==
  /\ pc[r] = "transport"
  /\ \/ /\ trusted' = [trusted EXCEPT ![r] = IF req[r].provider = "cluster" THEN facts.ca ELSE "public"]
        /\ Goto(r, "dial")
     \/ Goto(r, "failed") /\ UNCHANGED trusted
  /\ UNCHANGED <<req, world, caches, fetched, addr, wire>>

Dial(r) ==
  /\ pc[r] = "dial"
  /\ \/ /\ addr' \in {[addr EXCEPT ![r] = at] : at \in reached(r, req[r].host)}
        /\ Goto(r, "connected")
        /\ UNCHANGED trusted
     \/ /\ trusted' = [trusted EXCEPT ![r] = None]
        /\ Goto(r, "failed")
        /\ UNCHANGED addr
  /\ UNCHANGED <<req, world, caches, fetched, wire>>

(* Mutant: the client follows redirects. *)
visited_Redirects(r) == Hosts

(* The hosts the client sends the request to: a redirect is not followed.  *)
visited(r) == {req[r].host}

(* The request goes out to a server the handshake accepts and is answered, *)
(* or fails, the credential being out or not.                              *)
Send(r) ==
  /\ pc[r] = "connected"
  /\ \/ /\ \E h \in visited(r), s \in Servers :
             /\ handshake(h, trusted[r], s)
             /\ wire' = wire \cup {[by |-> r, for |-> "request", at |-> addr[r], to |-> s]}
        /\ Goto(r, "sent") \/ Goto(r, "failed")
     \/ Goto(r, "failed") /\ UNCHANGED wire
  /\ trusted' = [trusted EXCEPT ![r] = None]
  /\ addr' = [addr EXCEPT ![r] = None]
  /\ UNCHANGED <<req, world, caches, fetched>>

(* The control plane describes the cluster anew. *)
Migrate ==
  /\ live' \in Facts \ {live}
  /\ UNCHANGED <<req, named, caches, pc, fetched, conn, wire>>

Ended == {"refused", "failed", "sent"}

Over == (\A r \in Requests : pc[r] \in Ended) /\ UNCHANGED vars

(* What is wrong with the requests, all told. *)
flawsOf(q) == UNION {{<<r, f>> : f \in q[r].flaws} : r \in Requests}

Asked == [provider : {"plain", "cluster"}, host : Hosts,
          flaws : {s \in SUBSET Flaws : Cardinality(s) <= MaxFlaws}]

Init ==
  /\ req \in {q \in [Requests -> Asked] : Cardinality(flawsOf(q)) <= MaxFlaws}
  /\ live \in Facts
  /\ named = {}
  /\ facts = None /\ policy = None
  /\ pc = [r \in Requests |-> "new"]
  /\ fetched = [r \in Requests |-> None]
  /\ trusted = [r \in Requests |-> None]
  /\ addr = [r \in Requests |-> None]
  /\ wire = {}

Next ==
  \/ Migrate \/ Over
  \/ \E r \in Requests :
       \/ Build(r) \/ AuthorizeHostPlain(r) \/ AuthorizeHostCached(r) \/ DescribeCluster(r)
       \/ AuthorizeHostFetched(r) \/ AuthorizeActionPlain(r) \/ AuthorizeActionCached(r)
       \/ FetchView(r) \/ Inject(r) \/ configureTransport(r) \/ Dial(r) \/ Send(r)

Spec == Init /\ [][Next]_vars
-----------------------------------------------------------------------------
(* The types of the state; past the host gate of a cluster its facts are   *)
(* cached, and no policy is cached without them.                           *)
TypeOK ==
  /\ \A r \in Requests : /\ req[r].provider \in {"plain", "cluster"} /\ req[r].host \in Hosts
                          /\ req[r].flaws \subseteq Flaws
  /\ live \in Facts /\ named \subseteq ClusterHosts
  /\ facts \in Facts \cup {None} /\ policy \in CAs \cup {None}
  /\ pc \in [Requests -> {"new", "host", "described", "action", "inject", "transport", "dial",
                          "connected"} \cup Ended]
  /\ fetched \in [Requests -> Facts \cup {None}]
  /\ trusted \in [Requests -> CAs \cup {"public", None}]
  /\ addr \in [Requests -> Ranges \cup {"proxy", None}]
  /\ wire \subseteq [by : Requests, for : {"policy", "request"}, at : Ranges \cup {"proxy"},
                     to : Servers]
  /\ \A r \in Requests :
       req[r].provider = "cluster" /\ pc[r] \in {"action", "inject", "transport"} => facts # None

(* A request that reaches the wire passed every gate, and the server it    *)
(* reaches holds a name the connector authorizes: a public host of its     *)
(* own, or a host the control plane gave the cluster.                      *)
SentIsAuthorized ==
  \A w \in wire :
    /\ w.for = "request" => req[w.by].flaws = {}
    /\ w.to.name \in (IF req[w.by].provider = "plain" THEN PlainHosts ELSE named)

(* The cluster a request reaches is the one whose ClusterRole judged it,   *)
(* although the control plane may have described another in between and    *)
(* racing lookups may have brought different answers.                      *)
JudgedByItsCluster ==
  \A w \in wire : w.for = "request" /\ req[w.by].provider = "cluster" => w.to.ca = policy

(* No credential goes to an address of the host or the platform, nor, for  *)
(* a connector without a pin, to a private one, in whatever form the       *)
(* address is written; the proxy is the operator's choice.                 *)
NoForbiddenAddress ==
  \A w \in wire : w.at \in {"proxy", "public"} \/ (w.at = "private" /\ req[w.by].provider = "cluster")

(* A request refused by an earlier gate costs no credentialed read of the  *)
(* policy: the port is looked at first.                                    *)
RefusedCostsNothing ==
  \A w \in wire : w.for = "policy" => req[w.by].flaws \subseteq {"access", "credential"}
=============================================================================
