------------------------------ MODULE KubeGate ------------------------------
(***************************************************************************)
(* What the Kubernetes connectors decide without state: which identifiers  *)
(* of a managed cluster are used, and whether a request is within the      *)
(* ClusterRole they were configured with.                                  *)
(*                                                                         *)
(* A path is the sequence of its segments without the leading slash: a     *)
(* trailing slash leaves an empty segment at its end.                      *)
(***************************************************************************)
EXTENDS Naturals, Sequences

Empty == ""    \* no segment, no name, the core group

(* From the first segment that is not empty to the last. *)
splitPath(path) ==
  LET named == {i \in DOMAIN path : path[i] # Empty}
      first == CHOOSE i \in named : \A j \in named : i <= j
      last == CHOOSE i \in named : \A j \in named : j <= i
  IN IF named = {} THEN <<>> ELSE SubSeq(path, first, last)

From(s, n) == SubSeq(s, n, Len(s))
At(s, n) == IF Len(s) >= n THEN s[n] ELSE Empty

isNamespaceSubresource(segment) == segment \in {"status", "finalize"}

(* namespaces/<ns> is a scope, unless the namespace itself is what is meant. *)
consumeNamespace(parts) ==
  IF At(parts, 1) = "namespaces" /\ Len(parts) >= 3 /\ ~isNamespaceSubresource(parts[3])
  THEN From(parts, 3) ELSE parts

methodVerb ==
  [POST |-> "create", GET |-> "get", HEAD |-> "get", PUT |-> "update", PATCH |-> "patch",
   DELETE |-> "delete", OPTIONS |-> "options"]

(* The verb of the method, unless the path has one. *)
applyVerb(special, method, name, watch) ==
  LET verb == methodVerb[method]
      nameless == CASE verb = "get" -> IF watch THEN "watch" ELSE "list"
                    [] verb = "delete" -> "deletecollection"
                    [] OTHER -> verb
  IN IF special # Empty THEN special ELSE IF name = Empty THEN nameless ELSE verb

(* What is left of a path after its scope: resource, name, subresource. *)
consumeResource(parts, verb, group, method, watch) ==
  [isResource |-> TRUE, group |-> group, resource |-> At(parts, 1), name |-> At(parts, 2),
   subresource |-> IF verb = "proxy" THEN Empty ELSE At(parts, 3),
   verb |-> applyVerb(verb, method, At(parts, 2), watch)]

Classify(method, path, watch) ==
  LET parts == splitPath(path)
      named == At(parts, 1) = "apis"
      rest == From(parts, IF named THEN 4 ELSE 3)
      special == IF At(rest, 1) \in {"proxy", "watch"} THEN rest[1] ELSE Empty
  IN IF Len(parts) < (IF named THEN 4 ELSE 3) \/ parts[1] \notin {"api", "apis"}
     THEN [isResource |-> FALSE, method |-> method, path |-> path]
     ELSE consumeResource(consumeNamespace(IF special = Empty THEN rest ELSE Tail(rest)), special,
                          IF named THEN parts[2] ELSE Empty, method, watch)
-----------------------------------------------------------------------------
matchItem(set, want) == "*" \in set \/ want \in set

resourceNameMatches(names, name) == names = {} \/ (name # Empty /\ name \in names)

(* pods/log is written <<"pods", "log">> in a rule, pods <<"pods">>. *)
target(resource, subresource) == IF subresource = Empty THEN <<resource>> ELSE <<resource, subresource>>

Allows(rules, ri) ==
  \E r \in rules : /\ matchItem(r.verbs, ri.verb) /\ matchItem(r.groups, ri.group)
                   /\ <<"*">> \in r.resources \/ target(ri.resource, ri.subresource) \in r.resources
                   /\ resourceNameMatches(r.names, ri.name)

(* Discovery, health and version, exactly or below. *)
allowedNonResource(method, path) ==
  /\ method \in {"GET", "HEAD"}
  /\ \/ path = <<Empty>>
     \/ At(path, 1) \in {"api", "apis", "version", "healthz", "livez", "readyz", "openapi"}

Authorize(ri, rules) ==
  IF ri.isResource THEN Allows(rules, ri) ELSE allowedNonResource(ri.method, ri.path)

(* What the API server answered for the ClusterRole is its rules, or nothing. *)
clusterRoleFetched(answer) == answer.status = 200 /\ answer.kind = "ClusterRole" /\ answer.rules # {}

defaultedPort(port) == IF port = "" THEN "443" ELSE port
authorizeRequestPort(port, want) == want # "" /\ defaultedPort(port) = want

(* The gate of one request: port, the role, the request against the role. *)
authorizeAction(cluster, answer, r) ==
  /\ authorizeRequestPort(r.port, cluster.port)
  /\ clusterRoleFetched(answer)
  /\ Authorize(Classify(r.method, r.path, r.watch), answer.rules)
-----------------------------------------------------------------------------
(* The identifiers of managed clusters: those of the vendor's rules only,  *)
(* and for EKS a region of the partition configured.                       *)
checkIdentifier(id) == id = "well formed"

awsPartition(region) ==
  CASE region = "us-east-1" -> "aws" [] region = "cn-north-1" -> "aws-cn"
    [] region = "us-gov-west-1" -> "aws-us-gov" [] OTHER -> ""

checkEKSRegionPartition(requested, configured) ==
  LET want == IF configured = "" THEN "aws" ELSE awsPartition(configured)
  IN requested = "" \/ (want # "" /\ awsPartition(requested) = want)

(* What a call names: a cluster of EKS, GKE or AKS. *)
validate(args) ==
  /\ \A id \in args.ids : checkIdentifier(id)
  /\ args.connector = "eks" => checkEKSRegionPartition(args.region, args.configured)

-----------------------------------------------------------------------------
(* The routes of an API server (external): what it runs for a request.     *)
Runs(group, verb, resource, subresource, name) ==
  [group |-> group, verb |-> verb, resource |-> resource, subresource |-> subresource, name |-> name]

(* The collections and objects below a version, in a namespace or not; no  *)
(* resource is named status or finalize.                                   *)
Below(tail) ==
  {t \in {tail} \cup (IF At(tail, 1) = "namespaces" /\ Len(tail) >= 3 THEN {From(tail, 3)} ELSE {}) :
     /\ Len(t) \in 1..3 /\ \A i \in DOMAIN t : t[i] # Empty
     /\ t[1] \notin {"status", "finalize", "watch", "proxy"}
     /\ t[1] = "namespaces" /\ Len(t) = 3 => t[3] \in {"status", "finalize"}}

(* The verb a request for what is below a version is run with. *)
Verbs(method, t, watch) ==
  CASE method \in {"GET", "HEAD"} /\ Len(t) > 1 -> {"get"}
    [] method \in {"GET", "HEAD"} /\ Len(t) = 1 -> {IF watch THEN "watch" ELSE "list"}
    [] method = "POST" /\ Len(t) # 2            -> {"create"}
    [] method = "PUT" /\ Len(t) > 1             -> {"update"}
    [] method = "PATCH" /\ Len(t) > 1           -> {"patch"}
    [] method = "DELETE"                        -> {IF Len(t) = 1 THEN "deletecollection" ELSE "delete"}
    [] OTHER                                    -> {}

Served(method, path, watch) ==
  LET parts == splitPath(path)
      version == IF At(parts, 1) = "apis" THEN 3 ELSE 2
      group == IF At(parts, 1) = "apis" THEN At(parts, 2) ELSE Empty
      tail == From(parts, version + 1)
  IN IF At(parts, 1) \notin {"api", "apis"} \/ Len(parts) <= version
     THEN {}
     ELSE (UNION {{Runs(group, verb, t[1], At(t, 3), At(t, 2)) : verb \in Verbs(method, t, watch)} : t \in Below(tail)})
          \cup {Runs(group, "watch", t[1], Empty, At(t, 2)) :
                  t \in {u \in Below(Tail(tail)) : tail[1] = "watch" /\ Len(u) < 3 /\ method = "GET"}}

Granted(rules, op) ==
  \E r \in rules : /\ r.verbs \cap {"*", op.verb} # {} /\ r.groups \cap {"*", op.group} # {}
                   /\ r.resources \cap {<<"*">>, target(op.resource, op.subresource)} # {}
                   /\ r.names = {} \/ op.name \in r.names
=============================================================================
