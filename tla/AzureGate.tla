----------------------------- MODULE AzureGate -----------------------------
(***************************************************************************)
(* What the Azure connector decides without state: the cloud of a host,    *)
(* the RBAC action of a request to Azure Resource Manager, and whether the *)
(* configured role allows it.                                              *)
(*                                                                         *)
(* Paths are those of module Paths.  The catalog has providers: by name,   *)
(* the resource types (sequences of names) and the operations, each a      *)
(* sequence of names (namespace, type, verb) with data |-> whether it is a *)
(* data action.                                                            *)
(***************************************************************************)
EXTENDS Naturals, FiniteSets, Paths

armControlPlaneHosts == {"management.azure.com", "management.usgovcloudapi.net", "management.chinacloudapi.cn"}

(* Data-plane hosts, Graph, addresses, local and private-link names: none. *)
ParseHost(host) == host \in armControlPlaneHosts

(* The cloud whose resource manager the host is, by the endpoints fetched. *)
ResolveCloud(clouds, host) == {c \in DOMAIN clouds : clouds[c] = host}

canonicalizeCloudName(name) == IF name = "public" THEN "AzurePublic" ELSE name
Verify(cloud, claim) == claim = "" \/ canonicalizeCloudName(claim) = cloud

AuthorizesHost(clouds, host, claim) ==
  claim.service # "" /\ ParseHost(host) /\ \E c \in ResolveCloud(clouds, host) : Verify(c, claim.cloud)

(* Configured, then the environment's, then the CLI's, then the public one. *)
ResolveCloudConfig(configured, authority, cli, known) ==
  CASE canonicalizeCloudName(configured) \in known                -> canonicalizeCloudName(configured)
    [] canonicalizeCloudName(configured) \notin known /\ authority \in known -> authority
    [] canonicalizeCloudName(configured) \notin known /\ authority \notin known /\ cli \in known -> cli
    [] OTHER                                                      -> "AzurePublic"
-----------------------------------------------------------------------------
(* The catalog.  A cloud out of reach is left out, one that answers in an  *)
(* old shape fails it, and without operations there are no providers.      *)
parseCloudEndpoints(answer) == answer.shape = "object" /\ answer.resourceManager # ""

buildCatalog(answers, ops) ==
  LET reached == {c \in DOMAIN answers : answers[c].ok}
  IN IF reached = {} \/ \E c \in reached : ~parseCloudEndpoints(answers[c])
     THEN {} ELSE {[clouds |-> [c \in reached |-> answers[c].resourceManager], providers |-> ops]}

(* Of the clouds that may be asked, the session's. *)
applyCloudScope(cloud, answers) ==
  IF cloud = "" THEN answers ELSE [c \in DOMAIN answers \cap {cloud} |-> answers[c]]

(* A catalog kept for one cloud is that cloud's alone. *)
scopedParse(cloud, data) == cloud = "" \/ DOMAIN data.clouds = {cloud}

(* An action of a type is listed below the type as if it were one. *)
pruneActionVerbTypes(namespace, types, ops) ==
  {t \in types : ~(Len(t) > 1 /\ Front(t) \in types /\ \E o \in ops : o.name = <<namespace>> \o t \o <<"action">>)}

flattenProviderOps(md) ==
  LET ops == md.operations \cup UNION {t.operations : t \in md.types}
  IN [types |-> pruneActionVerbTypes(md.name, {t.name : t \in md.types}, ops), operations |-> ops]

collectProviderOps(response) ==
  [n \in {md.name : md \in response} |-> flattenProviderOps(CHOOSE md \in response : md.name = n)]

(* What is registered at or below namespace/type/token: the rest of the    *)
(* name, or the token itself.                                              *)
LookupOperation(catalog, namespace, type, token) ==
  LET at == <<namespace>> \o type \o token
      below == {o \in catalog[namespace].operations : IsPrefix(at, o.name)}
      verb(o) == IF o.name = at THEN token ELSE SubSeq(o.name, Len(at) + 1, Len(o.name))
  IN {[verb |-> verb(o), data |-> o.data] : o \in below}
-----------------------------------------------------------------------------
lower(s) == IF s = "Providers" THEN "providers" ELSE s
RECURSIVE trimmed(_)
trimmed(segs) ==
  CASE segs # <<>> /\ segs[1] = ""              -> trimmed(Tail(segs))
    [] segs # <<>> /\ segs[1] # "" /\ Last(segs) = "" -> trimmed(Front(segs))
    [] OTHER                                    -> segs
splitPath(path) == trimmed(FlattenSeq(path))

nonCanonicalPath(path) ==
  \/ \E i \in DOMAIN path : Len(path[i]) > 1
  \/ \E i \in DOMAIN splitPath(path) : splitPath(path)[i] \in {"", ".", ".."}

(* Behind the last providers segment that has a namespace and a type. *)
resolveNamespace(segs) ==
  LET at == {i \in DOMAIN segs : lower(segs[i]) = "providers"}
      last == CHOOSE i \in at : \A j \in at : j <= i
  IN IF at = {} \/ last + 2 > Len(segs) THEN <<>> ELSE SubSeq(segs, last + 1, Len(segs))

mk(namespace, type, verb) == [namespace |-> namespace, type |-> type, verb |-> verb]
Denied == mk("", <<>>, <<>>)
Full(a) == <<a.namespace>> \o a.type \o a.verb

(* Reads of what no resource provider serves, "{}" any name. *)
providerLessRoutes ==
  {<<"subscriptions">>, <<"subscriptions", "{}">>, <<"subscriptions", "{}", "resourcegroups">>,
   <<"subscriptions", "{}", "resourcegroups", "{}">>, <<"subscriptions", "{}", "locations">>,
   <<"subscriptions", "{}", "providers">>, <<"subscriptions", "{}", "providers", "{}">>,
   <<"subscriptions", "{}", "tagnames">>, <<"subscriptions", "{}", "resources">>,
   <<"subscriptions", "{}", "resourcegroups", "{}", "resources">>, <<"tenants">>, <<"providers">>,
   <<"providers", "{}">>}
matchTemplate(template, segs) ==
  Len(template) = Len(segs) /\ \A i \in DOMAIN segs : template[i] \in {"{}", lower(segs[i])}

providerLessAction(method, segs) ==
  LET hits == {t \in providerLessRoutes : matchTemplate(t, segs)}
  IN IF method # "GET" \/ hits = {} THEN Denied
     ELSE mk("Microsoft.Resources", SelectSeq(CHOOSE t \in hits : TRUE, LAMBDA s : s # "{}"), <<"read">>)

(* The types of a path are its segments at odd places (from 1), names the others. *)
TypeSlots(rest) == {i \in DOMAIN rest : i % 2 = 1}
typePath(rest, n) == [k \in 1..((n + 1) \div 2) |-> rest[2 * k - 1]]

isPollShape(i, n) == i = n - 1 \/ (i = 1 /\ n = 1)
pollAction(method, namespace, rest) ==
  {mk(namespace, <<rest[i]>>, <<"read">>) :
     i \in {j \in TypeSlots(rest) : /\ method = "GET" /\ isPollShape(j, Len(rest))
                                    /\ rest[j] \in {"operations", "operationstatuses", "operationresults"}}}

(* The longest registered type, nothing unregistered behind it but a       *)
(* POST's verb.                                                            *)
resolveResourceType(types, method, rest) ==
  LET registered == {i \in TypeSlots(rest) : typePath(rest, i) \in types}
      longest == CHOOSE i \in registered : \A j \in registered : j <= i
      last == CHOOSE i \in TypeSlots(rest) : \A j \in TypeSlots(rest) : j <= i
  IN IF registered = {} \/ (last - longest) \div 2 > (IF method = "POST" THEN 1 ELSE 0)
     THEN {} ELSE {[type |-> typePath(rest, longest), token |-> rest[last]]}

postReadAllowList ==
  {<<"Microsoft.ResourceGraph", "resources", "resources">>, <<"Microsoft.OperationalInsights", "workspaces", "query">>,
   <<"Microsoft.Network", "networkwatchers", "topology">>}

postAction(catalog, namespace, type, token) ==
  LET parent == IF Len(type) > 1 /\ Last(type) = token THEN Front(type) ELSE type
  IN CASE Cardinality({o.verb : o \in LookupOperation(catalog, namespace, type, <<token>>)}) > 1 -> Denied
       [] <<namespace>> \o type \o <<token>> \in postReadAllowList -> mk(namespace, type, <<"read">>)
       [] OTHER -> mk(namespace, parent, <<token, "action">>)

verbAction(catalog, method, namespace, found) ==
  CASE method = "GET"              -> mk(namespace, found.type, <<"read">>)
    [] method \in {"PUT", "PATCH"} -> mk(namespace, found.type, <<"write">>)
    [] method = "DELETE"           -> mk(namespace, found.type, <<"delete">>)
    [] method = "POST"             -> postAction(catalog, namespace, found.type, found.token)
    [] OTHER                       -> Denied

DeriveAction(catalog, method, path) ==
  LET segs == splitPath(path)
      behind == resolveNamespace(segs)
      namespace == Head(behind)   rest == Tail(behind)
      polls == pollAction(method, namespace, rest)
      found == resolveResourceType(catalog[namespace].types, method, rest)
  IN CASE nonCanonicalPath(path) -> Denied
       [] ~nonCanonicalPath(path) /\ behind = <<>> -> providerLessAction(method, segs)
       [] ~nonCanonicalPath(path) /\ behind # <<>> ->
            IF polls # {} THEN CHOOSE a \in polls : TRUE
            ELSE IF namespace \notin DOMAIN catalog \/ found = {} THEN Denied
            ELSE verbAction(catalog, method, namespace, CHOOSE f \in found : TRUE)

(* Registered, and not a data action. *)
ValidateAction(catalog, a) ==
  LET at == {o \in LookupOperation(catalog, a.namespace, a.type, a.verb) : o.verb = a.verb}
  IN a.namespace \in DOMAIN catalog /\ at # {} /\ \A o \in at : ~o.data

(* A pattern of a role, "*" any run of characters; in this model whole     *)
(* names, at its start or its end.                                         *)
matchPattern(pattern, name) ==
  CASE pattern[1] = "*"     -> IsSuffix(Tail(pattern), name)
    [] Last(pattern) = "*"  -> IsStrictPrefix(Front(pattern), name)
    [] OTHER                -> pattern = name
Allowed(role, a) ==
  /\ \E p \in role.actions : matchPattern(p, Full(a))
  /\ ~\E p \in role.notActions : matchPattern(p, Full(a))

AuthorizeAction(catalog, role, r, claim) ==
  LET a == DeriveAction(catalog, r.method, r.path)
  IN /\ r.port \in {"", "443"} /\ claim.service # "" /\ a # Denied
     /\ a.namespace = claim.service /\ ValidateAction(catalog, a) /\ Allowed(role, a)

(* A request with a signature of its own is not given a token. *)
rejectModelSuppliedSAS(r) == r.sig
-----------------------------------------------------------------------------
(* The first role of that name or id, and all its permissions together. *)
matchesRole(rd, want) == want \in {rd.id, rd.name}
selectRolePermissions(defs, want) ==
  LET hits == {i \in DOMAIN defs : matchesRole(defs[i], want)}
      rd == defs[CHOOSE i \in hits : \A j \in hits : i <= j]
  IN IF hits = {} THEN {}
     ELSE {[actions |-> UNION {p.actions : p \in rd.permissions}, notActions |-> UNION {p.notActions : p \in rd.permissions}]}

(* The check of a documented path: its labels filled in, classified as a   *)
(* request is, where no label stands in a type's place.                    *)
staticShape(path) ==
  LET segs == splitPath(path)   behind == resolveNamespace(segs)
      types == IF behind = <<>> THEN segs ELSE Tail(behind)
  IN /\ \A i \in DOMAIN segs : segs[i] # "{+}"
     /\ behind # <<>> => behind[1] # "{}"
     /\ \A i \in TypeSlots(types) : types[i] # "{}"
checkGate(catalog, method, path) ==
  LET filled == [i \in DOMAIN path |-> IF path[i] = <<"{}">> THEN <<"x1">> ELSE path[i]]
      a == DeriveAction(catalog, method, filled)
  IN IF ~staticShape(path) THEN "not static"
     ELSE IF a # Denied /\ ValidateAction(catalog, a) THEN "recognized" ELSE "denied"
-----------------------------------------------------------------------------
(* Azure Resource Manager (external): what a request behind a provider     *)
(* runs.  The type is the whole path, a POST is for a token of the type    *)
(* before it and runs anything registered there.                           *)
AzureRuns(catalog, method, path) ==
  LET segs == splitPath(path)
      behind == resolveNamespace(segs)
      slots == TypeSlots(Tail(behind))
      type == typePath(Tail(behind), CHOOSE i \in slots : \A j \in slots : j <= i)
      verb == [GET |-> "read", PUT |-> "write", PATCH |-> "write", DELETE |-> "delete"]
      at == <<behind[1]>> \o type
  IN IF behind = <<>> \/ Head(behind) \notin DOMAIN catalog THEN {}
     ELSE {o \in catalog[Head(behind)].operations :
             IF method = "POST" THEN IsPrefix(at, o.name) /\ at \o <<Last(type)>> \notin postReadAllowList
             ELSE o.name = at \o <<verb[method]>>}
=============================================================================
