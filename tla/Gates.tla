------------------------------- MODULE Gates -------------------------------
(***************************************************************************)
(* The connectors' decisions, request by request: a connector with a       *)
(* posture (the role, policy or ceilings it was configured with) is asked  *)
(* for one request after the other, of every shape the paths, methods and  *)
(* hosts below allow, and admits or refuses it.  What is checked is that   *)
(* nothing an admitted request may run at the vendor is outside of the     *)
(* posture, however the vendor reads the path.                             *)
(***************************************************************************)
EXTENDS Naturals, Sequences, FiniteSets, TLC

CONSTANTS Connectors,   \* the connectors that are asked
          MaxTail       \* the longest path behind its fixed part

ASSUME GatesAssumption == MaxTail \in Nat

(* Segments with a custom verb, a format suffix, an escape. *)
Aws == INSTANCE AwsGate
Azure == INSTANCE AzureGate
Kube == INSTANCE KubeGate
Gcp == INSTANCE GcpGate WITH Colon <- ("{}:undelete" :> <<"{}", "undelete">>) @@ ("a:undelete" :> <<"a", "undelete">>)
Hub == INSTANCE GithubGate
Lab == INSTANCE GitlabGate WITH Plain <- (<<"%76ariables">> :> <<"variables">>),
                                Format <- (<<"variables.json">> :> <<"variables">>)

VARIABLES connector, posture, request, verdict

gateVars == <<connector, posture, request, verdict>>

Paths(segments, n) == UNION {[1..k -> segments] : k \in 0..n}
NoRequest == [method |-> "none"]
-----------------------------------------------------------------------------
(* Kubernetes: roles of one or two rules. *)
KubeRule(verbs, resources, names) ==
  [verbs |-> verbs, groups |-> {""}, resources |-> resources, names |-> names]
KubePostures ==
  {{KubeRule({"get", "list", "watch"}, {<<"pods">>, <<"namespaces">>}, {})},
   {KubeRule({"list", "deletecollection"}, {<<"*">>}, {})},
   {KubeRule({"get", "update"}, {<<"pods">>, <<"pods", "status">>}, {"x"}), KubeRule({"list"}, {<<"status">>}, {})}}

KubePaths ==
  {v \o scope \o tail \o slash :
     v \in {<<"api", "v1">>, <<"apis", "apps", "v1">>}, slash \in {<<>>, <<"">>},
     scope \in {<<>>, <<"namespaces", "x">>, <<"watch">>, <<"proxy">>, <<"watch", "namespaces", "x">>},
     tail \in Paths({"pods", "namespaces", "status", "x"}, MaxTail)} \cup {<<"">>, <<"version">>, <<"logs", "x">>}

KubeArgs(connector_, id, region) ==
  [connector |-> connector_, ids |-> {id}, region |-> region, configured |-> "us-gov-west-1"]
KubeRequests ==
  [method : {"GET", "PUT", "DELETE"}, path : KubePaths, watch : BOOLEAN, port : {""}, args : {KubeArgs("gke", "well formed", "")}]
  \cup [method : {"GET"}, path : {<<"api", "v1", "pods">>}, watch : {FALSE}, port : {"", "443", "6443"},
        args : {KubeArgs(c, id, region) : c \in {"eks", "gke", "aks"}, id \in {"well formed", "malformed"},
                                          region \in {"", "us-east-1", "us-gov-west-1", "elsewhere"}}]

KubeAdmits(rules, r) ==
  /\ Kube!validate(r.args)
  /\ Kube!authorizeAction([port |-> "443"], [status |-> 200, kind |-> "ClusterRole", rules |-> rules], r)

(* And a cluster of EKS is one of the partition the session is for. *)
KubeGranted(rules, r) ==
  /\ \A op \in Kube!Served(r.method, r.path, r.watch) : Kube!Granted(rules, op)
  /\ r.args.connector = "eks" => r.args.region \in {"", r.args.configured}
-----------------------------------------------------------------------------
(* AWS: S3 routes by its path, query and host, EC2 by an Action, DynamoDB  *)
(* by a header, and two services with different protocols share an         *)
(* endpoint, its signing name and a namespace.  The namespace of DynamoDB  *)
(* is another service's.                                                   *)
Op(name, method, uri, needs) == [name |-> name, method |-> method, uri |-> uri, needs |-> needs]
AwsDoc(prefix, protocol, ops, shadowed) ==
  [smithy |-> 2, service |-> TRUE, protocol |-> protocol, prefix |-> prefix, rules |-> {}, signing |-> prefix,
   operations |-> ops, dir |-> prefix, namespace |-> prefix, shadowed |-> shadowed, sdkID |-> prefix]

EmailDoc(dir, protocol, ops) ==
  [AwsDoc("email", protocol, ops, FALSE) EXCEPT !.signing = "ses", !.dir = dir, !.namespace = "ses"]

AwsModels ==
  UNION {Aws!ParseModel(d) : d \in
    {AwsDoc("s3", "rest", {Op("ListObjects", "GET", <<Aws!Label>>, {}),
                           Op("GetObject", "GET", <<Aws!Label, Aws!Greedy>>, {}),
                           Op("GetObjectAcl", "GET", <<Aws!Label, Aws!Greedy>>, {"acl"}),
                           Op("GetObjectTagging", "GET", <<Aws!Label, Aws!Greedy>>, {"tagging"}),
                           Op("ListConfigs", "GET", <<<<"b">>, Aws!Label>>, {})}, FALSE),
     AwsDoc("ec2", "query", {Op("DescribeInstances", "POST", <<>>, {}), Op("StopInstances", "POST", <<>>, {})}, FALSE),
     AwsDoc("dynamodb", "json", {Op("Scan", "POST", <<>>, {})}, TRUE),
     EmailDoc("ses", "query", {Op("SendEmail", "POST", <<>>, {}), Op("DeleteIdentity", "POST", <<>>, {})}),
     EmailDoc("sesv2", "rest", {Op("CreateEmailIdentity", "POST", <<<<"a">>>>, {}),
                                Op("GetEmailIdentity", "GET", <<<<"a">>, Aws!Label>>, {})})}}

ASSUME AwsModelsAssumption == Aws!WellFormed(AwsModels)

AwsRef == {[key |-> "dynamodb", op |-> "Scan", sdks |-> <<>>, actions |-> {<<"dynamodb", "Scan">>}],
           [key |-> "s3", op |-> "ListObjects", sdks |-> <<>>, actions |-> {<<"s3", "ListBucket">>}]}
AwsDataset == [methods |-> {[sdk |-> "S3", op |-> "GetObjectAcl", actions |-> {<<"s3", "GetObjectAcl">>, <<"s3", "GetObject">>}],
                            [sdk |-> "DynamoDB", op |-> "Scan", actions |-> {<<"dynamodb", "Scan">>}]},
               fold |-> ("s3" :> <<"S3">>), prefix |-> <<>>, like |-> ("dynamodb" :> {"DynamoDB"})]
NoDataset == [methods |-> {}, fold |-> <<>>, prefix |-> <<>>, like |-> <<>>]

AwsActions ==
  {<<"s3", "ListBucket">>, <<"dynamodb", "Scan">>} \cup UNION {{<<m.namespace, o.name>> : o \in m.operations} : m \in AwsModels}

(* All but one action allowed, from the sources of actions that were reached. *)
AwsPostures ==
  [denied : AwsActions, ref : {AwsRef, {}}, dataset : {AwsDataset, NoDataset}]
AwsSimulate(p) == [a \in AwsActions |-> IF a = p.denied THEN "denied" ELSE "allowed"]

AwsHosts ==
  {<<<<"s3">>, <<"amazonaws">>, <<"com">>>>, <<<<"x">>, <<"s3">>, <<"us-east-1">>, <<"amazonaws">>, <<"com">>>>,
   <<<<"s3">>, <<"cn-north-1">>, <<"amazonaws">>, <<"com">>, <<"cn">>>>, <<<<"s3">>, <<"amazonaws">>, <<"com">>, <<"cn">>>>,
   <<<<"vpce", "s3">>, <<"amazonaws">>, <<"com">>>>}
AwsRequest(host, method, path, carries, target, url, body) ==
  [host |-> host, port |-> "", method |-> method, path |-> path, carries |-> carries, target |-> target,
   urlActions |-> url, bodyActions |-> body, claim |-> [service |-> Aws!ParseHost(host).service, region |-> ""]]

AwsRequests ==
  {AwsRequest(h, "GET", p, c, "", <<>>, <<>>) :
     h \in {a \in AwsHosts : a[Len(a)] # <<"cn">>}, c \in {{}, {"acl"}, {"acl", "tagging"}},
     p \in Paths({<<"a">>, <<"b">>, <<"">>, <<"b", "a">>}, MaxTail) \ {<<>>}}
  \cup {AwsRequest(<<<<s>>, <<"us-east-1">>, <<"amazonaws">>, <<"com">>>>, m, <<Aws!Empty>>, {}, t, u, b) :
     s \in {"ec2", "dynamodb"}, m \in {"GET", "POST"}, t \in {"", "Scan", "Drop"},
     u \in Paths({"DescribeInstances", "StopInstances"}, 1), b \in Paths({"DescribeInstances", "StopInstances"}, 2)}
  \cup {AwsRequest(<<<<"email">>, <<"us-east-1">>, <<"amazonaws">>, <<"com">>>>, m, p, {}, "", u, b) :
     m \in {"GET", "POST"}, p \in {<<Aws!Empty>>, <<<<"a">>>>, <<<<"a", "b">>>>},
     u \in Paths({"SendEmail"}, 2), b \in Paths({"SendEmail", "DeleteIdentity"}, 2)}
  \cup {[AwsRequest(h, "GET", <<<<"a">>>>, {}, "", <<>>, <<>>) EXCEPT !.claim = [service |-> s, region |-> region]] :
     h \in AwsHosts, s \in {"s3", "ec2", ""}, region \in {"", "us-east-1", "cn-north-1", "aws-global"}}

(* Signed for the service and the region of the host, not of the claim. *)
AwsSigned(r) ==
  [service |-> Aws!canonicalSigningName(AwsModels, r.host, r.claim), region |-> Aws!signingRegion(r.host, r.claim, "us-gov-west-1")]
AwsAdmits(p, r) ==
  /\ Aws!AuthorizesHost(AwsModels, r.host, r.claim)
  /\ Aws!AuthorizeAction(AwsModels, p.ref, p.dataset, AwsSimulate(p), r)

AwsGranted(p, r) ==
  /\ \A run \in Aws!AwsRuns(AwsModels, r) :
       /\ p.denied \notin Aws!Resolve(run[1], run[2], p.ref, p.dataset)
       /\ run[1].signing = AwsSigned(r).service
  /\ (AwsSigned(r).region = "cn-north-1") <=> (r.host[Len(r.host)] = <<"cn">>)
-----------------------------------------------------------------------------
(* Azure: one provider with a listed action, a type below a type and a     *)
(* data action; roles that allow a part of it.                             *)
AzureOp(name, data) == [name |-> name, data |-> data]
AzureResponse ==
  {[name |-> "Microsoft.Storage",
    operations |-> {AzureOp(<<"Microsoft.Storage", "accounts", "keys", "action">>, FALSE),
                    AzureOp(<<"Microsoft.Storage", "accounts", "blobs", "read">>, TRUE)},
    types |-> {[name |-> <<"accounts">>,
                operations |-> {AzureOp(<<"Microsoft.Storage", "accounts", v>>, FALSE) : v \in {"read", "write", "delete"}}],
               [name |-> <<"accounts", "keys">>,
                operations |-> {AzureOp(<<"Microsoft.Storage", "accounts", "keys", "read">>, FALSE)}],
               [name |-> <<"accounts", "blobs">>, operations |-> {}]}]}
AzureCatalog == Azure!collectProviderOps(AzureResponse)

(* What the clouds answer with, and a catalog some earlier session left.   *)
AzureManagers == ("AzurePublic" :> "management.azure.com") @@ ("AzureChina" :> "management.chinacloudapi.cn")
AzureAnswers == [c \in DOMAIN AzureManagers |-> [ok |-> TRUE, shape |-> "object", resourceManager |-> AzureManagers[c]]]
AzureRole(actions, notActions) == [actions |-> actions, notActions |-> notActions]
AzureClouds == {Azure!ResolveCloudConfig(conf, env, cli, DOMAIN AzureManagers) :
                  conf \in {"auto", "public"}, env \in {"", "AzureChina"}, cli \in {"", "AzureChina"}}
AzureCatalogs ==
  [cloud \in AzureClouds |->
     {c \in Azure!buildCatalog(Azure!applyCloudScope(cloud, AzureAnswers), AzureCatalog)
              \cup Azure!buildCatalog(AzureAnswers, AzureCatalog) : Azure!scopedParse(cloud, c)}]
AzureRoles ==
  UNION {Azure!selectRolePermissions(<<[id |-> "1", name |-> "Reader", permissions |-> {p}]>>, "Reader") : p \in
    {AzureRole({<<"*", "read">>}, {}), AzureRole({<<"Microsoft.Storage", "*">>}, {<<"*", "read">>}),
     AzureRole({<<"Microsoft.Storage", "accounts", "keys", "action">>}, {}),
     AzureRole({<<"Microsoft.Storage", "*">>}, {<<"Microsoft.Storage", "accounts", "keys", "*">>})}}
AzurePostures == [role : AzureRoles, cloud : AzureClouds]

AzureRequests ==
  {[method |-> m, path |-> start \o tail, port |-> "", host |-> h, sig |-> Len(tail) = 0] :
     m \in {"GET", "PUT", "DELETE", "POST"}, h \in {"management.azure.com", "management.chinacloudapi.cn", "x.blob"},
     start \in {<<>>, <<<<"subscriptions">>, <<"s">>>>,
                <<<<"subscriptions">>, <<"s">>, <<"Providers">>, <<"Microsoft.Storage">>>>},
     tail \in Paths({<<"accounts">>, <<"keys">>, <<"blobs">>, <<"">>, <<"keys", "a">>}, MaxTail)}

AzureClaim == [service |-> "Microsoft.Storage", cloud |-> ""]
AzureAdmits(p, r) ==
  /\ \E c \in AzureCatalogs[p.cloud] : /\ Azure!AuthorizesHost(c.clouds, r.host, AzureClaim)
                                       /\ Azure!AuthorizeAction(c.providers, p.role, r, AzureClaim)
  /\ ~Azure!rejectModelSuppliedSAS(r)

(* The paths of the documentation, with labels, that a request fills in.   *)
AzureDocs(path) ==
  {[i \in DOMAIN path |-> IF i \in labels THEN <<"{}">> ELSE path[i]] : labels \in SUBSET DOMAIN path}

(* Only to the resource manager of the session's cloud, and never what the *)
(* check of a documented path calls denied.                                *)
AzureGranted(p, r) ==
  /\ \A o \in Azure!AzureRuns(AzureCatalog, r.method, r.path) :
       /\ ~o.data
       /\ \E a \in p.role.actions : Azure!matchPattern(a, o.name)
       /\ ~\E a \in p.role.notActions : Azure!matchPattern(a, o.name)
  /\ r.host = AzureManagers[p.cloud]
  /\ \A doc \in AzureDocs(r.path) : Azure!checkGate(AzureCatalog, r.method, doc) # "denied"
-----------------------------------------------------------------------------
(* Google Cloud: two documents of one service, whose methods share an id,  *)
(* and Cloud Storage, which routes an escaped slash as a part of a name.   *)
GcpMethod(id, method, path) == [id |-> id, method |-> method, path |-> path, flatPath |-> <<>>]
GcpDoc(name, root, methods) ==
  [name |-> name, root |-> root, mtls |-> root \o <<<<"mtls">>>>, endpoints |-> {}, servicePath |-> <<<<name>>>>,
   methods |-> methods, ok |-> TRUE]
GcpServices ==
  Gcp!assembleCatalog(<<
    GcpDoc("compute", <<<<"compute">>>>,
           {GcpMethod(<<"compute", "zones", "list">>, "GET", <<<<"zones">>>>),
            GcpMethod(<<"compute", "zones", "get">>, "GET", <<<<"zones">>, <<"{}">>>>),
            GcpMethod(<<"compute", "all", "get">>, "GET", <<<<"{}">>, <<"a">>>>),
            GcpMethod(<<"compute", "zones", "undelete">>, "POST", <<<<"zones">>, <<"{}:undelete">>>>)}),
    GcpDoc("compute", <<<<"compute">>>>,
           {GcpMethod(<<"compute", "zones", "list">>, "GET", <<<<"{}">>>>),
            GcpMethod(<<"compute", "parts", "get">>, "GET", <<<<"zones">>, <<"{}">>, <<"{}">>>>)}),
    GcpDoc("storage", <<<<"storage">>>>,
           {GcpMethod(<<"storage", "objects", "get">>, "GET", <<<<"b">>, <<"{}">>>>),
            GcpMethod(<<"storage", "acl", "get">>, "GET", <<<<"b">>, <<"{}">>, <<"{}">>>>)})>>)

GcpPermissions ==
  [testable |-> {<<"compute", "zones", "list">>, <<"compute", "zones", "get">>, <<"compute", "all", "get">>,
                 <<"compute", "parts", "get">>, <<"storage", "objects", "get">>},
   dataset |-> (<<"compute", "zones", "undelete">> :> {<<"compute", "zones", "update">>}),
   overrides |-> (<<"storage", "acl", "get">> :> {<<"storage", "objects", "getIamPolicy">>}),
   pinned |-> {<<"compute", "zones", "list">>}]
GcpGrants ==
  GcpPermissions.testable \cup {<<"compute", "zones", "update">>, <<"storage", "objects", "getIamPolicy">>}

(* A role without one of the permissions. *)
GcpPostures ==
  UNION {Gcp!FetchRolePermissions([deleted |-> FALSE, stage |-> "GA", included |-> GcpGrants \ {p}]) : p \in GcpGrants}

GcpHosts ==
  {<<<<"compute">>>>, <<<<"storage">>>>, <<<<"a">>, <<"storage">>>>, <<<<"www">>>>, <<<<"compute">>, <<"mtls">>>>, <<<<"private">>>>}
GcpRequests ==
  {[host |-> h, port |-> "", method |-> m, path |-> start \o tail] :
     h \in GcpHosts, m \in {"GET", "POST"}, start \in {<<<<"compute">>>>, <<<<"storage">>>>},
     tail \in Paths({<<"zones">>, <<"Zones">>, <<"a">>, <<"b">>, <<"a", "a">>, <<"a:undelete">>, <<"">>}, MaxTail)}

GcpClaim(r) == [service |-> r.path[1][1], location |-> ""]
GcpAdmits(granted, r) ==
  /\ Gcp!AuthorizesHost(GcpServices, r.host, GcpClaim(r))
  /\ Gcp!AuthorizeAction(GcpServices, GcpPermissions, granted, r, GcpClaim(r))

GcpGranted(granted, r) ==
  \A svc \in Gcp!resolveService(GcpServices, r) : \A id \in Gcp!GcpRuns(GcpServices, svc, r) :
    id \in GcpPermissions.pinned \/ Gcp!Resolve(id, GcpPermissions) \subseteq granted
-----------------------------------------------------------------------------
(* GitHub and GitLab: their tables, and the operator's levels. *)
HubRoute(method, segments, category, sub) ==
  [method |-> method, segments |-> segments, category |-> category, subcategory |-> sub]
HubDocs ==
  {{HubRoute("GET", <<<<"repos">>, <<"{}">>>>, "repos", ""),
    HubRoute("GET", <<<<"repos">>, <<"{}">>, <<"{...}">>>>, "repos", "contents"),
    HubRoute("GET", <<<<"repos">>, <<"{}">>, <<Hub!SecretScanning>>>>, category, ""),
    HubRoute("PUT", <<<<"repos">>, <<"{...}">>, <<"lock">>>>, "repos", "lock"),
    HubRoute("POST", <<<<"markdown">>>>, "markdown", "")} : category \in {Hub!SecretScanning, "repos"}}

HubPostures ==
  {[tables |-> {t \in Hub!DistillOpenAPI(doc) : Hub!AdmitTable(t)},
    levels |-> Hub!BuildExposure(Hub!BaselineExposure, operator), table |-> doc] :
      doc \in HubDocs,
      operator \in {<<>>, (<<"repos">> :> "write"), (<<"repos">> :> "none") @@ (<<"repos", "lock">> :> "write"),
                    (<<"default">> :> "none") @@ (<<"repos">> :> "read") @@ (<<"typo">> :> "all")}}

HubRequests ==
  [host : {"api.github.com", "codeload.github.com"}, port : {""}, method : {"GET", "HEAD", "PUT", "POST", "TRACE"},
   path : {<<<<"markdown">>>>, <<<<"graphql">>, <<"">>>>} \cup Paths({<<"repos">>, <<"a">>, <<"lock">>, <<Hub!SecretScanning>>, <<"">>}, MaxTail + 1)]

HubAdmits(p, r) == Hub!AuthorizesHost(r.host) /\ Hub!AuthorizeAction(p.tables, p.levels, r)

(* The ceilings as the line of the inventory has them. *)
Told(e, sensitive) ==
  LET line == Hub!CompactCeiling(e, sensitive)
  IN (Hub!Default :> line.default) @@ (<<sensitive>> :> line.sensitive) @@ line.overrides
Sensitive(t, name) == \E i \in DOMAIN t.segments : t.segments[i] = <<name>>
ForgeNeed(r) == IF r.method \in {"GET", "HEAD"} \/ r.path[Len(r.path)] = <<"markdown">> THEN 1 ELSE 2

HubGranted(p, r) ==
  r.host = "api.github.com" =>
    \A t \in Hub!GithubRuns(p.table, r) :
      /\ Hub!Resolve(Told(p.levels, Hub!SecretScanning), t) >= ForgeNeed(r)
      /\ Sensitive(t, Hub!SecretScanning) => p.levels[<<Hub!SecretScanning>>] >= ForgeNeed(r)
      /\ ForgeNeed(r) = 2 \/ Sensitive(t, Hub!SecretScanning) => Hub!PostureLoud(p.levels, Hub!SecretScanning)

(* The variables of the instance, of a project or of a file of it, in one  *)
(* path of two optional groups.                                            *)
LabDoc ==
  {[method |-> m, segments |-> <<<<"api">>, <<"v4">>>> \o s, tag |-> tag, optional |-> groups] :
     <<m, s, tag, groups>> \in
       {<<"GET", <<<<"projects">>>>, "projects", {}>>, <<"GET", <<<<"projects">>, <<"{}">>>>, "projects", {}>>,
        <<"GET", <<<<"projects">>, <<"{}">>, <<"a">>, <<"variables">>>>, "projects", {{3, 4}, {5}}>>,
        <<"GET", <<<<"projects">>, <<"{}">>, <<"{}">>>>, "files", {}>>, <<"GET", <<<<"{}">>>>, "features", {}>>,
        <<"PUT", <<<<"projects">>, <<"{}">>>>, "projects", {}>>, <<"POST", <<<<"markdown">>>>, "markdown", {}>>}}
LabPostures ==
  {[tables |-> {t \in Lab!DistillOpenAPI(LabDoc) : Lab!AdmitTable(t)},
    levels |-> Lab!BuildExposure(Lab!BaselineExposure, operator)] :
      operator \in {<<>>, (<<"projects">> :> "write"), (<<"projects">> :> "none") @@ (<<Lab!CiVariables>> :> "read")}}

LabRequests ==
  {[port |-> "", method |-> m, path |-> <<<<"api">>, <<"v4">>>> \o tail, query |-> q, header |-> {}, body |-> b] :
     m \in {"GET", "HEAD", "PUT", "POST"}, q \in {{}, {"sudo"}}, b \in {{}, {"job_token"}},
     tail \in (Paths({<<"projects">>, <<"a">>, <<"variables">>, <<"%76ariables">>, <<"variables.json">>, <<"graphql">>}, MaxTail) \ {<<>>}) \cup {<<<<"markdown">>>>}}

Before == {}     \* no two templates tie in this table
LabAdmits(p, r) == Lab!AuthorizeAction(p.tables, p.levels, r, "443", Before)
LabGranted(p, r) ==
  \A t \in Lab!GitlabRuns(LabDoc, r) :
    /\ Sensitive(t, "variables") \/ Lab!Resolve(Told(p.levels, Lab!CiVariables), t) >= ForgeNeed(r)
    /\ Sensitive(t, "variables") => p.levels[<<Lab!CiVariables>>] >= ForgeNeed(r)
    /\ ForgeNeed(r) = 2 \/ Sensitive(t, "variables") => Lab!PostureLoud(p.levels, Lab!CiVariables)
-----------------------------------------------------------------------------
Postures(c) ==
  CASE c = "kubernetes" -> KubePostures [] c = "aws" -> AwsPostures [] c = "azure" -> AzurePostures
    [] c = "gcp" -> GcpPostures [] c = "github" -> HubPostures [] c = "gitlab" -> LabPostures

GateInit ==
        /\ connector \in Connectors
        /\ posture \in Postures(connector)
        /\ request = NoRequest /\ verdict = "none"

Judge(c, requests, Admits(_, _)) ==
  /\ connector = c /\ verdict = "none"
  /\ \E r \in requests : /\ request' = r
                         /\ verdict' = IF Admits(posture, r) THEN "admitted" ELSE "refused"
  /\ UNCHANGED <<connector, posture>>

JudgeKube == Judge("kubernetes", KubeRequests, KubeAdmits)
JudgeAws == Judge("aws", AwsRequests, AwsAdmits)
JudgeAzure == Judge("azure", AzureRequests, AzureAdmits)
JudgeGcp == Judge("gcp", GcpRequests, GcpAdmits)
JudgeGithub == Judge("github", HubRequests, HubAdmits)
JudgeGitlab == Judge("gitlab", LabRequests, LabAdmits)

Answered == /\ verdict # "none"
            /\ request' = NoRequest /\ verdict' = "none" /\ UNCHANGED <<connector, posture>>

GateNext == JudgeKube \/ JudgeAws \/ JudgeAzure \/ JudgeGcp \/ JudgeGithub \/ JudgeGitlab \/ Answered

-----------------------------------------------------------------------------
(* k8s/policy.go, aws/provider.go, azure/provider.go, gcp/provider.go:     *)
(* whatever the API server or the cloud runs for a request that was        *)
(* admitted, however it reads the path, is in the role or the policy; it   *)
(* goes to, and is signed for, the partition or cloud of the session; and  *)
(* the gate check of api_reference called no such path denied.             *)
CloudOnlyGranted ==
  verdict = "admitted" =>
    CASE connector = "kubernetes" -> KubeGranted(posture, request)
      [] connector = "aws"        -> AwsGranted(posture, request)
      [] connector = "azure"      -> AzureGranted(posture, request)
      [] connector = "gcp"        -> GcpGranted(posture, request)
      [] OTHER                    -> TRUE

(* github/classifier.go, gitlab/classifier.go: whatever the forge serves a *)
(* request that was admitted with is within the ceiling of its category,   *)
(* and secrets only within that of secrets, as the inventory told it at    *)
(* startup: loudly where there is anything to write or a secret to read.   *)
ForgeOnlyGranted ==
  verdict = "admitted" =>
    CASE connector = "github" -> HubGranted(posture, request)
      [] connector = "gitlab" -> LabGranted(posture, request)
      [] OTHER                -> TRUE
=============================================================================
