------------------------------ MODULE AwsGate ------------------------------
(***************************************************************************)
(* What the AWS connector decides without state: the service and region a  *)
(* host belongs to, the claim of a call against them, the operations a     *)
(* request may run, and the IAM actions those need.                        *)
(*                                                                         *)
(* A host is the sequence of its labels, and a label the sequence of its   *)
(* parts between hyphens; a region is one part.  A URI template is a path  *)
(* whose segments may be Label (one segment) or Greedy (one or more).      *)
(***************************************************************************)
EXTENDS Naturals, FiniteSets, Paths

NoHost == [service |-> "", region |-> "", partition |-> "", bucket |-> FALSE]
Host(service, region) == [NoHost EXCEPT !.service = service, !.region = region, !.partition = "aws"]

EndsIn(host, tail) == Len(host) > Len(tail) /\ SubSeq(host, Len(host) - Len(tail) + 1, Len(host)) = tail
Before(host, tail) == SubSeq(host, 1, Len(host) - Len(tail))
AmazonAWS == <<<<"amazonaws">>, <<"com">>>>
China == AmazonAWS \o <<<<"cn">>>>
GovCloud == <<<<"us-gov">>>> \o AmazonAWS

Joined(labels) ==   \* of a name: "api.ecr" is not "ecr"
  IF Len(labels) = 1 /\ Len(labels[1]) = 1 THEN labels[1][1]
  ELSE IF labels = <<<<"api">>, <<"ecr">>>> THEN "api.ecr"
  ELSE IF labels = <<<<"s3", "control">>>> THEN "s3-control" ELSE "other"
Region(label) == Joined(<<label>>)

CanonicalGlobalRegion(p) ==
  CASE p.partition = "aws-cn" -> "cn-north-1" [] p.partition = "aws-us-gov" -> "us-gov-west-1"
    [] OTHER -> "us-east-1"

(* <service>.<suffix> is global, <service>.<region>.<suffix> is not. *)
parseStandardPartition(host, suffix, partition) ==
  LET body == Before(host, suffix)
  IN [NoHost EXCEPT !.partition = partition,
        !.service = Joined(IF Len(body) = 1 THEN body ELSE Front(body)),
        !.region = IF Len(body) = 1 THEN "" ELSE Region(Last(body))]

(* <leading>.<infix>[-fips].[dualstack.]<region>: the region, or none. *)
matchAccountScopedS3(host, infix, leads) ==
  LET suffix == IF EndsIn(host, China) THEN China ELSE AmazonAWS
      body == Tail(Before(host, suffix))
      tail == IF Len(body) > 2 /\ body[2] = <<"dualstack">> THEN SubSeq(body, 3, Len(body)) ELSE Tail(body)
  IN IF leads /\ EndsIn(host, suffix) /\ Len(host) > Len(suffix) + 1
        /\ body[1] \in {infix, Append(infix, "fips")} /\ Len(tail) = 1
     THEN Region(tail[1]) ELSE ""

isAWSAccountID(label) == label = <<"111122223333">>
hasAccountSuffix(label) == Len(label) > 1 /\ Last(label) = "111122223333"

tryS3Control(host) ==
  Host("s3-control", matchAccountScopedS3(host, <<"s3", "control">>, isAWSAccountID(host[1])))
tryS3AccessPoint(host) ==
  [Host("s3", matchAccountScopedS3(host, <<"s3", "accesspoint">>, hasAccountSuffix(host[1]))) EXCEPT !.bucket = TRUE]

(* s3-<region>, s3, s3.<region>, <bucket>.s3 and <bucket>.s3.<region>. *)
tryS3Patterns(host) ==
  LET body == Before(host, AmazonAWS)
      s3 == {i \in 2..Len(body) : body[i] = <<"s3">>}
      first == CHOOSE i \in s3 : \A j \in s3 : i <= j
  IN IF ~EndsIn(host, AmazonAWS) THEN NoHost
     ELSE IF Len(body) = 1 /\ Len(body[1]) > 1 /\ body[1][1] = "s3" THEN Host("s3", Joined(<<Tail(body[1])>>))
     ELSE IF body = <<<<"s3">>>> THEN Host("s3", "us-east-1")
     ELSE IF Len(body) = 2 /\ body[1] = <<"s3">> THEN Host("s3", Region(body[2]))
     ELSE IF Len(body) > 1 /\ Last(body) = <<"s3">> THEN [Host("s3", "us-east-1") EXCEPT !.bucket = TRUE]
     ELSE IF s3 # {} /\ first = Len(body) - 1 THEN [Host("s3", Region(Last(body))) EXCEPT !.bucket = TRUE]
     ELSE NoHost

(* <name>.<marker>.<region>, the first marker of the host. *)
tryInfixService(host, marker, service, suffix) ==
  LET body == Before(host, suffix)
      at == {i \in 2..Len(body) : body[i] = marker}
  IN IF EndsIn(host, suffix) /\ at # {} /\ \A i \in at : i >= Len(body) - 1 /\ Len(body) - 1 \in at
     THEN Host(service, Region(Last(body))) ELSE NoHost

tryLambdaURL(host) == tryInfixService(host, <<"lambda", "url">>, "lambda", <<<<"on">>, <<"aws">>>>)

tryDualstackAPIAWS(host) ==
  IF EndsIn(host, <<<<"api">>, <<"aws">>>>) /\ Len(host) = 4 THEN Host(Region(host[1]), Region(host[2])) ELSE NoHost

tryS3Dualstack(host) ==
  IF EndsIn(host, AmazonAWS) /\ Len(host) = 5 /\ host[1] = <<"s3">> /\ host[2] = <<"dualstack">>
  THEN Host("s3", Region(host[3])) ELSE NoHost

tryOpenSearch(host) ==
  IF EndsIn(host, <<<<"es">>>> \o AmazonAWS) /\ Len(host) > 4 THEN Host("es", Region(host[Len(host) - 3])) ELSE NoHost

(* <service>-fips and <service>-fips.<region>, cut at the first. *)
tryFIPS(host) ==
  LET body == Before(host, AmazonAWS)
      fips == {i \in DOMAIN body : \E j \in 2..Len(body[i]) : body[i][j] = "fips"}
      at == CHOOSE i \in fips : \A k \in fips : i <= k
  IN IF EndsIn(host, AmazonAWS) /\ fips # {} /\ Len(body) - at < 2 /\ \A j \in 2..(Len(body[at]) - 1) : body[at][j] # "fips"
        /\ Last(body[at]) = "fips"
     THEN Host(Joined(Append(SubSeq(body, 1, at - 1), Front(body[at]))), IF at = Len(body) THEN "" ELSE Region(Last(body)))
     ELSE NoHost

(* The first pattern that fits decides. *)
ParseHost(host) ==
  LET tries == << IF tryS3Control(host).region = "" THEN NoHost ELSE tryS3Control(host),
                  IF tryS3AccessPoint(host).region = "" THEN NoHost ELSE tryS3AccessPoint(host),
                  IF EndsIn(host, China) THEN parseStandardPartition(host, China, "aws-cn") ELSE NoHost,
                  IF EndsIn(host, GovCloud) THEN parseStandardPartition(host, GovCloud, "aws-us-gov") ELSE NoHost,
                  tryS3Patterns(host), tryLambdaURL(host), tryDualstackAPIAWS(host), tryS3Dualstack(host),
                  tryInfixService(host, <<"execute", "api">>, "execute-api", AmazonAWS), tryOpenSearch(host),
                  tryInfixService(host, <<"iot">>, "iotdata", AmazonAWS), tryFIPS(host),
                  IF EndsIn(host, AmazonAWS) THEN parseStandardPartition(host, AmazonAWS, "aws") ELSE NoHost >>
      fits == {i \in DOMAIN tries : tries[i] # NoHost}
  IN IF Len(host) < 2 \/ host[1][1] = "vpce" \/ fits = {}     \* an empty host, an address, localhost
     THEN NoHost ELSE tries[CHOOSE i \in fits : \A j \in fits : i <= j]
-----------------------------------------------------------------------------
(* A claim leaves the region open, or gives the host's. *)
Verify(parsed, claim) ==
  /\ parsed.service = IF claim.service = "s3control" THEN "s3-control" ELSE claim.service
  /\ \/ claim.region \in {"", parsed.region}
     \/ parsed.region = "" /\ claim.region \in {"aws-global", "us-east-1", "us-gov-west-1", "cn-north-1"}

serving(models, parsed) == {m \in models : m.prefix = parsed.service}

(* The name requests are signed with, where the models agree on one. *)
ResolveSigningName(models, parsed) ==
  LET names == {m.signing : m \in serving(models, parsed)}
  IN IF Cardinality(names) = 1 THEN CHOOSE n \in names : TRUE ELSE ""

(* The claim names the host's service, or the name it is signed with. *)
AuthorizesHost(models, host, claim) ==
  LET parsed == ParseHost(host)
      alias == ResolveSigningName(models, parsed)
  IN /\ parsed # NoHost /\ claim.service # ""
     /\ \/ Verify(parsed, claim)
        \/ claim.service # parsed.service /\ alias # "" /\ Verify([parsed EXCEPT !.service = alias], claim)

canonicalSigningName(models, host, claim) ==
  LET alias == ResolveSigningName(models, ParseHost(host)) IN IF alias = "" THEN claim.service ELSE alias

resolveRegion(claimed, sdk) == CASE claimed # "" -> claimed [] claimed = "" /\ sdk # "" -> sdk [] OTHER -> "us-east-1"

(* Whatever was claimed, the region of the host. *)
signingRegion(host, claim, sdk) ==
  LET parsed == ParseHost(host)
  IN CASE parsed = NoHost      -> resolveRegion(claim.region, sdk)
       [] parsed.region # ""   -> parsed.region
       [] OTHER                -> CanonicalGlobalRegion(parsed)
-----------------------------------------------------------------------------
Label == <<"{}">>
Greedy == <<"{+}">>

(* The host of a virtual-hosted request has the first label of its path. *)
HostBucket == <<"bucket of the host">>
classificationSegments(parsed, segs) ==
  IF ~parsed.bucket THEN segs ELSE <<HostBucket>> \o (IF segs = <<Empty>> THEN <<>> ELSE segs)

matchSegment(t, segs, i) == i \in DOMAIN segs /\ (IF t = Label THEN segs[i] # Empty ELSE segs[i] = t)

(* A greedy label takes what the template after it leaves, but not nothing. *)
matchGreedy(suffix, segs, i) ==
  LET end == Len(segs) - Len(suffix)     \* the last segment it takes
  IN /\ end >= i /\ ~(end = i /\ segs[i] = Empty)
     /\ \A j \in DOMAIN suffix : matchSegment(suffix[j], segs, end + j)

matchURITemplate(template, segs) ==
  LET greedy == {i \in DOMAIN template : template[i] = Greedy}
      first == IF greedy = {} THEN Len(template) + 1 ELSE CHOOSE i \in greedy : \A j \in greedy : i <= j
  IN /\ \A i \in 1..(first - 1) : matchSegment(template[i], segs, i)
     /\ IF greedy = {} THEN Len(segs) = Len(template)
        ELSE matchGreedy(SubSeq(template, first + 1, Len(template)), segs, first)

(* Literal before label before greedy, at the first place they differ; the *)
(* longer one; and the one that needs more of the query and the header.    *)
templateShape(template) ==
  [i \in DOMAIN template |-> CASE template[i] = Greedy -> 0 [] template[i] = Label -> 1 [] OTHER -> 2]

compareCandidates(a, b) ==   \* a outranks b
  LET s == templateShape(a.uri)   t == templateShape(b.uri)
      differ == {i \in DOMAIN s \cap DOMAIN t : s[i] # t[i]}
      at == CHOOSE i \in differ : \A j \in differ : i <= j
  IN \/ differ # {} /\ s[at] > t[at]
     \/ differ = {} /\ Len(s) > Len(t)
     \/ differ = {} /\ Len(s) = Len(t) /\ Cardinality(a.needs) > Cardinality(b.needs)

topCandidates(hits) == {h \in hits : \A g \in hits : ~compareCandidates(g, h)}

(* needs: flags of the template's query but x-id, and what the input       *)
(* requires in the query and the header.                                   *)
scoreDiscriminators(op, r) == op.needs \subseteq r.carries

classifyREST(model, r, segs) ==
  topCandidates({op \in model.operations :
                   op.method = r.method /\ matchURITemplate(op.uri, segs) /\ scoreDiscriminators(op, r)})

(* The operations of every reading, for each may be the server's. *)
classifyRESTReadings(model, r, parsed) ==
  UNION {classifyREST(model, r, classificationSegments(parsed, segs)) : segs \in PathReadings(r.path)}

named(model, name) == {op \in model.operations : op.name = name}

classifyJSONRPC(model, r) == named(model, r.target)

(* Exactly one Action: a GET's in its URL, a POST's in its body alone. *)
NoName == ""
singleAction(actions) == IF Len(actions) = 1 THEN actions[1] ELSE NoName
classifyQuery(model, r) ==
  CASE r.method = "GET"                         -> named(model, singleAction(r.urlActions))
    [] r.method = "POST" /\ r.urlActions = <<>> -> named(model, singleAction(r.bodyActions))
    [] OTHER                                    -> {}

ClassifyOperation(model, r, parsed) ==
  CASE model.protocol = "rest"  -> classifyRESTReadings(model, r, parsed)
    [] model.protocol = "json"  -> classifyJSONRPC(model, r)
    [] model.protocol = "query" -> classifyQuery(model, r)
    [] OTHER                    -> {}
-----------------------------------------------------------------------------
(* What a model's document must have, and what it leaves open: the prefix  *)
(* is that of the service, or the shortest plain one (rank) of its rules.  *)
prefixFromRuleset(rules) ==
  LET plain == {u \in rules : u.https /\ u.open /\ ~u.fips /\ u.prefix # ""}
  IN IF plain = {} THEN "" ELSE (CHOOSE u \in plain : \A v \in plain : u.rank <= v.rank).prefix
extractEndpointPrefix(doc) == IF doc.prefix # "" THEN doc.prefix ELSE prefixFromRuleset(doc.rules)

ParseModel(doc) ==
  LET prefix == extractEndpointPrefix(doc)
  IN IF doc.smithy # 2 \/ ~doc.service \/ doc.protocol = "" \/ prefix = "" THEN {}
     ELSE {[prefix |-> prefix, signing |-> IF doc.signing = "" THEN prefix ELSE doc.signing,
            protocol |-> doc.protocol, operations |-> doc.operations, dir |-> doc.dir,
            namespace |-> doc.namespace, shadowed |-> doc.shadowed, sdkID |-> doc.sdkID]}
-----------------------------------------------------------------------------
(* The two sources of actions.  The service reference has entries [key,    *)
(* op, sdks, actions]; the dataset is [methods |-> a set of [sdk, op,      *)
(* actions], fold |-> the ids by their lower-case names, prefix |-> the    *)
(* ids of an endpoint prefix, like |-> the ids equal to one but for case   *)
(* and punctuation].  Either is empty when it could not be fetched.        *)
Listed(dataset, id, op) == {e \in dataset.methods : e.sdk = id /\ e.op = op}
ActionsOf(entries) == UNION {e.actions : e \in entries}

FirstNonEmpty(sets) ==   \* of a sequence of sets
  LET full == {i \in DOMAIN sets : sets[i] # {}}
  IN IF full = {} THEN {} ELSE sets[CHOOSE i \in full : \A j \in full : i <= j]

(* By the names as they are, then by those mapped to them. *)
Lookup(dataset, names, op) ==
  LET ids(f) == FlattenSeq([i \in DOMAIN names |-> IF names[i] \in DOMAIN f THEN f[names[i]] ELSE <<>>])
      all == ids(dataset.fold) \o ids(dataset.prefix)
  IN ActionsOf(FirstNonEmpty([i \in DOMAIN all |-> Listed(dataset, all[i], op)]))

LookupSDKID(dataset, id, op) ==
  UNION {ActionsOf(Listed(dataset, x, op)) : x \in IF id \in DOMAIN dataset.like THEN dataset.like[id] ELSE {}}

dedupeNonEmpty(keys) == SelectSeq(keys, LAMBDA k : k # "")
Entry(ref, key, op) == {e \in ref : e.key = key /\ e.op = op}
Referenced(ref, keys, op) ==
  FirstNonEmpty([i \in DOMAIN keys |-> ActionsOf(Entry(ref, keys[i], op))])

resolveStandard(model, op, ref, dataset) ==
  LET keys == dedupeNonEmpty(<<model.namespace, model.dir, model.prefix>>)
      known == SelectSeq(keys, LAMBDA k : Entry(ref, k, op) # {})
      sdks == IF known = <<>> THEN <<>> ELSE (CHOOSE e \in Entry(ref, Last(known), op) : TRUE).sdks
      found == Referenced(ref, keys, op)
      listed == FirstNonEmpty([i \in DOMAIN keys |-> Lookup(dataset, IF sdks = <<>> THEN <<keys[i]>> ELSE sdks, op)])
  IN CASE found # {}             -> found
       [] found = {} /\ listed # {} -> listed
       [] OTHER                  -> IF model.namespace = "" THEN {} ELSE {<<model.namespace, op>>}

(* A model whose namespace is another service's: nothing is derived. *)
resolveShadowed(model, op, ref, dataset) ==
  LET found == Referenced(ref, dedupeNonEmpty(<<model.dir, model.prefix>>), op)
  IN IF found # {} THEN found ELSE LookupSDKID(dataset, model.sdkID, op)

permissionless(model, op) ==
  op = "GetCallerIdentity" /\ "sts" \in {model.namespace, model.dir, model.prefix}

Resolve(model, op, ref, dataset) ==
  IF model.shadowed THEN resolveShadowed(model, op, ref, dataset) ELSE resolveStandard(model, op, ref, dataset)

(* Every action of every operation, or a refusal (Unresolved). *)
Unresolved == {<<"unresolved", "">>}
requiredActions(model, ops, ref, dataset) ==
  UNION {IF permissionless(model, op.name) THEN {}
         ELSE IF Resolve(model, op.name, ref, dataset) = {} THEN Unresolved
         ELSE Resolve(model, op.name, ref, dataset) : op \in ops}

(* What IAM's simulation answers for an action: allowed, denied or an error. *)
AllowedAll(simulate, actions) == \A a \in actions : simulate[a] = "allowed"

(* Mutant: of several services at an endpoint the first that matches decides. *)
AuthorizeAction_First(models, ref, dataset, simulate, r) ==
  LET parsed == ParseHost(r.host)
      matched == {m \in serving(models, parsed) : ClassifyOperation(m, r, parsed) # {}}
      first == CHOOSE m \in matched : TRUE
      required == requiredActions(first, ClassifyOperation(first, r, parsed), ref, dataset)
  IN /\ r.port \in {"", "443"} /\ parsed # NoHost
     /\ matched # {} /\ required \cap Unresolved = {}
     /\ AllowedAll(simulate, required)

(* Every candidate that matches counts; one that does not is skipped. *)
AuthorizeAction(models, ref, dataset, simulate, r) ==
  LET parsed == ParseHost(r.host)
      matched == {m \in serving(models, parsed) : ClassifyOperation(m, r, parsed) # {}}
      required == UNION {requiredActions(m, ClassifyOperation(m, r, parsed), ref, dataset) : m \in matched}
  IN /\ r.port \in {"", "443"} /\ parsed # NoHost
     /\ matched # {} /\ required \cap Unresolved = {}
     /\ AllowedAll(simulate, required)
-----------------------------------------------------------------------------
(* The servers (external).  A service routes by Smithy's rules: from the   *)
(* first segment on, the templates with the most specific kind there stay; *)
(* of what is left the operation with the most of the request's            *)
(* discriminators runs.  It reads the path as sent, or decodes it first,   *)
(* and may ignore a trailing slash.                                        *)
Kind(template, i) ==
  IF i > Len(template) THEN 0
  ELSE CASE template[i] = Greedy -> 1 [] template[i] = Label -> 2 [] OTHER -> 3
Ahead(a, b, i) == Kind(a, i) > Kind(b, i) /\ \A j \in 1..(i - 1) : Kind(a, j) = Kind(b, j)
Narrow(ops) == {op \in ops : \A o \in ops : \A i \in DOMAIN o.uri : ~Ahead(o.uri, op.uri, i)}

AnyBucket == <<"a bucket">>
routed(model, r, parsed, segs) ==
  LET names == IF parsed.bucket THEN <<AnyBucket>> \o (IF segs = <<Empty>> THEN <<>> ELSE segs) ELSE segs
  IN {op \in model.operations : /\ op.method = r.method /\ op.needs \subseteq r.carries
                                /\ matchURITemplate(op.uri, names)}
Served(model, r, parsed, segs) ==
  LET left == Narrow(routed(model, r, parsed, segs))
  IN {op \in left : \A o \in left : Cardinality(o.needs) <= Cardinality(op.needs)}

(* A path of separators only names nothing. *)
ServerReadings(path) ==
  LET readings == {path, decoded(path)}
  IN readings \cup {Front(segs) : segs \in {t \in readings : Last(t) = Empty /\ \E i \in DOMAIN t : t[i] # Empty}}

(* Of several Actions a service may run any, and of a protocol that the    *)
(* connector does not know, anything.                                      *)
actionsSent(r) == IF r.method = "GET" THEN r.urlActions ELSE r.bodyActions
RunsOf(model, r, parsed) ==
  CASE model.protocol = "rest"  -> UNION {Served(model, r, parsed, segs) : segs \in ServerReadings(r.path)}
    [] model.protocol = "json"  -> named(model, r.target)
    [] model.protocol = "query" -> {op \in model.operations : op.name \in Range(actionsSent(r))}
    [] OTHER                    -> model.operations

(* An endpoint may be shared, as email is by ses (query) and sesv2 (REST). *)
(* What it makes of a request that one of its services recognises is not   *)
(* left to another that it does not fit: a service of Actions is given it  *)
(* only with one Action in its place.  The services it fits may all run    *)
(* it, and so may every service where none recognises it.                  *)
OneAction(r) ==
  \/ r.method = "GET" /\ Len(r.urlActions) = 1
  \/ r.method = "POST" /\ r.urlActions = <<>> /\ Len(r.bodyActions) = 1
fits(model, r) == model.protocol \in {"rest", "json"} \/ (model.protocol = "query" /\ OneAction(r))
recognizes(model, r, parsed) ==
  CASE model.protocol = "rest"  -> \E segs \in ServerReadings(r.path) : routed(model, r, parsed, segs) # {}
    [] model.protocol = "json"  -> named(model, r.target) # {}
    [] model.protocol = "query" -> OneAction(r) /\ named(model, singleAction(actionsSent(r))) # {}
    [] OTHER                    -> FALSE

Dispatched(models, r, parsed) ==
  {m \in serving(models, parsed) :
     fits(m, r) \/ ~\E n \in serving(models, parsed) : recognizes(n, r, parsed)}

(* What may run for a request, and of which service. *)
AwsRuns(models, r) ==
  LET parsed == ParseHost(r.host)
  IN UNION {{<<m, op.name>> : op \in RunsOf(m, r, parsed)} : m \in Dispatched(models, r, parsed)}
-----------------------------------------------------------------------------
(* What the catalogs of models and the names in hosts are taken to be:     *)
(* operations that have a name, and no template that spells the name of a  *)
(* bucket.                                                                 *)
WellFormed(models) ==
  \A m \in models : \A op \in m.operations :
    /\ op.name # NoName
    /\ op.uri \in Seq(Seq(STRING)) /\ IsFiniteSet(op.needs)
    /\ Len(op.uri) > 0 => op.uri[1] \notin {HostBucket, AnyBucket}
=============================================================================
