------------------------------ MODULE GcpGate ------------------------------
(***************************************************************************)
(* What the Google Cloud connector decides without state: the service of a *)
(* host, the method of its discovery documents a request runs, the         *)
(* permissions that needs, and whether the configured role has them.       *)
(*                                                                         *)
(* A host is what precedes googleapis.com (any other host is empty), as in *)
(* module AwsGate the labels of it with their parts.  Paths are those of   *)
(* module Paths; Colon gives the segments with a custom verb, and their    *)
(* base and verb.                                                          *)
(***************************************************************************)
EXTENDS Naturals, FiniteSets, Paths

CONSTANT Colon

Name(label) == IF Len(label) = 1 THEN label[1] ELSE "other"
NoService == [service |-> "", location |-> ""]
Service(service, location) == [service |-> service, location |-> location]

rejectHost(host) ==
  \/ host \in {<<>>, <<<<"private">>>>, <<<<"restricted">>>>}
  \/ Len(host) > 2 /\ IsSuffix(<<<<"p">>, <<"rep">>>>, host)

(* <svc>.mtls, <svc>.<loc>.rep, [<bucket>.]storage, <loc>-<svc> and <svc>. *)
dispatchHost(host) ==
  LET n == Len(host) IN
    CASE Last(host) = <<"mtls">> /\ n = 2 -> Service(Name(host[1]), "")
      [] Last(host) = <<"rep">>           -> IF n = 3 THEN Service(Name(host[1]), Name(host[2])) ELSE NoService
      [] Last(host) = <<"storage">>       -> Service("storage", "")
      [] n = 1 /\ Len(host[1]) > 1        -> Service(Last(host[1]), Name(Front(host[1])))
      [] n = 1 /\ Len(host[1]) = 1        -> Service(host[1][1], "")      \* www too
      [] OTHER                            -> NoService

ParseHost(host) == IF rejectHost(host) THEN NoService ELSE dispatchHost(host)

isStorageJSONHost(host) ==
  \/ host \in {<<<<"storage">>>>, <<<<"storage">>, <<"mtls">>>>}
  \/ Len(host) = 1 /\ Len(host[1]) > 1 /\ Last(host[1]) = "storage"
  \/ Len(host) = 3 /\ host[1] = <<"storage">> /\ host[3] = <<"rep">>

Verify(parsed, claim) ==
  /\ parsed.service # "" /\ parsed.service = claim.service
  /\ claim.location \in {"", parsed.location, IF parsed.location = "" THEN "global" ELSE ""}
-----------------------------------------------------------------------------
(* Documents of one service, whatever their version, make one index: a     *)
(* method id that stands for two routes keeps both.                        *)
serviceShortName(doc) == IF Len(doc.root) = 1 /\ Len(doc.root[1]) = 1 /\ doc.root # <<<<"www">>>> THEN doc.root[1][1] ELSE doc.name

effectiveTemplate(doc, m) == doc.servicePath \o (IF m.flatPath = <<>> THEN m.path ELSE m.flatPath)
serviceDocFrom(doc) ==
  [hosts |-> {doc.root, doc.mtls} \cup doc.endpoints, servicePath |-> doc.servicePath,
   methods |-> {[id |-> m.id, method |-> m.method, template |-> effectiveTemplate(doc, m)] : m \in doc.methods}]

mergeServiceDocs(a, b) == [a EXCEPT !.methods = @ \cup b.methods, !.hosts = @ \cup b.hosts]

assembleCatalog(fetched) ==
  FoldLeft(LAMBDA all, doc :
            LET svc == serviceShortName(doc)   new == serviceDocFrom(doc)
            IN IF ~doc.ok THEN all
               ELSE IF svc \in DOMAIN all THEN [all EXCEPT ![svc] = mergeServiceDocs(@, new)]
               ELSE all @@ (svc :> new),
           <<>>, fetched)

hostToService(services, host) == {svc \in DOMAIN services : host # <<<<"www">>>> /\ host \in services[svc].hosts}

ResolveService(services, parsed, host) ==
  IF parsed.service \in DOMAIN services THEN {parsed.service} ELSE hostToService(services, host)

(* On www the path tells: the longest service path it starts with. *)
ResolveWWWService(services, path) ==
  LET on == {svc \in DOMAIN services : services[svc].servicePath # <<>> /\ IsPrefix(services[svc].servicePath, decoded(path))}
  IN {svc \in on : \A s \in on : Len(services[s].servicePath) <= Len(services[svc].servicePath)}

AuthorizesHost(services, host, claim) ==
  LET parsed == ParseHost(host)
  IN /\ claim.service # "" /\ parsed # NoService
     /\ \/ host = <<<<"www">>>>      \* decided with the path
        \/ \E svc \in ResolveService(services, parsed, host) : Verify([parsed EXCEPT !.service = svc], claim)
-----------------------------------------------------------------------------
fold(s) == IF s = "Zones" THEN "zones" ELSE s
colons(seg) == {i \in DOMAIN seg : seg[i] \in DOMAIN Colon}

(* The base and the verb of a segment; "" is none, and "..." is one no     *)
(* template has.                                                           *)
segmentBase(seg) ==
  CASE Len(seg) > 1 -> "..." [] Len(seg) = 1 /\ colons(seg) = {} -> seg[1] [] OTHER -> Colon[seg[1]][1]
segmentVerb(seg) ==
  CASE colons(seg) = {} -> "" [] colons(seg) = {Len(seg)} -> Colon[Last(seg)][2] [] OTHER -> "..."

isPlaceholder(base) == base = "{}"

segmentEqual(t, seg) ==
  /\ segmentVerb(t) = segmentVerb(seg)
  /\ (segmentVerb(t) # "" /\ isPlaceholder(segmentBase(t))) \/ fold(segmentBase(t)) = fold(segmentBase(seg))

(* A placeholder takes anything that has no verb. *)
matchTemplate(template, segs) ==
  /\ Len(template) = Len(segs)
  /\ \A i \in DOMAIN segs : IF template[i] = <<"{}">> THEN colons(segs[i]) = {} ELSE segmentEqual(template[i], segs[i])

literalsExact(template, segs) ==
  \A i \in DOMAIN segs : isPlaceholder(segmentBase(template[i])) \/ segmentBase(template[i]) = segmentBase(segs[i])

moreSpecific(a, b) ==   \* of two templates of one length: a literal where they first differ
  LET literal(t, i) == ~isPlaceholder(segmentBase(t[i]))
      differ == {i \in DOMAIN a : literal(a, i) # literal(b, i)}
  IN differ # {} /\ literal(a, CHOOSE i \in differ : \A j \in differ : i <= j)

(* From the first segment that is not empty to the last. *)
trimEmptyEdges(segs) ==
  LET named == {i \in DOMAIN segs : segs[i] # Empty}
      first == CHOOSE i \in named : \A j \in named : i <= j
      last == CHOOSE i \in named : \A j \in named : j <= i
  IN IF named = {} THEN <<>> ELSE SubSeq(segs, first, last)

(* The most specific, or all when one matches by ignoring case only. *)
appendSurvivors(index, method, segs) ==
  LET matched == {m \in index : m.method = method /\ matchTemplate(m.template, segs)}
      folded == \E m \in matched : ~literalsExact(m.template, segs)
  IN {m.id : m \in {n \in matched : folded \/ \A o \in matched : ~moreSpecific(o.template, n.template)}}

classify(index, method, readings) ==
  UNION {appendSurvivors(index, method, trimEmptyEdges(segs)) : segs \in readings}

(* Mutant: every service routes the path as it was sent. *)
Classify_AsSent(index, r) == classify(index, r.method, WireReadings(r.path))

Classify(index, r) == classify(index, r.method, PathReadings(r.path))

ClassifyAsSent(index, r) == classify(index, r.method, WireReadings(r.path))
-----------------------------------------------------------------------------
(* Method ids and permissions are sequences of names. *)
readMethodVerbs == {"get", "list", "aggregatedList", "search", "getIamPolicy"}
verbSkew(verb) ==
  CASE verb = "insert" -> "create" [] verb = "patch" -> "update" [] verb = "aggregatedList" -> "list" [] OTHER -> verb
prefixMap(api) == IF api = "cloudresourcemanager" THEN "resourcemanager" ELSE api

derivePrimary(id, testable) ==
  {p \in {<<prefixMap(id[1])>> \o SubSeq(id, 2, Len(id) - 1) \o <<verbSkew(Last(id))>>} : Len(id) >= 3 /\ p \in testable}

permissionless(id, pinned) == id \in pinned \/ Last(id) = "testIamPermissions"

(* Pinned, or derived; of what writes, all that the dataset adds. *)
Resolve(id, perms) ==
  LET derived == derivePrimary(id, perms.testable)
      listed == IF id \in DOMAIN perms.dataset THEN perms.dataset[id] ELSE {}
  IN IF id \in DOMAIN perms.overrides THEN perms.overrides[id]
     ELSE derived \cup (IF Last(id) \in readMethodVerbs /\ derived # {} THEN {} ELSE listed)

AllowedAll(granted, perms) == perms \subseteq granted

(* The role as it is now; one that was removed or disabled is none. *)
FetchRolePermissions(def) == IF def.deleted \/ def.stage = "DISABLED" THEN {} ELSE {def.included}

resolveService(services, r) ==
  IF r.host = <<<<"www">>>> THEN ResolveWWWService(services, r.path)
  ELSE IF ParseHost(r.host) = NoService THEN {} ELSE ResolveService(services, ParseHost(r.host), r.host)

(* Exactly one method, and every permission of it. *)
AuthorizeAction(services, perms, granted, r, claim) ==
  /\ r.port \in {"", "443"} /\ claim.service # ""
  /\ \E svc \in resolveService(services, r) :
       LET index == services[svc].methods
           ids == IF svc = "storage" THEN ClassifyAsSent(index, r) ELSE Classify(index, r)
       IN /\ r.host = <<<<"www">>>> => svc = claim.service
          /\ svc = "storage" /\ r.host # <<<<"www">>>> => isStorageJSONHost(r.host)
          /\ Cardinality(ids) = 1
          /\ \A id \in ids : \/ permissionless(id, perms.pinned)
                             \/ Resolve(id, perms) # {} /\ AllowedAll(granted, Resolve(id, perms))
-----------------------------------------------------------------------------
(* Google's servers (external).  Cloud Storage routes the path as sent,    *)
(* any other service that or the decoded one; literals in their case or in *)
(* any, and before placeholders, from the first segment on.                *)
Narrow(methods) ==
  LET literal(m, i) == ~isPlaceholder(segmentBase(m.template[i]))
      before(a, b, i) == literal(a, i) /\ ~literal(b, i) /\ \A j \in 1..(i - 1) : literal(a, j) = literal(b, j)
  IN {m \in methods : \A o \in methods, i \in DOMAIN m.template : ~before(o, m, i)}

Routes(methods, method, segs, folds) ==
  {m \in methods : m.method = method /\ matchTemplate(m.template, segs) /\ (folds \/ literalsExact(m.template, segs))}

GcpRuns(services, svc, r) ==
  LET readings == {r.path} \cup (IF svc = "storage" THEN {} ELSE {decoded(r.path)})
      routed(segs, folds) == Narrow(Routes(services[svc].methods, r.method, trimEmptyEdges(segs), folds))
  IN UNION {{m.id : m \in routed(segs, folds)} : segs \in readings, folds \in BOOLEAN}
=============================================================================
