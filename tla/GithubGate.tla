----------------------------- MODULE GithubGate -----------------------------
(***************************************************************************)
(* What the GitHub connector decides without state: the routes of its      *)
(* OpenAPI document a request may be served by, and whether the ceilings   *)
(* of their categories allow it.                                           *)
(*                                                                         *)
(* Paths are those of module Paths, but the root is the empty sequence.  A *)
(* table is a set of [method, segments, category, subcategory]; a segment  *)
(* is a literal, <<"{}">> for a parameter, or <<"{...}">> for one that may *)
(* take several segments.                                                  *)
(***************************************************************************)
EXTENDS Exposures, FiniteSets, Paths

Param == <<"{}">>
Many == <<"{...}">>
isParam(seg) == seg \in {Param, Many}
SecretScanning == "secret-scanning"

(* An operation without a category spoils the whole document. *)
DistillOpenAPI(doc) ==
  LET ops == {o \in doc : o.method \in {"GET", "HEAD", "POST", "PUT", "PATCH", "DELETE", "OPTIONS"}}
  IN IF ops = {} \/ \E o \in ops : o.category = "" THEN {} ELSE {ops}

(* A route of the sensitive family is in the sensitive category. *)
AdmitTable(table) ==
  \A t \in table : (\E i \in DOMAIN t.segments : t.segments[i] = <<SecretScanning>>) => t.category = SecretScanning

matchFixed(tmpl, req) ==
  Len(tmpl) = Len(req) /\ \A i \in DOMAIN tmpl : isParam(tmpl[i]) \/ tmpl[i] = req[i]

(* One that takes several takes all that is left when it is the last       *)
(* segment, even nothing, and at least one otherwise.  from[j] has the     *)
(* segments of the template from which it matches the last j of the        *)
(* request.                                                                *)
match(tmpl, req) ==
  LET l == Len(tmpl)
      n == Len(req)
      from[j \in 0..n] ==
        {ti \in 1..(l + 1) :
           \/ ti = l + 1 /\ j = 0
           \/ ti = l /\ tmpl[ti] = Many
           \/ ti < l /\ tmpl[ti] = Many /\ j > 0 /\ from[j - 1] \cap {ti, ti + 1} # {}
           \/ ti <= l /\ tmpl[ti] # Many /\ j > 0 /\ tmpl[ti] \in {Param, req[n - j + 1]} /\ ti + 1 \in from[j - 1]}
  IN 1 \in from[n]

matchTemplate(tmpl, req) ==
  IF \A i \in DOMAIN tmpl : tmpl[i] # Many THEN matchFixed(tmpl, req) ELSE match(tmpl, req)

literals(tmpl) == Cardinality({i \in DOMAIN tmpl : ~isParam(tmpl[i])})

(* All that match with the most literals. *)
best(routes, segs) ==
  LET hits == {t \in routes : matchTemplate(t.segments, segs)}
  IN {t \in hits : \A u \in hits : literals(u.segments) <= literals(t.segments)}

dropOneTrailingSlash(segs) ==
  {s \in {Front(segs)} : Len(segs) > 1 /\ Last(segs) = Empty /\ Last(s) # Empty}

(* With a trailing slash, the routes without it as well. *)
Lookup(table, method, segs) ==
  LET routes == {t \in table : t.method = method}
      found == best(routes, segs)
  IN IF found = {} THEN {} ELSE found \cup UNION {best(routes, s) : s \in dropOneTrailingSlash(segs)}

IsGraphQLEndpoint(path) ==
  path # <<>> /\ path[1] = <<"graphql">> /\ \A i \in 2..Len(path) : path[i] = Empty

RequiredLevel(method, path) ==
  CASE method \in {"GET", "HEAD", "OPTIONS"} -> {1}
    [] method = "POST" /\ path \in {<<<<"markdown">>>>, <<<<"markdown">>, <<"raw">>>>} -> {1}
    [] method \in {"PUT", "PATCH", "DELETE"} \/ (method = "POST" /\ path \notin {<<<<"markdown">>>>, <<<<"markdown">>, <<"raw">>>>}) -> {2}
    [] OTHER -> {}

ClassifyRequest(table, method, path) ==
  IF RequiredLevel(method, path) = {} \/ HasDotSegment(path) THEN {}
  ELSE Lookup(table, IF method \in {"HEAD", "OPTIONS"} THEN "GET" ELSE method, path)

Knows(table, key) == \E t \in table : key \in {<<t.category>>, <<t.category, t.subcategory>>}
ValidateExposureKeys(e, table) == \A k \in DOMAIN e \ {Default, <<SecretScanning>>} : Knows(table, k)

BaselineExposure ==
  [k \in {Default, <<SecretScanning>>} |-> IF k = Default THEN Levels["read"] ELSE Levels["none"]]
Resolve(e, t) == Ceiling(e, (IF t.subcategory = "" THEN <<>> ELSE <<<<t.category, t.subcategory>>>>) \o <<<<t.category>>>>)

downloadHosts == {"codeload.github.com", "release-assets.githubusercontent.com", "objects.githubusercontent.com"}
AuthorizesHost(host) == host = "api.github.com" \/ host \in downloadHosts

(* table is the admitted table, if there is one.  Downloads are reads.     *)
AuthorizeAction(tables, e, r) ==
  /\ r.port \in {"", "443"} /\ ~IsGraphQLEndpoint(r.path)
  /\ \/ r.host \in downloadHosts /\ r.method \in {"GET", "HEAD"}
     \/ /\ r.host \notin downloadHosts
        /\ \E table \in tables :
             /\ ValidateExposureKeys(e, table) /\ ClassifyRequest(table, r.method, r.path) # {}
             /\ \A t \in ClassifyRequest(table, r.method, r.path), need \in RequiredLevel(r.method, r.path) :
                  Allows(Resolve(e, t), need)
-----------------------------------------------------------------------------
(* GitHub (external): a route serves a path that can be cut, in order,     *)
(* into what its segments take, from cut[k - 1] to cut[k]; it may ignore a *)
(* trailing slash; of those that serve one with most literals is run.      *)
Serves(t, segs) ==
  LET l == Len(t.segments)
      takes(k, n) == IF t.segments[k] = Many THEN n > 0 \/ k = l ELSE n = 1
  IN \E cut \in [0..l -> 0..Len(segs)] :
       /\ cut[0] = 0 /\ cut[l] = Len(segs)
       /\ \A k \in 1..l : /\ cut[k - 1] <= cut[k] /\ takes(k, cut[k] - cut[k - 1])
                          /\ isParam(t.segments[k]) \/ t.segments[k] = segs[cut[k]]

GithubRuns(table, r) ==
  LET method == IF r.method \in {"HEAD", "OPTIONS"} THEN "GET" ELSE r.method
      readings == {r.path} \cup (IF Len(r.path) > 1 /\ Last(r.path) = Empty /\ r.path[Len(r.path) - 1] # Empty THEN {Front(r.path)} ELSE {})
      hits(segs) == {t \in table : t.method = method /\ Serves(t, segs)}
  IN UNION {{t \in hits(segs) : \A u \in hits(segs) : literals(u.segments) <= literals(t.segments)} : segs \in readings}
=============================================================================
