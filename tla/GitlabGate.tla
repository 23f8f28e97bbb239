----------------------------- MODULE GitlabGate -----------------------------
(***************************************************************************)
(* What the GitLab connector decides without state: whether a request is   *)
(* within the ceiling of its category.                                     *)
(*                                                                         *)
(* Paths are those of module Paths.  Plain gives what a segment decodes to *)
(* and Format what is left of a segment without its format suffix, for the *)
(* segments where that is something else.                                  *)
(***************************************************************************)
EXTENDS Exposures, FiniteSets, Paths

CONSTANTS Plain, Format

Param == <<"{}">>
CiVariables == "ci-variables"

Decode(seg) == IF seg \in DOMAIN Plain THEN Plain[seg] ELSE seg

(* Mutant: a suffix is part of the segment. *)
stripFormatSuffix_Keep(seg) == seg

stripFormatSuffix(seg) == IF seg \in DOMAIN Format THEN Format[seg] ELSE seg

(* Each optional group of a documented path, the places of its segments,   *)
(* is there or not, whatever the others are.                               *)
at(segs, places) == FlattenSeq([i \in DOMAIN segs |-> IF i \in places THEN <<segs[i]>> ELSE <<>>])

(* Mutant: every group is there. *)
expandOptionalGroups_Present(op) == {op.segments}

expandOptionalGroups(op) ==
  {at(op.segments, DOMAIN op.segments \ UNION absent) : absent \in SUBSET op.optional}

(* Untagged operations are left out; what has variables is about them. *)
registerOps(o) ==
  {[method |-> o.method, segments |-> s,
    category |-> IF \E i \in DOMAIN s : s[i] = <<"variables">> THEN CiVariables ELSE o.tag] :
      s \in IF o.tag = "" THEN {} ELSE expandOptionalGroups(o)}
DistillOpenAPI(doc) ==
  LET table == UNION {registerOps(o) : o \in doc} IN IF table = {} THEN {} ELSE {table}

AdmitTable(table) ==
  \A t \in table : (\E i \in DOMAIN t.segments : t.segments[i] = <<"variables">>) => t.category = CiVariables

matchTemplate(tmpl, req) == Len(tmpl) = Len(req) /\ \A i \in DOMAIN tmpl : tmpl[i] \in {Param, req[i]}
params(tmpl) == Cardinality({i \in DOMAIN tmpl : tmpl[i] = Param})

(* Decoded segment by segment below api/v4; the fewest parameters, and of  *)
(* those the first in the order of the table, where <<t, u>> \in before     *)
(* says that t is registered before u.                                     *)
decodeSegs(path) == [i \in DOMAIN path |-> Decode(path[i])]
Lookup(table, method, path, before) ==
  LET segs == decodeSegs(path)
      req == [segs EXCEPT ![Len(segs)] = stripFormatSuffix(@)]
      hits == {t \in table : t.method = method /\ matchTemplate(t.segments, req)}
      fewest == {t \in hits : \A u \in hits : params(t.segments) <= params(u.segments)}
  IN IF Len(segs) < 2 \/ segs[1] # <<"api">> \/ segs[2] # <<"v4">> THEN {}
     ELSE {t \in fewest : \A u \in fewest : <<u, t>> \notin before}

pathEndsWith(path, want) ==
  LET off == Len(path) - Len(want)
      seg(i) == IF i = Len(want) THEN stripFormatSuffix(Decode(path[off + i])) ELSE Decode(path[off + i])
  IN off >= 0 /\ \A i \in DOMAIN want : seg(i) = want[i]

RECURSIVE trimRight(_)
trimRight(path) == IF path # <<>> /\ Last(path) = Empty THEN trimRight(Front(path)) ELSE path
IsGraphQLEndpoint(path) == pathEndsWith(trimRight(path), <<<<"api">>, <<"graphql">>>>)

RequiredLevel(method, path) ==
  CASE method \in {"GET", "HEAD", "OPTIONS"} -> {1}
    [] method \in {"POST", "PUT", "PATCH", "DELETE"} ->
         {IF method = "POST" /\ pathEndsWith(path, <<<<"api">>, <<"v4">>, <<"markdown">>>>) THEN 1 ELSE 2}
    [] OTHER -> {}

ClassifyRequest(table, method, path, before) ==
  IF RequiredLevel(method, path) = {} \/ HasDotSegment(path) THEN {}
  ELSE Lookup(table, IF method \in {"HEAD", "OPTIONS"} THEN "GET" ELSE method, path, before)

ValidateExposureKeys(e, table) ==
  \A k \in DOMAIN e \ {Default, <<CiVariables>>} : \E t \in table : k = <<t.category>>

BaselineExposure == (Default :> Levels["read"]) @@ (<<CiVariables>> :> Levels["none"])
Resolve(e, t) == Ceiling(e, <<<<t.category>>>>)

(* A request may bring neither another user nor a credential: in its query,*)
(* a header, or the names of its body as JSON, a form or a multipart form. *)
rejectGitLabSmuggledControls(r) == r.query \cap {"sudo", "token", "unparseable"} # {} \/ "Sudo" \in r.header
bodyCarriesCredential(r) == r.body \cap {"token", "private_token", "access_token", "job_token"} # {}

AuthorizeAction(tables, e, r, port, before) ==
  /\ ~rejectGitLabSmuggledControls(r) /\ (IF r.port = "" THEN "443" ELSE r.port) = port
  /\ ~IsGraphQLEndpoint(r.path) /\ ~bodyCarriesCredential(r)
  /\ \E table \in tables :
       /\ ValidateExposureKeys(e, table) /\ ClassifyRequest(table, r.method, r.path, before) # {}
       /\ \A t \in ClassifyRequest(table, r.method, r.path, before), need \in RequiredLevel(r.method, r.path) :
            Allows(Resolve(e, t), need)
-----------------------------------------------------------------------------
(* GitLab (external): it serves a documented path in each of its forms, in *)
(* which what is not there is of a group that is not there at all.         *)
GitlabRoutes(doc) ==
  UNION {{[method |-> o.method, segments |-> at(o.segments, there), category |-> o.tag] :
            there \in {p \in SUBSET DOMAIN o.segments :
                        \A i \in DOMAIN o.segments \ p : \E group \in o.optional : i \in group /\ group \cap p = {}}} :
         o \in doc}

(* Segments decoded, a format suffix dropped, literals before parameters   *)
(* from the first segment on.                                              *)
RECURSIVE Narrow(_, _)
Narrow(routes, i) ==
  LET literal == {t \in routes : Len(t.segments) >= i /\ t.segments[i] # Param}
  IN IF \A t \in routes : Len(t.segments) < i THEN routes ELSE Narrow(IF literal = {} THEN routes ELSE literal, i + 1)

GitlabRuns(doc, r) ==
  LET plain(seg) == IF seg \in DOMAIN Plain THEN Plain[seg] ELSE seg
      last(seg) == IF plain(seg) \in DOMAIN Format THEN Format[plain(seg)] ELSE plain(seg)
      n == Len(r.path)
      method == IF r.method \in {"HEAD", "OPTIONS"} THEN "GET" ELSE r.method
  IN Narrow({t \in GitlabRoutes(doc) : /\ t.method = method /\ Len(t.segments) = n
                                       /\ \A i \in 1..n : t.segments[i] \in {Param, IF i = n THEN last(r.path[i]) ELSE plain(r.path[i])}}, 1)
=============================================================================
