----------------------------- MODULE MCLookups -----------------------------
(***************************************************************************)
(* The three kinds of api_reference lookups on small instances.  A         *)
(* behaviour is of one kind: the lookups of a connector share nothing with *)
(* those of another.                                                       *)
(***************************************************************************)
EXTENDS SpecLookups, ClusterLookups, GcpLookups

CONSTANTS l1, l2, k1, c1, g1, g2

VARIABLE kind
vars == <<kind, specVars, clusterVars, gcpVars>>

(* Five operation files: two in the newest stable dir of a group, one in   *)
(* an older dir, and another group with an older stable and a preview dir. *)
Old == "2023-01-01"
New == "2024-01-01"
MCVersions == <<Old, New>>
MCNamespace == "Microsoft.Compute"
Under(segs, b) ==
  [path |-> <<"specification", "compute", "resource-manager", MCNamespace>> \o segs, mode |-> "regular", blob |-> b]
Tree == {Under(<<"stable", New, "a.json">>, "b1"), Under(<<"stable", New, "b.json">>, "b2"),
         Under(<<"stable", Old, "a.json">>, "b3"), Under(<<"Disk", "preview", New, "a.json">>, "b4"),
         Under(<<"Disk", "stable", Old, "a.json">>, "b5")}
Blobs == {"b1", "b2", "b3", "b4", "b5"}

Object(type, base) == [type |-> type, length |-> 1, base |-> base, target |-> 1]
GoodPack == [objects |-> <<Object("commit", 0), Object("tree", 0), Object("delta", 2)>>, whole |-> TRUE]
BadPack == [objects |-> <<Object("commit", 0), Object("delta", 1)>>, whole |-> TRUE]   \* two commits

Repo(run, pack, in, defines, request, left, trouble, named) ==
  [sha |-> "c1", pack |-> pack, tree |-> {e \in Tree : e.blob \in in}, defines |-> defines, request |-> request, run |-> run,
   left |-> left, trouble |-> trouble, models |-> named]
One == [b \in Blobs |-> "r1"]
Bad(b) == [blob |-> b, what |-> "body", good |-> FALSE]
Foreign == [i \in 1..4 |-> [blob |-> <<"b6", "b7", "b8", "b9">>[i], what |-> "body", good |-> TRUE]]

(* One lookup on each of 36 repositories of five files, and two on one of  *)
(* two files; and one, with two readers, beside a disk that holds more     *)
(* than its cap and may refuse every removal.                              *)
MCRepos ==
  {Repo({l1}, GoodPack, Blobs, d, IF d["b4"] = {} THEN One ELSE [One EXCEPT !["b3"] = "r2"], <<>>, 0, {Old}) :
     d \in {f \in [Blobs -> {{}, {"exact"}, {"Exact"}}] : f["b5"] = f["b3"] /\ {"Exact"} \notin {f["b2"], f["b4"]}}}
  \cup {Repo({l1}, BadPack, Blobs, [b \in Blobs |-> {"exact"}], One, <<>>, 0, {})}
  \cup {Repo({l1, l2}, GoodPack, {"b2", "b3"}, [b \in Blobs |-> IF b = "b3" THEN {"exact"} ELSE {}], One, <<Bad("b2")>>, 0, {}),
         Repo({l1}, GoodPack, {"b2", "b3"}, [b \in Blobs |-> {"exact"}], One, Foreign, 4, {})}

(* An API in three versions, one whose document is another's, an API that  *)
(* shares a file with it, and two whose names differ by case.              *)
Entry(name, version) == [name |-> name, version |-> version]
run1 == Entry(<<"run">>, <<"v1">>)
run2 == Entry(<<"run">>, <<"v2">>)
runBeta == Entry(<<"run">>, <<"beta", "v1">>)
beta == Entry(<<"run", "beta">>, <<"v1">>)
MCDirectory == {run1, run2, runBeta, beta, Entry(<<"Dns">>, <<"v1">>), Entry(<<"DNS">>, <<"v1">>), Entry(<<"run">>, <<"..">>)}
Doc(it, methods, nested) == [name |-> it.name, version |-> it.version, methods |-> methods, resources |-> {[methods |-> nested]}]
MCDocuments ==
  [it \in MCDirectory |->
     CASE it = run1 -> Doc(it, {<<"run", "list">>}, {<<"run", "get">>})
       [] it = run2 -> Doc(it, {<<"run", "List">>}, {<<"run", "get">>})
       [] it = runBeta -> Doc(it, {<<"run", "peek">>}, {})
       [] it = beta -> Doc(it, {<<"run", "list">>}, {<<"run", "get">>})
       [] OTHER -> Doc(run1, {<<"run", "list">>}, {})]
MCFolded == ("List" :> "list") @@ ("LIST" :> "list") @@ ("Dns" :> "dns") @@ ("DNS" :> "dns") @@ ("Run" :> "run")
MCVersionOrder == <<<<"v1">>, <<"v2">>>>
MCUnsafe == {<<"..">>}
Ask(service, model, operation) == [service |-> service, model |-> model, operation |-> operation]
Asks ==
  {Ask(s, v, <<o>>) : s \in {<<>>, <<"Run">>}, v \in {<<>>, <<"v1">>, <<"beta", "v1">>},
     o \in {<<"run", m>> : m \in {"list", "LIST", "get", "peek"}}}
  \cup {Ask(<<>>, <<"..">>, <<<<"run", "get">>>>), Ask(<<>>, <<>>, <<<<"dns", "list">>>>), Ask(<<"Dns">>, <<>>, <<<<"run", "list">>>>),
        Ask(<<>>, <<>>, <<<<"gcp">>, <<"run", "peek">>>>), Ask(<<"run">>, <<>>, <<<<"gcp">>, <<"run", "list">>>>)}
MCGcpQueries == {(g1 :> a) @@ (g2 :> b) : a \in Asks, b \in {Ask(<<"run", "beta">>, <<>>, <<<<"run", "list">>>>),
                                                               Ask(<<>>, <<"beta", "v1">>, <<<<"run", "peek">>>>)}}

(* What stands still starts in one of its states only. *)
Init ==
  /\ kind \in {"azure", "cluster", "gcp"}
  /\ SpecInit /\ (kind # "azure" => repo.pack = BadPack)
  /\ ClusterInit /\ (IF kind = "cluster" THEN cluster[k1] = c1 ELSE cluster = CHOOSE f \in [Calls -> Clusters] : TRUE)
  /\ GcpInit /\ (kind # "gcp" => gcpAsk = (CHOOSE q \in GcpQueries : TRUE) /\ gcpFile = NoFiles)

Next ==
  \/ kind = "azure" /\ SpecNext /\ UNCHANGED <<kind, clusterVars, gcpVars>>
  \/ kind = "cluster" /\ ClusterNext /\ UNCHANGED <<kind, specVars, gcpVars>>
  \/ kind = "gcp" /\ GcpNext /\ UNCHANGED <<kind, specVars, clusterVars>>

Spec == Init /\ [][Next]_vars
=============================================================================
