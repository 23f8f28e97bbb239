---------------------------- MODULE MCComponents ----------------------------
(***************************************************************************)
(* Components that share no state, on small instances.  A behaviour is of  *)
(* one scene: the connectors come up, or a bootstrap runs, or glab is      *)
(* asked for tokens, or requests are judged, or the proxy settings are     *)
(* read, or the answers of a verification are.                             *)
(***************************************************************************)
EXTENDS Gates, Registration, Credentials, Egress, Verdicts

VARIABLE scene
vars == <<scene, gateVars, regVars, awsVars, labVars, egressVars, verdictVars>>

(* Two of the six connectors, in their order, or three. *)
All == <<"github", "gitlab", "aws", "gcp", "azure", "kubernetes">>
MCRegistrars ==
  {SelectSeq(All, LAMBDA c : c \in two) : two \in {s \in SUBSET Range(All) : Cardinality(s) = 2}}
  \cup {<<"gitlab", "aws", "kubernetes">>}

Usable ==
  [readable |-> TRUE, leadsTo |-> "cluster and user", features |-> {}, has |-> {"token"}, unreadable |-> {},
   server |-> [scheme |-> "https", host |-> "api", user |-> FALSE, port |-> "6443"]]
MCKubeconfigs ==
  {Usable, [readable |-> FALSE], [Usable EXCEPT !.leadsTo = ""], [Usable EXCEPT !.leadsTo = "cluster"],
   [Usable EXCEPT !.features = {"exec"}], [Usable EXCEPT !.server.port = "06443"],
   [Usable EXCEPT !.unreadable = {"ca"}], [Usable EXCEPT !.has = {"cert"}]}

LoggedIn ==
  [host |-> [name |-> "gitlab.com", port |-> ""], apiHost |-> [name |-> "", port |-> ""], envToken |-> FALSE,
   out |-> [type |-> "success", token |-> TRUE, tokenType |-> "oauth2", expires |-> TRUE, instance |-> "gitlab.com"],
   installed |-> TRUE, ran |-> TRUE, config |-> FALSE, caReadable |-> TRUE]
MCGitlabSetups ==
  {LoggedIn, [LoggedIn EXCEPT !.installed = FALSE], [LoggedIn EXCEPT !.host.name = "zoned"],
   [LoggedIn EXCEPT !.caReadable = FALSE], [LoggedIn EXCEPT !.out.instance = "other"]}

(* Letters that a user, a password and a token share, so that they overlap. *)
User(name, password) == [name |-> name, password |-> password, spelled |-> name \o (IF password = <<>> THEN <<>> ELSE <<":">> \o password)]
MCUsers == {User(<<"a", "b">>, <<"b", "a">>), User(<<"a", "b">>, <<>>), User(<<>>, <<"b", "b">>), User(<<"a">>, <<"a", "b", "a", "b">>)}
MCToken == [p \in {u.name \o <<":">> \o u.password : u \in MCUsers} |-> IF Len(p) < 5 THEN <<"b", "a", "a">> ELSE <<"b", "a", "b", "c">>]
Proxy(scheme, host, user) == [valid |-> TRUE, scheme |-> scheme, host |-> host, port |-> 8080, path |-> FALSE, user |-> user]
Plain == Proxy("http", "proxy", Unset)
MCProxies ==
  {Proxy(s, "proxy", u) : s \in {"", "http", "https", "socks5"}, u \in MCUsers}
  \cup {Plain, [Plain EXCEPT !.valid = FALSE], [Plain EXCEPT !.host = "zoned"], [Plain EXCEPT !.port = 70000],
        [Plain EXCEPT !.port = Unset], [Plain EXCEPT !.path = TRUE]}
Variables == {"https_proxy", "HTTPS_PROXY", "http_proxy", "HTTP_PROXY", "no_proxy", "NO_PROXY"}
MCEnvironments ==
  {[v \in Variables |-> CASE v = "https_proxy" -> a [] v = "HTTPS_PROXY" -> Plain [] v = "HTTP_PROXY" -> b
                          [] v = "NO_PROXY" -> "internal" [] OTHER -> Unset] :
     a \in MCProxies \cup {Unset}, b \in {Unset, Proxy("", "proxy", User(<<"a", "b">>, <<"b", "a">>))}}
  \cup {[v \in Variables |-> IF v = "no_proxy" THEN e ELSE Unset] : e \in {Unset, "control character"}}
MCTexts == UNION {[1..n -> {"a", "b", "c", ":"}] : n \in 0..4} \cup [1..5 -> {"a", "b", ":"}]

(* The keys that occur. *)
MCToLower(s) == CASE s \in {"VERDICT", "Verdict"} -> "verdict" [] s = "F1" -> "f1" [] OTHER -> s

(* Two entries for the findings, each in many forms, and what is around. *)
Written(key, value) == [key |-> key, value |-> value]
Entries ==
  {[key |-> k, value |-> <<>>, fields |-> f] : k \in {"f1", "F1", "f2", "f3"},
     f \in {<<Written("verdict", <<"confirmed">>)>>, <<Written("verdict", <<"refuted">>)>>, <<Written("verdict", <<"maybe">>)>>,
            <<Written("verdict", <<"1">>)>>, <<Written("note", <<"refuted">>)>>,
            <<Written("verdict", <<"refuted">>), Written("justification", <<"verdict">>)>>,
            <<Written("verdict", <<"refuted">>), Written("VERDICT", <<"confirmed">>)>>,
            <<Written("note", <<"{", "verdict", "refuted", "}">>), Written("verdict", <<"confirmed">>)>>,
            <<Written("note", <<"[", "verdict", "verdict", "]">>), Written("verdict", <<"confirmed">>)>>,
            <<Written("verdict", <<"null">>), Written("Verdict", <<"confirmed">>)>>}}
  \cup {[key |-> "f1", value |-> v, fields |-> <<>>] : v \in {<<"null">>, <<"confirmed">>, <<"[", "]">>, <<"{", "}">>}}
Message(members) ==
  [reply |-> "message", stop |-> "normal", fence |-> "none", before |-> <<>>, members |-> members, after |-> <<"}">>]
Confirms(id) == [key |-> id, value |-> <<>>, fields |-> <<Written("verdict", <<"confirmed">>)>>]
Fine == Message(<<Confirms("f1"), Confirms("f2")>>)
Around ==
  {[Fine EXCEPT !.reply = r] : r \in {"error", "none"}} \cup {[Fine EXCEPT !.stop = r] : r \in {"length", "filtered", "unspecified"}}
  \cup {[Fine EXCEPT !.fence = f] : f \in {"bare", "json", "other"}} \cup {[Fine EXCEPT !.before = <<Junk>>], [Fine EXCEPT !.before = <<"[">>]}
  \cup {[Fine EXCEPT !.after = t] : t \in {<<>>, <<"}", Junk>>, <<"}", "{", "f1", "{", "verdict", "refuted", "}", "}">>}}
FirstAnswers == Around \cup {Message(<<>>)} \cup {Message(<<e>>) : e \in Entries} \cup {Message(<<d, e>>) : d, e \in Entries}
MCAnswers ==
  {<<a, Fine>> : a \in FirstAnswers} \cup {<<Message(<<Confirms("f2"), e>>), a>> : e \in Entries, a \in Around \cup {Message(<<Confirms("f2")>>)}}

(* The scenes that stand still start in one of their states only. *)
Init ==
  /\ scene \in {"startup", "bootstrap", "glab", "requests", "proxy", "verification"}
  /\ (scene # "verification" => answers = <<Fine, Fine>>) /\ VerdictInit
  /\ (scene # "proxy" => environment = [v \in Variables |-> Unset]) /\ EgressInit
  /\ (scene # "requests" => connector = "gitlab" /\ posture = CHOOSE p \in LabPostures : TRUE) /\ GateInit
  /\ (scene # "startup" => registrars = <<"github", "gitlab">> /\ explicit = {} /\ verbose = FALSE) /\ RegInit
  /\ (scene # "bootstrap" => caller = "user") /\ AwsInit
  /\ (scene # "glab" => token = 0) /\ LabInit

Next ==
  \/ scene = "requests" /\ GateNext /\ UNCHANGED <<scene, regVars, awsVars, labVars, egressVars, verdictVars>>
  \/ scene = "startup" /\ RegNext /\ UNCHANGED <<scene, gateVars, awsVars, labVars, egressVars, verdictVars>>
  \/ scene = "bootstrap" /\ AwsNext /\ UNCHANGED <<scene, gateVars, regVars, labVars, egressVars, verdictVars>>
  \/ scene = "glab" /\ LabNext /\ UNCHANGED <<scene, gateVars, regVars, awsVars, egressVars, verdictVars>>
  \/ scene = "proxy" /\ EgressNext /\ UNCHANGED <<scene, gateVars, regVars, awsVars, labVars, verdictVars>>
  \/ scene = "verification" /\ VerdictNext /\ UNCHANGED <<scene, gateVars, regVars, awsVars, labVars, egressVars>>

Spec == Init /\ [][Next]_vars
=============================================================================
