-------------------------- MODULE ConnectorSetup --------------------------
(***************************************************************************)
(* What the connectors make of what they were set up with, without state:  *)
(* which cluster a kubeconfig selects; the host and version of the GitLab  *)
(* instance, and the credential glab hands out for it; whether a GitHub    *)
(* token is valid.                                                         *)
(***************************************************************************)
EXTENDS Naturals
-----------------------------------------------------------------------------
(* A kubeconfig: what its current context leads to, the features its user  *)
(* and cluster ask for, the server, and the credentials.                   *)
unsafe == {"exec", "auth-provider", "impersonate", "basic", "insecure-skip-tls-verify", "proxy-url"}

AdmitHost(host) == host \notin {"non-ASCII", "zoned"}

(* Ports as they are spelled, and the number a dial makes of them. *)
dialed(port) ==
  CASE port \in {"443", ""} -> 443 [] port \in {"6443", "06443"} -> 6443
    [] port = "65536" -> 65536 [] OTHER -> 0
canonical(port) == port # "06443"

validClusterPort(port) == port = "" \/ (dialed(port) \in 1..65535 /\ canonical(port))

rejectUnsafe(k) ==
  \/ k.features \cap unsafe # {}
  \/ k.server.scheme # "https" \/ k.server.host = "" \/ k.server.user
  \/ ~AdmitHost(k.server.host) \/ ~validClusterPort(k.server.port)

(* A client certificate with its key before a token. *)
classifyCredential(k) ==
  CASE {"cert", "key"} \subseteq k.has -> "mtls" [] "token" \in k.has -> "bearer" [] OTHER -> "none"

selectContext(k) == k.leadsTo = "cluster and user"

extractSelected(k) == selectContext(k) /\ ~rejectUnsafe(k) /\ classifyCredential(k) # "none"

(* Files named instead of inline data are read once, but for a token's. *)
resolveSelected(k) ==
  \/ k.unreadable = {}
  \/ classifyCredential(k) = "bearer" /\ "ca" \notin k.unreadable
-----------------------------------------------------------------------------
(* The host served is the API's if there is one; its port 443 if none.     *)
servedHost(host, apiHost) == IF apiHost.name # "" THEN apiHost ELSE host
portOfAuthority(authority) == IF authority.port = "" THEN "443" ELSE authority.port
validateGitLabHosts(host, apiHost) == servedHost(host, apiHost).name \notin {"non-ASCII", "zoned"}
AuthorizesHost(host, apiHost, h) == h = servedHost(host, apiHost).name

glabLoginHost(host, apiHost) == IF host.name = "gitlab.com" /\ apiHost.name # "" THEN apiHost.name ELSE host.name

(* What glab printed: a token of a type it may have, or no credential. *)
glabTokenTypeOK(type, expires) == type = "pat" \/ (type = "oauth2" /\ expires)
parseCredentialHelperOutput(out) ==
  CASE out.type = "success" /\ out.token /\ glabTokenTypeOK(out.tokenType, out.expires) -> "ok"
    [] out.type = "error" -> "not authenticated"
    [] OTHER -> "incompatible"

validateInstanceURL(out, login, apiHost) == out.instance # "" /\ out.instance \in {login, apiHost.name}

(* Loud only where a configuration says that glab was meant to work. *)
decideGlab(out, installed, ran, config, login, apiHost) ==
  CASE installed /\ ran /\ parseCredentialHelperOutput(out) = "ok" ->
         IF validateInstanceURL(out, login, apiHost) THEN "credential" ELSE "loud"
    [] OTHER -> IF config THEN "loud" ELSE "quiet"

(* The release whose documents answer for an instance. *)
ClassifyVersion(v, host, port) ==
  CASE ~v.parsed                                                 -> "unknown"
    [] v.parsed /\ (v.major < 18 \/ (v.major = 18 /\ v.minor < 9)) -> "below floor"
    [] v.parsed /\ ~(v.major < 18 \/ (v.major = 18 /\ v.minor < 9)) ->
         IF v.suffix # "-pre" THEN "tag"
         ELSE IF host = "gitlab.com" /\ port = "443" THEN "master" ELSE "unknown"
-----------------------------------------------------------------------------
(* The token's user is asked for; if that fails, whatever the reason, the  *)
(* rate limit decides.                                                     *)
githubValidate(user, rateLimit) == IF user = "ok" THEN "ok" ELSE rateLimit
=============================================================================
