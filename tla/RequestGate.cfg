\* Two concurrent requests, at most one flaw between them; the cluster may change its host and CA.
SPECIFICATION Spec
CONSTANTS
  Requests = {r1, r2}
  ClusterHosts = {h1, h2}
  CAs = {k1, k2}
  PlainHosts = {api}
  Proxied = {h2}
  MaxFlaws = 1
  None = None
INVARIANTS SentIsAuthorized JudgedByItsCluster NoForbiddenAddress
