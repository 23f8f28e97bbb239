\* Lookups over the Azure specs, of clusters and of Google APIs, two at a time.
SPECIFICATION Spec
CONSTANTS
  Lookups = {l1, l2}
  l1 = l1
  l2 = l2
  k1 = k1
  c1 = c1
  MaxFiles = 3
  Versions <- MCVersions
  Repos <- MCRepos
  Variants = {"Exact"}
  Namespace <- MCNamespace
  Budget = 5
  MaxDownloads = 2
  MaxCache = 3
  Rescan = 3
  MaxObjects = 3
  MaxObject = 2
  MaxTotal = 4
  MaxEntries = 5
  MaxDepth = 8
  BadId = BadId
  None = None
  Calls = {k1, k2}
  Clusters = {c1, c2}
  MaxChanges = 2
  CacheEntries = 1
  NoHash = NoHash
  Nothing = Nothing
  g1 = g1
  g2 = g2
  GcpCalls = {g1, g2}
  GcpQueries <- MCGcpQueries
  Directory <- MCDirectory
  Documents <- MCDocuments
  VersionOrder <- MCVersionOrder
  UnsafeParts <- MCUnsafe
  Folded <- MCFolded
  NoDoc = NoDoc
INVARIANTS LiveNotCanceled SearchRight CacheCounted AnswerWasCurrent ReadsSuffice AnswerOfItsDocument
CHECK_DEADLOCK FALSE
