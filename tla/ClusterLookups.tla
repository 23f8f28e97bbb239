--------------------------- MODULE ClusterLookups ---------------------------
(***************************************************************************)
(* api_reference lookups of the Kubernetes connectors: the recipe that     *)
(* reads a cluster's own OpenAPI document through the audited reader of    *)
(* apireference_target.go, and the cache of documents its lookups share.   *)
(* The cluster is not still meanwhile: it may change its document between  *)
(* any two reads.  A document is named by its number, and so is its hash,  *)
(* which two clusters may therefore share.                                 *)
(***************************************************************************)
EXTENDS Naturals, SequencesExt

CONSTANTS
  Calls,         \* lookups of one connector
  Clusters,      \* clusters it reaches
  MaxChanges,    \* bound: changes of a cluster's document
  CacheEntries,  \* kubeCacheEntries
  NoHash, Nothing

ASSUME CacheEntriesAssumption == CacheEntries \in Nat \ {0}

VARIABLES
  document,      \* the document each cluster serves now
  entries,       \* kubeRefCache.entries, oldest first
  cluster,       \* the cluster each lookup names
  since,         \* history variable: the document it served when the lookup began
  cpc, sent,     \* where each lookup is, and whether its read is on the way
  hash,          \* the hash the root published
  held,          \* the document read, not yet answered with
  reads,         \* metadataReader.reads
  fatal,         \* audit.Fatal of each lookup
  over,          \* lookups whose context has ended
  refused,       \* history variable: lookups refused a read for its budget
  answer

clusterVars == <<document, entries, cluster, since, cpc, sent, hash, held, reads, fatal, over,
                 refused, answer>>
cacheVars == <<document, entries, cluster, since>>

(* Mutant: one read too few. *)
targetReadBudget_Short == 5

targetReadBudget == 6

CGoto(l, to) == cpc' = [cpc EXCEPT ![l] = to]
(* The call returns: the latch, and then the context, come before the recipe's answer. *)
Answered(l, a, latched) ==
  /\ CGoto(l, "done") /\ sent' = [sent EXCEPT ![l] = FALSE]
  /\ answer' = [answer EXCEPT ![l] = IF l \in latched THEN [kind |-> "error"]
                                     ELSE IF l \in over THEN [kind |-> "unavailable"] ELSE a]
Unavailable == [kind |-> "unavailable"]
-----------------------------------------------------------------------------
(* Mutant: the document's key alone, whichever cluster has that hash. *)
kubeCacheKey_Shared(l, h) == <<Clusters, h>>

(* The target's identity and the hash, the document's key being the same. *)
kubeCacheKey(l, h) == <<cluster[l], h>>

hits(l, h) == {i \in DOMAIN entries : entries[i].key = kubeCacheKey(l, h)}
cached(l, h) == entries[CHOOSE i \in hits(l, h) : TRUE].doc

(* put: at the end in the place of its namesake, of which there is at most *)
(* one, the oldest make room.                                              *)
put(l, e) ==
  LET same == {i \in DOMAIN entries : entries[i].key = e.key}
      others == IF same = {} THEN entries ELSE RemoveAt(entries, CHOOSE i \in same : TRUE) IN
    IF Len(others) < CacheEntries THEN Append(others, e) ELSE Append(Tail(others), e)
-----------------------------------------------------------------------------
(* PrepareLookup checks the query and the block and reads nothing. *)
PrepareLookup(l) ==
  /\ cpc[l] = "new"
  /\ since' = [since EXCEPT ![l] = document[cluster[l]]]
  /\ \/ CGoto(l, "resolve") /\ UNCHANGED <<sent, answer>>
     \/ Answered(l, [kind |-> "rejected"], fatal)
  /\ UNCHANGED <<document, entries, cluster, hash, held, reads, fatal, over, refused>>

(* Resolve: a managed connector asks its control plane, whose calls are    *)
(* recorded too, and refuses an endpoint it could not publish.             *)
Resolve(l) ==
  /\ cpc[l] = "resolve"
  /\ \/ l \notin over /\ CGoto(l, "root") /\ UNCHANGED <<sent, answer, fatal>>
     \/ \E broken \in SUBSET {l} : fatal' = fatal \cup broken /\ Answered(l, Unavailable, fatal')
  /\ UNCHANGED <<cacheVars, hash, held, reads, over, refused>>

Reading == {"root", "doc", "root2", "doc2", "plain", "version"}

(* What a read that did not come off leads to: /version can be missing. *)
ReadFails(l, latched) ==
  IF cpc[l] = "version" /\ l \notin over THEN CGoto(l, "finish") /\ sent' = [sent EXCEPT ![l] = FALSE] /\ UNCHANGED answer
  ELSE Answered(l, Unavailable, latched)

(* Read: the claim, then the attempt's record, then the request goes out.  *)
Send(l) ==
  /\ cpc[l] \in Reading /\ ~sent[l]
  /\ \/ /\ l \notin fatal /\ reads[l] < targetReadBudget
        /\ reads' = [reads EXCEPT ![l] = @ + 1]
        /\ \/ sent' = [sent EXCEPT ![l] = TRUE] /\ UNCHANGED <<fatal, cpc, answer>>
           \/ fatal' = fatal \cup {l} /\ ReadFails(l, fatal')
        /\ UNCHANGED refused
     \/ /\ l \notin fatal /\ reads[l] >= targetReadBudget
        /\ refused' = refused \cup {l} /\ ReadFails(l, fatal) /\ UNCHANGED <<reads, fatal>>
     \/ l \in fatal /\ ReadFails(l, fatal) /\ UNCHANGED <<reads, fatal, refused>>
  /\ UNCHANGED <<cacheVars, hash, held, over>>

(* The answer to a read is lost, refused, truncated, or its record is; the *)
(* context is looked at before it is used.                                 *)
ReadLost(l) ==
  /\ cpc[l] \in Reading /\ sent[l]
  /\ fatal' \in {fatal, fatal \cup {l}}
  /\ ReadFails(l, fatal')
  /\ UNCHANGED <<cacheVars, hash, held, reads, over, refused>>

Received(l) == sent[l] /\ l \notin over /\ sent' = [sent EXCEPT ![l] = FALSE]

(* The root lists the document with its hash, with none, or not at all.  A *)
(* hash that was stale once is not tried again.                            *)
Root(l) ==
  /\ cpc[l] \in {"root", "root2"} /\ Received(l)
  /\ \E h \in {document[cluster[l]], NoHash} :
       IF h = NoHash \/ (cpc[l] = "root2" /\ h = hash[l])
         THEN CGoto(l, "plain") /\ UNCHANGED <<hash, answer>>
       ELSE IF hits(l, h) # {}
         THEN /\ CGoto(l, "done") /\ UNCHANGED hash
              /\ answer' = [answer EXCEPT ![l] = [kind |-> "reference", doc |-> cached(l, h), hash |-> h]]
       ELSE /\ CGoto(l, IF cpc[l] = "root" THEN "doc" ELSE "doc2")
            /\ hash' = [hash EXCEPT ![l] = h] /\ UNCHANGED answer
  /\ UNCHANGED <<cacheVars, held, reads, fatal, over, refused>>

NotListed(l) ==
  /\ cpc[l] \in {"root", "root2"} /\ Received(l)
  /\ CGoto(l, "done") /\ answer' = [answer EXCEPT ![l] = [kind |-> "notFound"]]
  /\ UNCHANGED <<cacheVars, hash, held, reads, fatal, over, refused>>

Served(l) == [of |-> cluster[l], number |-> document[cluster[l]]]

(* The server confirms a hash it still has, and moves another. *)
confirmed(l) == hash[l] = document[cluster[l]]

(* document, by its hash; a stale hash has the root read once more, then   *)
(* the document without one.                                               *)
Document(l) ==
  /\ cpc[l] \in {"doc", "doc2"} /\ Received(l)
  /\ IF confirmed(l)
       THEN held' = [held EXCEPT ![l] = [doc |-> Served(l), hash |-> hash[l]]] /\ CGoto(l, "version")
       ELSE CGoto(l, IF cpc[l] = "doc" THEN "root2" ELSE "plain") /\ UNCHANGED held
  /\ UNCHANGED <<cacheVars, hash, reads, fatal, over, refused, answer>>

Plain(l) ==
  /\ cpc[l] = "plain" /\ Received(l)
  /\ held' = [held EXCEPT ![l] = [doc |-> Served(l), hash |-> NoHash]]
  /\ CGoto(l, "version")
  /\ UNCHANGED <<cacheVars, hash, reads, fatal, over, refused, answer>>

Version(l) ==
  /\ cpc[l] = "version" /\ Received(l)
  /\ CGoto(l, "finish")
  /\ UNCHANGED <<cacheVars, hash, held, reads, fatal, over, refused, answer>>

(* finish: what a confirmed hash names is kept for the next lookup. *)
Finished(l) ==
  /\ cpc[l] = "finish"
  /\ entries' = IF held[l].hash # NoHash /\ l \notin over
                THEN put(l, [key |-> kubeCacheKey(l, held[l].hash), doc |-> held[l].doc]) ELSE entries
  /\ Answered(l, [kind |-> "reference", doc |-> held[l].doc, hash |-> held[l].hash], fatal)
  /\ held' = [held EXCEPT ![l] = Nothing]
  /\ UNCHANGED <<document, cluster, since, hash, reads, fatal, over, refused>>
-----------------------------------------------------------------------------
(* The deadline of a lookup passes, or it is interrupted. *)
Deadline(l) ==
  /\ cpc[l] \notin {"new", "done"} /\ l \notin over
  /\ over' = over \cup {l}
  /\ UNCHANGED <<cacheVars, cpc, sent, hash, held, reads, fatal, refused, answer>>

(* A resource definition is installed or updated. *)
Change(c) ==
  /\ document[c] < MaxChanges
  /\ document' = [document EXCEPT ![c] = @ + 1]
  /\ UNCHANGED <<entries, cluster, since, cpc, sent, hash, held, reads, fatal, over, refused, answer>>

ClusterInit ==
  /\ document = [c \in Clusters |-> 0]
  /\ entries = <<>>
  /\ cluster \in [Calls -> Clusters]
  /\ since = [l \in Calls |-> 0]
  /\ cpc = [l \in Calls |-> "new"] /\ sent = [l \in Calls |-> FALSE]
  /\ hash = [l \in Calls |-> NoHash] /\ held = [l \in Calls |-> Nothing]
  /\ reads = [l \in Calls |-> 0] /\ fatal = {} /\ over = {} /\ refused = {}
  /\ answer = [l \in Calls |-> Nothing]

ClusterNext ==
  \/ \E c \in Clusters : Change(c)
  \/ \E l \in Calls :
       \/ PrepareLookup(l) \/ Resolve(l) \/ Send(l) \/ ReadLost(l) \/ Root(l) \/ NotListed(l)
       \/ Document(l) \/ Plain(l) \/ Version(l) \/ Finished(l) \/ Deadline(l)
-----------------------------------------------------------------------------
(* A reference describes a document that the named cluster itself served   *)
(* while the lookup ran, and under the hash it claims: a document that     *)
(* changes between the reads, another lookup's cache entry and a cluster   *)
(* with the same hash never make it another.                               *)
AnswerWasCurrent ==
  \A l \in Calls : answer[l] # Nothing /\ answer[l].kind = "reference" =>
    /\ answer[l].doc.of = cluster[l]
    /\ answer[l].doc.number \in since[l]..document[cluster[l]]
    /\ answer[l].hash \in {NoHash, answer[l].doc.number}

(* The longest way through the recipe, a document that changes under it    *)
(* twice, still has a read left for /version: no read of a lookup is       *)
(* refused for its budget.                                                 *)
ReadsSuffice == refused = {}
=============================================================================
