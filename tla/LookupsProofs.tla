--------------------------- MODULE LookupsProofs ---------------------------
(***************************************************************************)
(* What holds of api_reference lookups for any number of them: of the      *)
(* lookups of a cluster, which answer from a document that changes, of     *)
(* those over the Azure specs, which share downloads and a files dir, and  *)
(* of those of Google APIs, whose cache files two APIs may share.          *)
(***************************************************************************)
EXTENDS ClusterLookups, SpecLookups, GcpLookups, SequenceTheorems, FiniteSetTheorems, WellFoundedInduction, TLAPS

ClusterSpec == ClusterInit /\ [][ClusterNext]_clusterVars
SpecSpec == SpecInit /\ [][SpecNext]_specVars
GcpSpec == GcpInit /\ [][GcpNext]_gcpVars
-----------------------------------------------------------------------------
(* A sequence without the element at i.                                    *)
LEMMA RemoveAtProperties ==
  ASSUME NEW S, NEW s \in Seq(S), NEW i \in 1..Len(s)
  PROVE  /\ RemoveAt(s, i) \in Seq(S)
         /\ Len(RemoveAt(s, i)) = Len(s) - 1
         /\ \A j \in 1..(Len(s) - 1) : RemoveAt(s, i)[j] = IF j < i THEN s[j] ELSE s[j + 1]
<1> DEFINE a == SubSeq(s, 1, i - 1)
           b == SubSeq(s, i + 1, Len(s))
<1>1. i \in Int /\ Len(s) \in Nat /\ \A j \in 1..Len(s) : s[j] \in S
  OBVIOUS
<1>2. /\ a \in Seq(S) /\ Len(a) = i - 1
      /\ \A j \in 1..(i - 1) : a[j] = s[j]
  <2>1. i - 1 \in Int /\ 1 \in Int /\ \A j \in 1..(i - 1) : s[j] \in S BY <1>1
  <2>2. /\ a \in Seq(S) /\ Len(a) = IF 1 <= i - 1 THEN (i - 1) - 1 + 1 ELSE 0
        /\ \A j \in 1..((i - 1) - 1 + 1) : a[j] = s[1 + j - 1]
    BY <2>1, SubSeqProperties
  <2> HIDE DEF a
  <2> QED BY <1>1, <2>2
<1>3. /\ b \in Seq(S) /\ Len(b) = Len(s) - i
      /\ \A j \in 1..(Len(s) - i) : b[j] = s[i + j]
  <2>1. i + 1 \in Int /\ Len(s) \in Int /\ \A j \in (i + 1)..Len(s) : s[j] \in S BY <1>1
  <2>2. /\ b \in Seq(S) /\ Len(b) = IF i + 1 <= Len(s) THEN Len(s) - (i + 1) + 1 ELSE 0
        /\ \A j \in 1..(Len(s) - (i + 1) + 1) : b[j] = s[(i + 1) + j - 1]
    BY <2>1, SubSeqProperties
  <2> HIDE DEF b
  <2>3. Len(b) = Len(s) - i BY <1>1, <2>2
  <2>4. \A j \in 1..(Len(s) - i) : b[j] = s[i + j]
    <3> TAKE j \in 1..(Len(s) - i)
    <3>1. j \in 1..(Len(s) - (i + 1) + 1) /\ (i + 1) + j - 1 = i + j BY <1>1
    <3> QED BY <2>2, <3>1
  <2> QED BY <2>2, <2>3, <2>4
<1>4. RemoveAt(s, i) = a \o b
  BY DEF RemoveAt
<1> HIDE DEF a, b
<1>5. /\ a \o b \in Seq(S) /\ Len(a \o b) = Len(a) + Len(b)
      /\ \A j \in 1..(Len(a) + Len(b)) : (a \o b)[j] = IF j <= Len(a) THEN a[j] ELSE b[j - Len(a)]
  BY <1>2, <1>3, ConcatProperties
<1>6. \A j \in 1..(Len(s) - 1) : (a \o b)[j] = IF j < i THEN s[j] ELSE s[j + 1]
  <2> TAKE j \in 1..(Len(s) - 1)
  <2>1. CASE j < i
    <3>1. (a \o b)[j] = a[j] /\ j \in 1..(i - 1) BY <1>1, <1>2, <1>3, <1>5, <2>1
    <3> QED BY <1>2, <2>1, <3>1
  <2>2. CASE ~(j < i)
    <3>1. (a \o b)[j] = b[j - (i - 1)] BY <1>1, <1>2, <1>3, <1>5, <2>2
    <3>2. j - (i - 1) \in 1..(Len(s) - i) /\ i + (j - (i - 1)) = j + 1 BY <1>1, <2>2
    <3> QED BY <1>3, <2>2, <3>1, <3>2
  <2> QED BY <2>1, <2>2
<1> QED BY <1>1, <1>2, <1>3, <1>4, <1>5, <1>6
-----------------------------------------------------------------------------
(* The lookups of clusters.  How many reads lie behind one that is at each *)
(* read, at most.                                                          *)
ReadsBehind == [root |-> 0, doc |-> 1, root2 |-> 2, doc2 |-> 3, plain |-> 4, version |-> 5]

Docs == [of : Clusters, number : Nat]
Held == [doc : Docs, hash : Nat \cup {NoHash}]
Answers == {Nothing} \cup [kind : {"error", "unavailable", "rejected", "notFound"}]
             \cup [kind : {"reference"}, doc : Docs, hash : Nat \cup {NoHash}]

(* An entry is kept under the cluster and the number of its own document.  *)
Entries == {e \in [key : Clusters \X Nat, doc : Docs] :
              e.doc.of = e.key[1] /\ e.doc.number = e.key[2]}

ClusterTypeOK ==
  /\ document \in [Clusters -> Nat]
  /\ entries \in Seq(Entries)
  /\ cluster \in [Calls -> Clusters]
  /\ since \in [Calls -> Nat]
  /\ cpc \in [Calls -> {"new", "resolve", "finish", "done"} \cup Reading]
  /\ sent \in [Calls -> BOOLEAN]
  /\ hash \in [Calls -> Nat \cup {NoHash}]
  /\ held \in [Calls -> {Nothing} \cup Held]
  /\ reads \in [Calls -> Nat]
  /\ answer \in [Calls -> Answers]

(* What the lookup's cluster served while it ran, under that hash.         *)
Current(l, r) ==
  /\ r.doc.of = cluster[l]
  /\ r.doc.number \in since[l]..document[cluster[l]]
  /\ r.hash \in {NoHash, r.doc.number}

LookupOK(l) ==
  /\ since[l] <= document[cluster[l]]
  /\ cpc[l] = "new" => answer[l] = Nothing
  /\ cpc[l] \in {"new", "resolve"} => reads[l] = 0 /\ ~sent[l]
  /\ cpc[l] \in Reading => /\ reads[l] <= ReadsBehind[cpc[l]] + 1
                           /\ ~sent[l] => reads[l] <= ReadsBehind[cpc[l]]
  /\ cpc[l] \in {"version", "finish"} => held[l] \in Held /\ Current(l, held[l])
  /\ answer[l] # Nothing /\ answer[l].kind = "reference" => Current(l, answer[l])

ClusterInv ==
  /\ ClusterTypeOK
  /\ \A l \in Calls : LookupOK(l)
  /\ ReadsSuffice
-----------------------------------------------------------------------------
LEMMA ClusterStart == ClusterInit => ClusterInv
<1> SUFFICES ASSUME ClusterInit PROVE ClusterInv
  OBVIOUS
<1>1. entries \in Seq(Entries) BY DEF ClusterInit
<1>2. ClusterTypeOK
  BY <1>1 DEF ClusterInit, ClusterTypeOK, Answers
<1>3. \A l \in Calls : LookupOK(l)
  BY DEF ClusterInit, LookupOK, Reading
<1> QED BY <1>2, <1>3 DEF ClusterInit, ClusterInv, ReadsSuffice

(* A step of one lookup does not touch what the others have; the documents *)
(* only grow newer.                                                        *)
LEMMA OtherLookups ==
  ASSUME ClusterInv, NEW l \in Calls, UNCHANGED <<document, cluster>>,
         \A m \in Calls : m # l =>
           /\ cpc'[m] = cpc[m] /\ sent'[m] = sent[m] /\ held'[m] = held[m] /\ reads'[m] = reads[m]
           /\ answer'[m] = answer[m] /\ since'[m] = since[m]
  PROVE  \A m \in Calls : m # l => LookupOK(m)'
BY DEF ClusterInv, LookupOK, Current

(* What put keeps is of its own cluster, and has a place of its own.       *)
LEMMA PutKeeps ==
  ASSUME ClusterTypeOK, NEW l \in Calls, NEW e \in Entries
  PROVE  put(l, e) \in Seq(Entries)
<1> DEFINE same == {i \in DOMAIN entries : entries[i].key = e.key}
           others == IF same = {} THEN entries ELSE RemoveAt(entries, CHOOSE i \in same : TRUE)
<1>1. others \in Seq(Entries)
  <2>1. CASE same = {} BY <2>1 DEF ClusterTypeOK
  <2>2. CASE same # {}
    <3>1. (CHOOSE i \in same : TRUE) \in 1..Len(entries) BY <2>2 DEF ClusterTypeOK
    <3>2. entries \in Seq(Entries) BY DEF ClusterTypeOK
    <3>3. RemoveAt(entries, CHOOSE i \in same : TRUE) \in Seq(Entries)
      BY <3>1, <3>2, RemoveAtProperties
    <3> QED BY <2>2, <3>3
  <2> QED BY <2>1, <2>2
<1>2. put(l, e) = IF Len(others) < CacheEntries THEN Append(others, e) ELSE Append(Tail(others), e)
  BY DEF put
<1> HIDE DEF others
<1>3. CASE Len(others) < CacheEntries
  BY <1>1, <1>2, <1>3
<1>4. CASE ~(Len(others) < CacheEntries)
  <2>1. others # <<>> BY <1>1, <1>4, CacheEntriesAssumption
  <2>2. Tail(others) \in Seq(Entries) BY <1>1, <2>1, HeadTailProperties
  <2> QED BY <1>2, <1>4, <2>2
<1> QED BY <1>3, <1>4

LEMMA AnsweredTyped ==
  ASSUME ClusterTypeOK, NEW l \in Calls, NEW a \in Answers, NEW latched, Answered(l, a, latched)
  PROVE  /\ cpc' \in [Calls -> {"new", "resolve", "finish", "done"} \cup Reading]
         /\ sent' \in [Calls -> BOOLEAN] /\ answer' \in [Calls -> Answers]
         /\ cpc'[l] = "done" /\ answer'[l] \in {[kind |-> "error"], [kind |-> "unavailable"], a}
         /\ \A m \in Calls : m # l => cpc'[m] = cpc[m] /\ sent'[m] = sent[m] /\ answer'[m] = answer[m]
<1>1. cpc' = [cpc EXCEPT ![l] = "done"] /\ sent' = [sent EXCEPT ![l] = FALSE]
  BY DEF Answered, CGoto
<1>2. PICK b \in {[kind |-> "error"], [kind |-> "unavailable"], a} : answer' = [answer EXCEPT ![l] = b]
  BY DEF Answered
<1>3. b \in Answers BY DEF Answers
<1> QED BY <1>1, <1>2, <1>3 DEF ClusterTypeOK

(* A lookup that is done has answered from a current document, if at all.  *)
LEMMA DoneOK ==
  ASSUME NEW l \in Calls, ClusterInv, UNCHANGED <<document, cluster, since>>, cpc'[l] = "done",
         answer'[l] # Nothing /\ answer'[l].kind = "reference" => Current(l, answer'[l])
  PROVE  LookupOK(l)'
BY DEF ClusterInv, LookupOK, Current, Reading

LEMMA AnsweredOK ==
  ASSUME NEW l \in Calls, ClusterInv, UNCHANGED <<document, cluster, since>>,
         NEW a \in Answers, NEW latched, Answered(l, a, latched),
         a.kind = "reference" => Current(l, a)
  PROVE  LookupOK(l)'
<1>1. cpc'[l] = "done" /\ answer'[l] \in {[kind |-> "error"], [kind |-> "unavailable"], a}
  BY AnsweredTyped DEF ClusterInv
<1>2. answer'[l].kind = "reference" => Current(l, answer'[l])
  BY <1>1
<1> QED BY <1>1, <1>2, DoneOK

LEMMA UnavailableIsAnswer == Unavailable \in Answers /\ Unavailable.kind # "reference"
BY DEF Unavailable, Answers

LEMMA ReadFailsOK ==
  ASSUME NEW l \in Calls, ClusterInv, UNCHANGED <<document, cluster, since, held>>, NEW latched,
         cpc[l] \in Reading, ReadFails(l, latched)
  PROVE  /\ cpc' \in [Calls -> {"new", "resolve", "finish", "done"} \cup Reading]
         /\ sent' \in [Calls -> BOOLEAN] /\ answer' \in [Calls -> Answers]
         /\ LookupOK(l)'
         /\ \A m \in Calls : m # l => cpc'[m] = cpc[m] /\ sent'[m] = sent[m] /\ answer'[m] = answer[m]
<1>1. CASE cpc[l] = "version" /\ l \notin over
  <2>1. cpc' = [cpc EXCEPT ![l] = "finish"] /\ sent' = [sent EXCEPT ![l] = FALSE] /\ answer' = answer
    BY <1>1 DEF ReadFails, CGoto
  <2>2. /\ cpc' \in [Calls -> {"new", "resolve", "finish", "done"} \cup Reading]
        /\ sent' \in [Calls -> BOOLEAN] /\ answer' \in [Calls -> Answers] /\ cpc'[l] = "finish"
        /\ \A m \in Calls : m # l => cpc'[m] = cpc[m] /\ sent'[m] = sent[m] /\ answer'[m] = answer[m]
    BY <2>1 DEF ClusterInv, ClusterTypeOK
  <2>3. LookupOK(l)'
    BY <1>1, <2>1, <2>2 DEF ClusterInv, LookupOK, Current, Reading
  <2> QED BY <2>2, <2>3
<1>2. CASE ~(cpc[l] = "version" /\ l \notin over)
  <2>1. Answered(l, Unavailable, latched) BY <1>2 DEF ReadFails
  <2> QED BY <2>1, AnsweredTyped, AnsweredOK, UnavailableIsAnswer DEF ClusterInv
<1> QED BY <1>1, <1>2
-----------------------------------------------------------------------------
LEMMA PrepareKeeps == ASSUME ClusterInv, NEW l \in Calls, PrepareLookup(l) PROVE ClusterInv'
<1>1. /\ cpc[l] = "new" /\ since' = [since EXCEPT ![l] = document[cluster[l]]]
      /\ UNCHANGED <<document, entries, cluster, hash, held, reads, refused>>
  BY DEF PrepareLookup
<1>2. document[cluster[l]] \in Nat BY DEF ClusterInv, ClusterTypeOK
<1>3. since' \in [Calls -> Nat] /\ since'[l] = document[cluster[l]] /\ \A m \in Calls : m # l => since'[m] = since[m]
  BY <1>1, <1>2 DEF ClusterInv, ClusterTypeOK
<1>4. CASE CGoto(l, "resolve") /\ UNCHANGED <<sent, answer>>
  <2>1. /\ cpc' \in [Calls -> {"new", "resolve", "finish", "done"} \cup Reading] /\ cpc'[l] = "resolve"
        /\ \A m \in Calls : m # l => cpc'[m] = cpc[m]
    BY <1>4 DEF CGoto, ClusterInv, ClusterTypeOK
  <2>2. LookupOK(l)'
    BY <1>1, <1>2, <1>3, <1>4, <2>1 DEF ClusterInv, LookupOK, Reading
  <2>3. \A m \in Calls : m # l => LookupOK(m)'
    BY <1>1, <1>3, <1>4, <2>1, OtherLookups
  <2>4. ClusterTypeOK'
    BY <1>1, <1>3, <1>4, <2>1 DEF ClusterInv, ClusterTypeOK
  <2> QED BY <1>1, <2>2, <2>3, <2>4 DEF ClusterInv, ReadsSuffice
<1>5. CASE Answered(l, [kind |-> "rejected"], fatal)
  <2>1. [kind |-> "rejected"] \in Answers BY DEF Answers
  <2>2. /\ cpc' \in [Calls -> {"new", "resolve", "finish", "done"} \cup Reading]
        /\ sent' \in [Calls -> BOOLEAN] /\ answer' \in [Calls -> Answers] /\ cpc'[l] = "done"
        /\ answer'[l] \in {[kind |-> "error"], [kind |-> "unavailable"], [kind |-> "rejected"]}
        /\ \A m \in Calls : m # l => cpc'[m] = cpc[m] /\ sent'[m] = sent[m] /\ answer'[m] = answer[m]
    BY <1>5, <2>1, AnsweredTyped DEF ClusterInv
  <2>3. LookupOK(l)'
    <3>1. answer'[l].kind # "reference" BY <2>2
    <3> QED BY <1>1, <1>2, <1>3, <2>2, <3>1 DEF LookupOK, Reading
  <2>4. \A m \in Calls : m # l => LookupOK(m)'
    BY <1>1, <1>3, <2>2, OtherLookups
  <2>5. ClusterTypeOK'
    BY <1>1, <1>3, <2>2 DEF ClusterInv, ClusterTypeOK
  <2> QED BY <1>1, <2>3, <2>4, <2>5 DEF ClusterInv, ReadsSuffice
<1> QED BY <1>4, <1>5 DEF PrepareLookup

LEMMA ResolveStepKeeps == ASSUME ClusterInv, NEW l \in Calls, Resolve(l) PROVE ClusterInv'
<1>1. /\ cpc[l] = "resolve"
      /\ UNCHANGED <<document, entries, cluster, since, hash, held, reads, refused>>
  BY DEF Resolve, cacheVars
<1>2. CASE CGoto(l, "root") /\ UNCHANGED <<sent, answer>>
  <2>1. /\ cpc' \in [Calls -> {"new", "resolve", "finish", "done"} \cup Reading] /\ cpc'[l] = "root"
        /\ \A m \in Calls : m # l => cpc'[m] = cpc[m]
    BY <1>2 DEF CGoto, ClusterInv, ClusterTypeOK, Reading
  <2>2. LookupOK(l)'
    BY <1>1, <1>2, <2>1 DEF ClusterInv, LookupOK, Reading, ReadsBehind, Current
  <2>3. \A m \in Calls : m # l => LookupOK(m)'
    BY <1>1, <1>2, <2>1, OtherLookups
  <2>4. ClusterTypeOK'
    BY <1>1, <1>2, <2>1 DEF ClusterInv, ClusterTypeOK
  <2> QED BY <1>1, <2>2, <2>3, <2>4 DEF ClusterInv, ReadsSuffice
<1>3. CASE Answered(l, Unavailable, fatal')
  <2>1. /\ cpc' \in [Calls -> {"new", "resolve", "finish", "done"} \cup Reading]
        /\ sent' \in [Calls -> BOOLEAN] /\ answer' \in [Calls -> Answers]
        /\ \A m \in Calls : m # l => cpc'[m] = cpc[m] /\ sent'[m] = sent[m] /\ answer'[m] = answer[m]
    BY <1>3, UnavailableIsAnswer, AnsweredTyped DEF ClusterInv
  <2>2. LookupOK(l)'
    BY <1>1, <1>3, UnavailableIsAnswer, AnsweredOK
  <2>3. \A m \in Calls : m # l => LookupOK(m)'
    BY <1>1, <2>1, OtherLookups
  <2>4. ClusterTypeOK'
    BY <1>1, <2>1 DEF ClusterInv, ClusterTypeOK
  <2> QED BY <1>1, <2>2, <2>3, <2>4 DEF ClusterInv, ReadsSuffice
<1> QED BY <1>2, <1>3 DEF Resolve

(* A read is claimed while some are left, which there are at every read.   *)
LEMMA SendKeeps == ASSUME ClusterInv, NEW l \in Calls, Send(l) PROVE ClusterInv'
<1>1. /\ cpc[l] \in Reading /\ ~sent[l]
      /\ UNCHANGED <<document, entries, cluster, since, hash, held>>
  BY DEF Send, cacheVars
<1>2. reads[l] <= ReadsBehind[cpc[l]] /\ reads[l] \in Nat
  BY <1>1 DEF ClusterInv, LookupOK, ClusterTypeOK
<1>3. ReadsBehind[cpc[l]] \in 0..5
  BY <1>1 DEF ReadsBehind, Reading
<1>4. reads[l] < targetReadBudget
  BY <1>2, <1>3 DEF targetReadBudget
<1>5. refused' = refused
  BY <1>2, <1>4 DEF Send, targetReadBudget
<1>6. reads' \in [Calls -> Nat] /\ reads'[l] \in {reads[l], reads[l] + 1} /\ \A m \in Calls : m # l => reads'[m] = reads[m]
  <2>1. reads' = [reads EXCEPT ![l] = reads[l] + 1] \/ reads' = reads
    BY DEF Send
  <2>2. reads \in [Calls -> Nat] BY DEF ClusterInv, ClusterTypeOK
  <2> QED BY <1>2, <2>1, <2>2
<1>7. CASE sent' = [sent EXCEPT ![l] = TRUE] /\ UNCHANGED <<cpc, answer>>
  <2>1. sent' \in [Calls -> BOOLEAN] /\ sent'[l] = TRUE /\ \A m \in Calls : m # l => sent'[m] = sent[m]
    BY <1>7 DEF ClusterInv, ClusterTypeOK
  <2>2. reads'[l] <= ReadsBehind[cpc[l]] + 1
    BY <1>2, <1>3, <1>6
  <2>3. LookupOK(l)'
    BY <1>1, <1>7, <2>1, <2>2 DEF ClusterInv, LookupOK, Current, Reading
  <2>4. \A m \in Calls : m # l => LookupOK(m)'
    BY <1>1, <1>6, <1>7, <2>1, OtherLookups
  <2>5. ClusterTypeOK'
    BY <1>1, <1>6, <1>7, <2>1 DEF ClusterInv, ClusterTypeOK
  <2> QED BY <1>5, <2>3, <2>4, <2>5 DEF ClusterInv, ReadsSuffice
<1>8. CASE ReadFails(l, fatal') \/ ReadFails(l, fatal)
  <2>1. /\ cpc' \in [Calls -> {"new", "resolve", "finish", "done"} \cup Reading]
        /\ sent' \in [Calls -> BOOLEAN] /\ answer' \in [Calls -> Answers]
        /\ LookupOK(l)'
        /\ \A m \in Calls : m # l => cpc'[m] = cpc[m] /\ sent'[m] = sent[m] /\ answer'[m] = answer[m]
    <3>1. CASE ReadFails(l, fatal') BY <1>1, <3>1, ReadFailsOK
    <3>2. CASE ReadFails(l, fatal) BY <1>1, <3>2, ReadFailsOK
    <3> QED BY <1>8, <3>1, <3>2
  <2>2. \A m \in Calls : m # l => LookupOK(m)'
    BY <1>1, <1>6, <2>1, OtherLookups
  <2>3. ClusterTypeOK'
    BY <1>1, <1>6, <2>1 DEF ClusterInv, ClusterTypeOK
  <2> QED BY <1>5, <2>1, <2>2, <2>3 DEF ClusterInv, ReadsSuffice
<1> QED BY <1>7, <1>8 DEF Send

LEMMA ReadLostKeeps == ASSUME ClusterInv, NEW l \in Calls, ReadLost(l) PROVE ClusterInv'
<1>1. /\ cpc[l] \in Reading /\ ReadFails(l, fatal')
      /\ UNCHANGED <<document, entries, cluster, since, hash, held, reads, refused>>
  BY DEF ReadLost, cacheVars
<1>2. /\ cpc' \in [Calls -> {"new", "resolve", "finish", "done"} \cup Reading]
      /\ sent' \in [Calls -> BOOLEAN] /\ answer' \in [Calls -> Answers]
      /\ LookupOK(l)'
      /\ \A m \in Calls : m # l => cpc'[m] = cpc[m] /\ sent'[m] = sent[m] /\ answer'[m] = answer[m]
  BY <1>1, ReadFailsOK
<1>3. \A m \in Calls : m # l => LookupOK(m)'
  BY <1>1, <1>2, OtherLookups
<1>4. ClusterTypeOK'
  BY <1>1, <1>2 DEF ClusterInv, ClusterTypeOK
<1> QED BY <1>1, <1>2, <1>3, <1>4 DEF ClusterInv, ReadsSuffice

Steps == {"new", "resolve", "finish", "done"} \cup Reading

(* An answer to a read moves its lookup on, or ends it.                    *)
LEMMA MovesOn ==
  ASSUME ClusterInv, NEW l \in Calls, Received(l), NEW to \in Steps, CGoto(l, to)
  PROVE  /\ cpc' \in [Calls -> Steps] /\ sent' \in [Calls -> BOOLEAN] /\ cpc'[l] = to /\ sent'[l] = FALSE
         /\ \A m \in Calls : m # l => cpc'[m] = cpc[m] /\ sent'[m] = sent[m]
BY DEF Received, CGoto, ClusterInv, ClusterTypeOK, Steps

LEMMA DocumentTyped ==
  ASSUME ClusterInv, NEW l \in Calls
  PROVE  /\ cluster[l] \in Clusters /\ document[cluster[l]] \in Nat /\ since[l] \in Nat
         /\ Served(l) \in Docs /\ Served(l).of = cluster[l] /\ Served(l).number = document[cluster[l]]
         /\ since[l] <= document[cluster[l]]
BY DEF ClusterInv, ClusterTypeOK, LookupOK, Served, Docs

(* A hit has the document under the key it was looked up with.             *)
LEMMA CachedIsCurrent ==
  ASSUME ClusterInv, NEW l \in Calls, NEW h, h = document[cluster[l]], hits(l, h) # {}
  PROVE  cached(l, h) \in Docs /\ cached(l, h).of = cluster[l] /\ cached(l, h).number = h
<1>1. PICK i : i = CHOOSE j \in hits(l, h) : TRUE
  OBVIOUS
<1>2. i \in DOMAIN entries /\ entries[i].key = <<cluster[l], h>>
  BY <1>1 DEF hits, kubeCacheKey
<1>3. entries[i] \in Entries
  BY <1>2 DEF ClusterInv, ClusterTypeOK
<1>4. entries[i].doc \in Docs /\ entries[i].doc.of = cluster[l] /\ entries[i].doc.number = h
  BY <1>2, <1>3 DEF Entries
<1> QED BY <1>1, <1>4 DEF cached

LEMMA ReadsOn ==
  ASSUME ClusterInv, NEW l \in Calls, Received(l), NEW to \in {"doc", "root2", "doc2", "plain"}, CGoto(l, to),
         reads[l] <= ReadsBehind[to], UNCHANGED <<document, cluster, since, held, reads, answer>>
  PROVE  /\ cpc' \in [Calls -> Steps] /\ sent' \in [Calls -> BOOLEAN]
         /\ \A m \in Calls : LookupOK(m)'
<1>1. to \in Reading /\ to \in Steps BY DEF Steps, Reading
<1>2. /\ cpc' \in [Calls -> Steps] /\ sent' \in [Calls -> BOOLEAN] /\ cpc'[l] = to /\ sent'[l] = FALSE
      /\ \A m \in Calls : m # l => cpc'[m] = cpc[m] /\ sent'[m] = sent[m]
  BY <1>1, MovesOn
<1>3. reads[l] <= ReadsBehind[to] + 1
  BY DEF ClusterInv, ClusterTypeOK, ReadsBehind
<1>4. LookupOK(l)'
  BY <1>1, <1>2, <1>3 DEF ClusterInv, LookupOK, Current, Received
<1>5. \A m \in Calls : m # l => LookupOK(m)'
  BY <1>2, OtherLookups
<1> QED BY <1>2, <1>4, <1>5

LEMMA RootKeeps == ASSUME ClusterInv, NEW l \in Calls, Root(l) PROVE ClusterInv'
<1>1. /\ cpc[l] \in {"root", "root2"} /\ Received(l) /\ sent[l]
      /\ UNCHANGED <<document, entries, cluster, since, held, reads, refused>>
  BY DEF Root, Received, cacheVars
<1>2. PICK h \in {document[cluster[l]], NoHash} :
        IF h = NoHash \/ (cpc[l] = "root2" /\ h = hash[l])
          THEN CGoto(l, "plain") /\ UNCHANGED <<hash, answer>>
        ELSE IF hits(l, h) # {}
          THEN /\ CGoto(l, "done") /\ UNCHANGED hash
               /\ answer' = [answer EXCEPT ![l] = [kind |-> "reference", doc |-> cached(l, h), hash |-> h]]
        ELSE /\ CGoto(l, IF cpc[l] = "root" THEN "doc" ELSE "doc2")
             /\ hash' = [hash EXCEPT ![l] = h] /\ UNCHANGED answer
  BY DEF Root
<1>3. reads[l] \in Nat /\ reads[l] <= (IF cpc[l] = "root" THEN 1 ELSE 3)
  BY <1>1 DEF ClusterInv, LookupOK, Reading, ClusterTypeOK, ReadsBehind
<1>4. CASE h = NoHash \/ (cpc[l] = "root2" /\ h = hash[l])
  <2>1. CGoto(l, "plain") /\ UNCHANGED <<hash, answer>> BY <1>2, <1>4
  <2>2. reads[l] <= ReadsBehind["plain"] BY <1>3 DEF ReadsBehind
  <2>3. cpc' \in [Calls -> Steps] /\ sent' \in [Calls -> BOOLEAN] /\ \A m \in Calls : LookupOK(m)'
    BY <1>1, <2>1, <2>2, ReadsOn
  <2>4. ClusterTypeOK'
    BY <1>1, <2>1, <2>3 DEF ClusterInv, ClusterTypeOK, Steps
  <2> QED BY <1>1, <2>3, <2>4 DEF ClusterInv, ReadsSuffice
<1>5. CASE ~(h = NoHash \/ (cpc[l] = "root2" /\ h = hash[l])) /\ hits(l, h) # {}
  <2> DEFINE a == [kind |-> "reference", doc |-> cached(l, h), hash |-> h]
  <2>1. CGoto(l, "done") /\ UNCHANGED hash /\ answer' = [answer EXCEPT ![l] = a] BY <1>2, <1>5
  <2>2. h = document[cluster[l]] /\ h \in Nat BY <1>5, DocumentTyped
  <2>3. cached(l, h) \in Docs /\ cached(l, h).of = cluster[l] /\ cached(l, h).number = h
    BY <1>5, <2>2, CachedIsCurrent
  <2>4. a \in Answers /\ a.doc = cached(l, h) /\ a.hash = h
    BY <2>2, <2>3 DEF Answers
  <2>5. Current(l, a)
    BY <2>2, <2>3, <2>4, DocumentTyped DEF Current
  <2> HIDE DEF a
  <2>6. answer' \in [Calls -> Answers] /\ answer'[l] = a /\ \A m \in Calls : m # l => answer'[m] = answer[m]
    BY <2>1, <2>4 DEF ClusterInv, ClusterTypeOK
  <2>7. /\ cpc' \in [Calls -> Steps] /\ sent' \in [Calls -> BOOLEAN] /\ cpc'[l] = "done"
        /\ \A m \in Calls : m # l => cpc'[m] = cpc[m] /\ sent'[m] = sent[m]
    BY <1>1, <2>1, MovesOn DEF Steps
  <2>8. LookupOK(l)' BY <1>1, <2>5, <2>6, <2>7, DoneOK
  <2>9. \A m \in Calls : m # l => LookupOK(m)' BY <1>1, <2>6, <2>7, OtherLookups
  <2>10. ClusterTypeOK'
    BY <1>1, <2>1, <2>6, <2>7 DEF ClusterInv, ClusterTypeOK, Steps
  <2> QED BY <1>1, <2>8, <2>9, <2>10 DEF ClusterInv, ReadsSuffice
<1>6. CASE ~(h = NoHash \/ (cpc[l] = "root2" /\ h = hash[l])) /\ hits(l, h) = {}
  <2>1. PICK to \in {"doc", "doc2"} : CGoto(l, to) /\ (to = "doc" <=> cpc[l] = "root")
    BY <1>2, <1>6
  <2>2. hash' = [hash EXCEPT ![l] = h] /\ UNCHANGED answer BY <1>2, <1>6
  <2>3. hash' \in [Calls -> Nat \cup {NoHash}]
    BY <2>2, DocumentTyped DEF ClusterInv, ClusterTypeOK
  <2>4. reads[l] <= ReadsBehind[to] BY <1>1, <1>3, <2>1 DEF ReadsBehind
  <2>5. cpc' \in [Calls -> Steps] /\ sent' \in [Calls -> BOOLEAN] /\ \A m \in Calls : LookupOK(m)'
    BY <1>1, <2>1, <2>2, <2>4, ReadsOn
  <2>6. ClusterTypeOK'
    BY <1>1, <2>2, <2>3, <2>5 DEF ClusterInv, ClusterTypeOK, Steps
  <2> QED BY <1>1, <2>5, <2>6 DEF ClusterInv, ReadsSuffice
<1> QED BY <1>4, <1>5, <1>6

LEMMA NotListedKeeps == ASSUME ClusterInv, NEW l \in Calls, NotListed(l) PROVE ClusterInv'
<1>1. /\ Received(l) /\ CGoto(l, "done") /\ answer' = [answer EXCEPT ![l] = [kind |-> "notFound"]]
      /\ UNCHANGED <<document, entries, cluster, since, hash, held, reads, refused>>
  BY DEF NotListed, cacheVars
<1>2. [kind |-> "notFound"] \in Answers BY DEF Answers
<1>3. /\ answer' \in [Calls -> Answers] /\ answer'[l] = [kind |-> "notFound"]
      /\ \A m \in Calls : m # l => answer'[m] = answer[m]
  BY <1>1, <1>2 DEF ClusterInv, ClusterTypeOK
<1>4. /\ cpc' \in [Calls -> Steps] /\ sent' \in [Calls -> BOOLEAN] /\ cpc'[l] = "done"
      /\ \A m \in Calls : m # l => cpc'[m] = cpc[m] /\ sent'[m] = sent[m]
  BY <1>1, MovesOn DEF Steps
<1>5. answer'[l].kind # "reference" BY <1>3
<1>6. LookupOK(l)' BY <1>1, <1>4, <1>5, DoneOK
<1>7. \A m \in Calls : m # l => LookupOK(m)' BY <1>1, <1>3, <1>4, OtherLookups
<1>8. ClusterTypeOK'
  BY <1>1, <1>3, <1>4 DEF ClusterInv, ClusterTypeOK, Steps
<1> QED BY <1>1, <1>6, <1>7, <1>8 DEF ClusterInv, ReadsSuffice

(* The document is held with the hash the server confirmed, or none.       *)
LEMMA HoldsDocument ==
  ASSUME ClusterInv, NEW l \in Calls, Received(l), CGoto(l, "version"), cpc[l] \in {"doc", "doc2", "plain"},
         NEW h, h \in {NoHash, document[cluster[l]]},
         held' = [held EXCEPT ![l] = [doc |-> Served(l), hash |-> h]],
         UNCHANGED <<document, entries, cluster, since, hash, reads, refused, answer>>
  PROVE  ClusterInv'
<1> DEFINE d == [doc |-> Served(l), hash |-> h]
<1>1. d \in Held /\ d.doc = Served(l) /\ d.hash = h
  BY DocumentTyped DEF Held
<1>2. Current(l, d)
  BY <1>1, DocumentTyped DEF Current
<1> HIDE DEF d
<1>3. held' \in [Calls -> {Nothing} \cup Held] /\ held'[l] = d /\ \A m \in Calls : m # l => held'[m] = held[m]
  BY <1>1 DEF ClusterInv, ClusterTypeOK, d
<1>4. /\ cpc' \in [Calls -> Steps] /\ sent' \in [Calls -> BOOLEAN] /\ cpc'[l] = "version" /\ sent'[l] = FALSE
      /\ \A m \in Calls : m # l => cpc'[m] = cpc[m] /\ sent'[m] = sent[m]
  BY MovesOn DEF Steps, Reading
<1>5. reads[l] \in Nat /\ reads[l] <= ReadsBehind["version"]
  BY DEF ClusterInv, LookupOK, Reading, ClusterTypeOK, ReadsBehind
<1>6. ReadsBehind["version"] = 5 BY DEF ReadsBehind
<1>7. LookupOK(l)'
  <2>1. Current(l, held'[l]) BY <1>2, <1>3
  <2> QED BY <1>1, <1>3, <1>4, <1>5, <1>6, <2>1 DEF ClusterInv, LookupOK, Current, Reading
<1>8. \A m \in Calls : m # l => LookupOK(m)' BY <1>3, <1>4, OtherLookups
<1>9. ClusterTypeOK'
  BY <1>3, <1>4 DEF ClusterInv, ClusterTypeOK, Steps
<1> QED BY <1>7, <1>8, <1>9 DEF ClusterInv, ReadsSuffice

LEMMA DocumentKeeps == ASSUME ClusterInv, NEW l \in Calls, Document(l) \/ Plain(l) PROVE ClusterInv'
<1>1. /\ Received(l)
      /\ UNCHANGED <<document, entries, cluster, since, hash, reads, refused, answer>>
  BY DEF Document, Plain, cacheVars
<1>2. CASE Plain(l)
  BY <1>1, <1>2, HoldsDocument DEF Plain
<1>3. CASE Document(l) /\ confirmed(l)
  <2>1. /\ held' = [held EXCEPT ![l] = [doc |-> Served(l), hash |-> hash[l]]] /\ CGoto(l, "version")
        /\ cpc[l] \in {"doc", "doc2"}
    BY <1>3 DEF Document
  <2>2. hash[l] = document[cluster[l]] BY <1>3 DEF confirmed
  <2> QED BY <1>1, <2>1, <2>2, HoldsDocument
<1>4. CASE Document(l) /\ ~confirmed(l)
  <2>1. /\ cpc[l] \in {"doc", "doc2"} /\ held' = held
        /\ CGoto(l, IF cpc[l] = "doc" THEN "root2" ELSE "plain")
    BY <1>4 DEF Document
  <2>2. PICK to \in {"root2", "plain"} : CGoto(l, to) /\ (to = "root2" <=> cpc[l] = "doc")
    BY <2>1
  <2>3. reads[l] \in Nat /\ reads[l] <= (IF cpc[l] = "doc" THEN 2 ELSE 4)
    BY <2>1 DEF ClusterInv, LookupOK, Reading, ClusterTypeOK, ReadsBehind
  <2>4. reads[l] <= ReadsBehind[to] BY <2>1, <2>2, <2>3 DEF ReadsBehind
  <2>5. cpc' \in [Calls -> Steps] /\ sent' \in [Calls -> BOOLEAN] /\ \A m \in Calls : LookupOK(m)'
    BY <1>1, <2>1, <2>2, <2>4, ReadsOn
  <2>6. ClusterTypeOK'
    BY <1>1, <2>1, <2>5 DEF ClusterInv, ClusterTypeOK, Steps
  <2> QED BY <1>1, <2>5, <2>6 DEF ClusterInv, ReadsSuffice
<1> QED BY <1>2, <1>3, <1>4

LEMMA VersionKeeps == ASSUME ClusterInv, NEW l \in Calls, Version(l) PROVE ClusterInv'
<1>1. /\ Received(l) /\ cpc[l] = "version" /\ CGoto(l, "finish")
      /\ UNCHANGED <<document, entries, cluster, since, hash, held, reads, refused, answer>>
  BY DEF Version, cacheVars
<1>2. /\ cpc' \in [Calls -> Steps] /\ sent' \in [Calls -> BOOLEAN] /\ cpc'[l] = "finish"
      /\ \A m \in Calls : m # l => cpc'[m] = cpc[m] /\ sent'[m] = sent[m]
  BY <1>1, MovesOn DEF Steps
<1>3. LookupOK(l)'
  BY <1>1, <1>2 DEF ClusterInv, LookupOK, Current, Reading
<1>4. \A m \in Calls : m # l => LookupOK(m)' BY <1>1, <1>2, OtherLookups
<1>5. ClusterTypeOK'
  BY <1>1, <1>2 DEF ClusterInv, ClusterTypeOK, Steps
<1> QED BY <1>1, <1>3, <1>4, <1>5 DEF ClusterInv, ReadsSuffice

(* What is kept under a confirmed hash is of the cluster and the number in *)
(* its key.                                                                *)
LEMMA KeptIsEntry ==
  ASSUME ClusterInv, NEW l \in Calls, held[l] \in Held, Current(l, held[l]), held[l].hash # NoHash
  PROVE  [key |-> kubeCacheKey(l, held[l].hash), doc |-> held[l].doc] \in Entries
<1> DEFINE e == [key |-> kubeCacheKey(l, held[l].hash), doc |-> held[l].doc]
<1>1. held[l].hash = held[l].doc.number /\ held[l].doc.of = cluster[l] BY DEF Current
<1>2. held[l].doc \in Docs /\ held[l].doc.number \in Nat BY DEF Held, Docs
<1>3. kubeCacheKey(l, held[l].hash) = <<cluster[l], held[l].doc.number>> BY <1>1 DEF kubeCacheKey
<1>4. e.key = <<cluster[l], held[l].doc.number>> /\ e.doc = held[l].doc BY <1>3
<1>5. e \in [key : Clusters \X Nat, doc : Docs] BY <1>2, <1>3, DocumentTyped
<1> QED BY <1>1, <1>4, <1>5 DEF Entries

(* What a confirmed hash names is kept, and answered with.                 *)
LEMMA FinishedKeeps == ASSUME ClusterInv, NEW l \in Calls, Finished(l) PROVE ClusterInv'
<1> DEFINE a == [kind |-> "reference", doc |-> held[l].doc, hash |-> held[l].hash]
           e == [key |-> kubeCacheKey(l, held[l].hash), doc |-> held[l].doc]
<1>1. /\ cpc[l] = "finish" /\ Answered(l, a, fatal) /\ held' = [held EXCEPT ![l] = Nothing]
      /\ UNCHANGED <<document, cluster, since, hash, reads, refused>>
  BY DEF Finished
<1>2. entries' = IF held[l].hash # NoHash /\ l \notin over THEN put(l, e) ELSE entries
  BY DEF Finished
<1>3. held[l] \in Held /\ Current(l, held[l])
  BY <1>1 DEF ClusterInv, LookupOK
<1>4. a \in Answers /\ a.doc = held[l].doc /\ a.hash = held[l].hash
  BY <1>3 DEF Held, Answers
<1>5. Current(l, a)
  BY <1>3, <1>4 DEF Current
<1>6. held[l].hash # NoHash => e \in Entries
  BY <1>3, KeptIsEntry
<1> HIDE DEF a, e
<1>7. entries' \in Seq(Entries)
  BY <1>2, <1>6, PutKeeps DEF ClusterInv, ClusterTypeOK
<1>8. held' \in [Calls -> {Nothing} \cup Held] /\ \A m \in Calls : m # l => held'[m] = held[m]
  BY <1>1 DEF ClusterInv, ClusterTypeOK
<1>9. /\ cpc' \in [Calls -> {"new", "resolve", "finish", "done"} \cup Reading]
      /\ sent' \in [Calls -> BOOLEAN] /\ answer' \in [Calls -> Answers]
      /\ \A m \in Calls : m # l => cpc'[m] = cpc[m] /\ sent'[m] = sent[m] /\ answer'[m] = answer[m]
  BY <1>1, <1>4, AnsweredTyped DEF ClusterInv
<1>10. LookupOK(l)' BY <1>1, <1>4, <1>5, AnsweredOK
<1>11. \A m \in Calls : m # l => LookupOK(m)' BY <1>1, <1>8, <1>9, OtherLookups
<1>12. ClusterTypeOK'
  BY <1>1, <1>7, <1>8, <1>9 DEF ClusterInv, ClusterTypeOK
<1> QED BY <1>1, <1>10, <1>11, <1>12 DEF ClusterInv, ReadsSuffice

(* A newer document takes nothing back.                                    *)
LEMMA ChangeKeeps == ASSUME ClusterInv, NEW c \in Clusters, Change(c) PROVE ClusterInv'
<1>1. /\ document' = [document EXCEPT ![c] = document[c] + 1]
      /\ UNCHANGED <<entries, cluster, since, cpc, sent, hash, held, reads, refused, answer>>
  BY DEF Change
<1>2. document \in [Clusters -> Nat] BY DEF ClusterInv, ClusterTypeOK
<1>3. document' \in [Clusters -> Nat] /\ \A d \in Clusters : document[d] <= document'[d]
  BY <1>1, <1>2
<1>4. ClusterTypeOK'
  BY <1>1, <1>3 DEF ClusterInv, ClusterTypeOK
<1>5. ASSUME NEW l \in Calls PROVE LookupOK(l)'
  <2>1. /\ cluster[l] \in Clusters /\ since[l] \in Nat /\ document[cluster[l]] \in Nat
        /\ document'[cluster[l]] \in Nat /\ document[cluster[l]] <= document'[cluster[l]]
    BY <1>3, DocumentTyped
  <2>2. since[l]..document[cluster[l]] \subseteq since[l]..document'[cluster[l]]
    BY <2>1
  <2> QED BY <1>1, <2>1, <2>2 DEF ClusterInv, LookupOK, Current
<1> QED BY <1>1, <1>4, <1>5 DEF ClusterInv, ReadsSuffice

LEMMA ClusterStutter ==
  ASSUME ClusterInv,
         UNCHANGED <<document, entries, cluster, since, cpc, sent, hash, held, reads, refused, answer>>
  PROVE  ClusterInv'
BY DEF ClusterInv, ClusterTypeOK, LookupOK, Current, ReadsSuffice

LEMMA ClusterStep == ClusterInv /\ [ClusterNext]_clusterVars => ClusterInv'
<1> SUFFICES ASSUME ClusterInv, [ClusterNext]_clusterVars PROVE ClusterInv'
  OBVIOUS
<1>1. CASE \E c \in Clusters : Change(c) BY <1>1, ChangeKeeps
<1>2. ASSUME NEW l \in Calls,
             \/ PrepareLookup(l) \/ Resolve(l) \/ Send(l) \/ ReadLost(l) \/ Root(l) \/ NotListed(l)
             \/ Document(l) \/ Plain(l) \/ Version(l) \/ Finished(l)
      PROVE  ClusterInv'
  BY <1>2, PrepareKeeps, ResolveStepKeeps, SendKeeps, ReadLostKeeps, RootKeeps, NotListedKeeps,
     DocumentKeeps, VersionKeeps, FinishedKeeps
<1>3. ASSUME NEW l \in Calls, Deadline(l) PROVE ClusterInv'
  BY <1>3, ClusterStutter DEF Deadline, cacheVars
<1>4. CASE UNCHANGED clusterVars BY <1>4, ClusterStutter DEF clusterVars
<1> QED BY <1>1, <1>2, <1>3, <1>4 DEF ClusterNext

LEMMA ClusterInductive == ClusterSpec => []ClusterInv
BY ClusterStart, ClusterStep, PTL DEF ClusterSpec

(* A reference is of a document that the lookup's own cluster served while *)
(* it ran, under the hash it claims, however often documents change and    *)
(* whatever other lookups leave in kubeRefCache.                           *)
THEOREM AnswersAreCurrent == ClusterSpec => []AnswerWasCurrent
<1>1. ClusterInv => AnswerWasCurrent
  BY DEF ClusterInv, LookupOK, Current, AnswerWasCurrent
<1> QED BY <1>1, ClusterInductive, PTL

(* targetReadBudget covers the longest way through the recipe: no read of  *)
(* a lookup is refused for it.                                             *)
THEOREM BudgetSuffices == ClusterSpec => []ReadsSuffice
<1>1. ClusterInv => ReadsSuffice
  BY DEF ClusterInv
<1> QED BY <1>1, ClusterInductive, PTL

(* kubeRefCache has at most one entry of a key: the one that put replaces  *)
(* and get finds.                                                          *)
UniqueKeys == \A i, j \in DOMAIN entries : entries[i].key = entries[j].key => i = j

LEMMA PutUnique ==
  ASSUME ClusterTypeOK, UniqueKeys, NEW l \in Calls, NEW e \in Entries, entries' = put(l, e)
  PROVE  UniqueKeys'
<1> DEFINE same == {i \in DOMAIN entries : entries[i].key = e.key}
           others == IF same = {} THEN entries ELSE RemoveAt(entries, CHOOSE i \in same : TRUE)
<1>1. entries \in Seq(Entries) /\ Len(entries) \in Nat /\ DOMAIN entries = 1..Len(entries)
  BY DEF ClusterTypeOK
<1>2. /\ others \in Seq(Entries)
      /\ \A i \in 1..Len(others) : others[i].key # e.key
      /\ \A i, j \in 1..Len(others) : others[i].key = others[j].key => i = j
  <2>1. CASE same = {} BY <1>1, <2>1 DEF UniqueKeys
  <2>2. CASE same # {}
    <3>1. PICK k : k = CHOOSE i \in same : TRUE OBVIOUS
    <3>2. k \in 1..Len(entries) /\ entries[k].key = e.key BY <1>1, <2>2, <3>1
    <3>3. /\ others \in Seq(Entries) /\ Len(others) = Len(entries) - 1
          /\ \A j \in 1..(Len(entries) - 1) : others[j] = IF j < k THEN entries[j] ELSE entries[j + 1]
      BY <1>1, <2>2, <3>1, <3>2, RemoveAtProperties
    <3> HIDE DEF others
    <3> DEFINE from(j) == IF j < k THEN j ELSE j + 1
    <3>4. \A j \in 1..Len(others) : others[j] = entries[from(j)] /\ from(j) \in 1..Len(entries) /\ from(j) # k
      BY <1>1, <3>2, <3>3
    <3>5. \A i, j \in 1..Len(others) : from(i) = from(j) => i = j
      BY <1>1, <3>2, <3>3
    <3> HIDE DEF from
    <3>6. \A i \in 1..Len(others) : others[i].key # e.key
      <4> TAKE i \in 1..Len(others)
      <4>1. others[i] = entries[from(i)] /\ from(i) \in 1..Len(entries) /\ from(i) # k BY <3>4
      <4> QED BY <1>1, <3>2, <4>1 DEF UniqueKeys
    <3>7. \A i, j \in 1..Len(others) : others[i].key = others[j].key => i = j
      <4> TAKE i, j \in 1..Len(others)
      <4>1. others[i] = entries[from(i)] /\ from(i) \in 1..Len(entries) BY <3>4
      <4>2. others[j] = entries[from(j)] /\ from(j) \in 1..Len(entries) BY <3>4
      <4>3. others[i].key = others[j].key => from(i) = from(j) BY <1>1, <4>1, <4>2 DEF UniqueKeys
      <4> QED BY <3>5, <4>3
    <3> QED BY <3>3, <3>6, <3>7
  <2> QED BY <2>1, <2>2
<1>3. entries' = IF Len(others) < CacheEntries THEN Append(others, e) ELSE Append(Tail(others), e)
  BY DEF put
<1> HIDE DEF others
<1>4. PICK rest \in Seq(Entries) :
        /\ entries' = Append(rest, e)
        /\ \A i \in 1..Len(rest) : rest[i].key # e.key
        /\ \A i, j \in 1..Len(rest) : rest[i].key = rest[j].key => i = j
  <2>1. CASE Len(others) < CacheEntries BY <1>2, <1>3, <2>1
  <2>2. CASE ~(Len(others) < CacheEntries)
    <3>1. others # <<>> BY <1>2, <2>2, CacheEntriesAssumption
    <3>2. /\ Tail(others) \in Seq(Entries) /\ Len(Tail(others)) = Len(others) - 1
          /\ \A i \in 1..Len(Tail(others)) : Tail(others)[i] = others[i + 1]
      BY <1>2, <3>1, HeadTailProperties
    <3>3. Len(others) \in Nat BY <1>2
    <3>4. \A i \in 1..Len(Tail(others)) : i + 1 \in 1..Len(others) BY <3>2, <3>3
    <3>5. \A i \in 1..Len(Tail(others)) : Tail(others)[i].key # e.key BY <1>2, <3>2, <3>4
    <3>6. \A i, j \in 1..Len(Tail(others)) : Tail(others)[i].key = Tail(others)[j].key => i = j
      <4> TAKE i, j \in 1..Len(Tail(others))
      <4>1. i \in Int /\ j \in Int BY <3>2, <3>3
      <4>2. Tail(others)[i].key = Tail(others)[j].key => i + 1 = j + 1 BY <1>2, <3>2, <3>4
      <4> QED BY <4>1, <4>2
    <3> QED BY <1>3, <2>2, <3>2, <3>5, <3>6
  <2> QED BY <2>1, <2>2
<1>5. /\ DOMAIN entries' = 1..(Len(rest) + 1) /\ entries'[Len(rest) + 1] = e /\ Len(rest) \in Nat
      /\ \A i \in 1..Len(rest) : entries'[i] = rest[i]
  BY <1>4
<1>6. \A i \in DOMAIN entries' : i \in 1..Len(rest) \/ i = Len(rest) + 1
  BY <1>5
<1> QED BY <1>4, <1>5, <1>6 DEF UniqueKeys

(* Removing the namesake of an entry and removing all of that key, as the  *)
(* code's put does, are the same.                                          *)
THEOREM KeysAreUnique == ClusterSpec => []UniqueKeys
<1>1. ClusterInit => UniqueKeys
  BY DEF ClusterInit, UniqueKeys
<1>2. ClusterInv /\ UniqueKeys /\ [ClusterNext]_clusterVars => UniqueKeys'
  <2> SUFFICES ASSUME ClusterInv, UniqueKeys, [ClusterNext]_clusterVars PROVE UniqueKeys'
    OBVIOUS
  <2>1. CASE entries' = entries BY <2>1 DEF UniqueKeys
  <2>2. CASE entries' # entries
    <3>1. PICK l \in Calls : Finished(l)
      BY <2>2
      DEF ClusterNext, clusterVars, Change, PrepareLookup, Resolve, Send, ReadLost, Root, NotListed,
          Document, Plain, Version, Deadline, cacheVars
    <3>2. held[l] \in Held /\ Current(l, held[l]) /\ held[l].hash # NoHash
      BY <2>2, <3>1 DEF Finished, ClusterInv, LookupOK
    <3> DEFINE e == [key |-> kubeCacheKey(l, held[l].hash), doc |-> held[l].doc]
    <3>3. entries' = put(l, e) BY <2>2, <3>1 DEF Finished
    <3>4. e \in Entries BY <3>2, KeptIsEntry
    <3> HIDE DEF e
    <3> QED BY <3>3, <3>4, PutUnique DEF ClusterInv
  <2> QED BY <2>1, <2>2
<1> QED BY <1>1, <1>2, ClusterInductive, PTL DEF ClusterSpec
-----------------------------------------------------------------------------
(* The lookups over the Azure specs.  A reader that is not at work is      *)
(* idle, and only the readers of the files being read are at work.         *)
Finishing == {"fetched", "summarized"}
ReaderSteps ==
  {"idle", "waiting", "summary", "file", "download", "joined", "recheck", "fetching", "landed", "again",
   "charge", "back"} \cup Finishing
Writing == {r \in Readers : rpc[r] \in Finishing}

IsSeq(s) == s \in Seq(Range(s))

(* What the store knows of its disk.                                       *)
counts == <<cacheSize, lastScan>>
Counts == Int \X [stuck : Nat, unseen : Nat]

SpecTypeOK ==
  /\ DOMAIN at = Lookups /\ DOMAIN out = Lookups /\ DOMAIN files = Lookups
  /\ rpc \in [Readers -> ReaderSteps]
  /\ got \in [Readers -> {None, "ok", "canceled", "failed", "budget"}]
  /\ IsSeq(dir)
  /\ counts \in Counts

ReadersOK ==
  \A r \in Readers :
    rpc[r] # "idle" => at[r[1]] \in {"reading", "rendering"} /\ r[2] \in DOMAIN files[r[1]]

(* The end of a context reaches a reader of another lookup only on its way *)
(* to try again.                                                           *)
CanceledOK ==
  /\ \A r \in Readers : got[r] = "canceled" => r[1] \in ended \/ rpc[r] = "again"
  /\ \A l \in Lookups : out[l] # None /\ out[l].kind = "stopped" => l \in ended

SpecInv == SpecTypeOK /\ ReadersOK /\ CanceledOK /\ CacheCounted
-----------------------------------------------------------------------------
LEMMA ReaderParts ==
  ASSUME NEW r \in Readers
  PROVE  r[1] \in Lookups /\ r[2] \in 1..MaxFiles /\ r = <<r[1], r[2]>>
BY DEF Readers

LEMMA ReadersFinite == IsFiniteSet(Readers)
<1>1. IsFiniteSet(1..MaxFiles) BY FS_Interval, LookupsAssumption
<1> QED BY <1>1, FS_Product, LookupsAssumption DEF Readers

LEMMA WritingFinite == IsFiniteSet(Writing) /\ Cardinality(Writing) \in Nat
BY ReadersFinite, FS_Subset, FS_CardinalityType DEF Writing

LEMMA SeqIsSeq == ASSUME NEW S, NEW s \in Seq(S) PROVE IsSeq(s)
BY DEF IsSeq, Range

(* The files dir without a file, and with one written or used.             *)
LEMMA WithoutLength ==
  ASSUME IsSeq(dir), NEW b, NEW w
  PROVE  /\ IsSeq(without(b, w)) /\ Len(without(b, w)) \in Nat
         /\ Len(without(b, w)) = IF places(b, w) = {} THEN Len(dir) ELSE Len(dir) - 1
<1>1. dir \in Seq(Range(dir)) BY DEF IsSeq
<1>2. CASE places(b, w) = {} BY <1>1, <1>2 DEF without, IsSeq
<1>3. CASE places(b, w) # {}
  <2>1. PICK i : i = CHOOSE j \in places(b, w) : TRUE OBVIOUS
  <2>2. i \in 1..Len(dir) BY <1>1, <1>3, <2>1 DEF places
  <2>3. RemoveAt(dir, i) \in Seq(Range(dir)) /\ Len(RemoveAt(dir, i)) = Len(dir) - 1
    BY <1>1, <2>2, RemoveAtProperties
  <2>4. without(b, w) = RemoveAt(dir, i) BY <1>3, <2>1 DEF without
  <2>5. Len(without(b, w)) \in Nat BY <2>3, <2>4
  <2> QED BY <1>3, <2>3, <2>4, <2>5, SeqIsSeq
<1> QED BY <1>2, <1>3

LEMMA PlacedLength ==
  ASSUME IsSeq(dir), NEW b, NEW w
  PROVE  /\ IsSeq(placed(b, w)) /\ Len(placed(b, w)) \in Nat /\ Len(dir) \in Nat
         /\ Len(placed(b, w)) <= Len(dir) + 1
         /\ good(b, w) => Len(placed(b, w)) = Len(dir)
<1> DEFINE s == without(b, w)
           f == [blob |-> b, what |-> w, good |-> TRUE]
<1>1. /\ s \in Seq(Range(s)) /\ Len(s) \in Nat
      /\ Len(s) = IF places(b, w) = {} THEN Len(dir) ELSE Len(dir) - 1
  BY WithoutLength DEF IsSeq
<1>2. good(b, w) => places(b, w) # {}
  BY DEF good, places
<1>3. dir \in Seq(Range(dir)) /\ Len(dir) \in Nat BY DEF IsSeq
<1>4. placed(b, w) = Append(s, f) BY DEF placed
<1> HIDE DEF s, f
<1>5. s \in Seq(Range(s) \cup {f}) BY <1>1
<1>6. Append(s, f) \in Seq(Range(s) \cup {f}) /\ Len(Append(s, f)) = Len(s) + 1 BY <1>5
<1>7. IsSeq(placed(b, w)) BY <1>4, <1>6, SeqIsSeq
<1> QED BY <1>1, <1>2, <1>3, <1>4, <1>6, <1>7

(* What the store believes, with n writes under way.                       *)
CountedBy(n) ==
  cacheSize >= 0 => /\ cacheSize <= MaxCache \/ cacheSize = lastScan.stuck
                    /\ Len(dir) <= cacheSize + lastScan.unseen + n

LEMMA CountsParts ==
  ASSUME counts \in Counts
  PROVE  cacheSize \in Int /\ lastScan.stuck \in Nat /\ lastScan.unseen \in Nat
BY DEF counts, Counts

LEMMA CountsBy == CacheCounted <=> CountedBy(Cardinality(Writing))
BY DEF CacheCounted, CountedBy, Writing, Finishing

(* Some of the files, in their order, are as many files.                   *)
LEMMA OnlyLength ==
  ASSUME IsSeq(dir), NEW left, left \subseteq DOMAIN dir
  PROVE  /\ IsFiniteSet(left) /\ Cardinality(left) \in Nat
         /\ IsSeq(only(left)) /\ Len(only(left)) = Cardinality(left)
<1> DEFINE n == Cardinality(left)
           s == only(left)
<1>1. IsFiniteSet(left)
  <2>1. DOMAIN dir = 1..Len(dir) /\ Len(dir) \in Nat BY DEF IsSeq
  <2>2. IsFiniteSet(1..Len(dir)) BY <2>1, FS_Interval
  <2> QED BY <2>1, <2>2, FS_Subset
<1>2. n \in Nat BY <1>1, FS_CardinalityType
<1>3. DOMAIN s = 1..n BY DEF only
<1>4. s = [i \in 1..n |-> s[i]] BY <1>3 DEF only
<1> HIDE DEF n, s
<1>5. \A i \in 1..n : s[i] \in Range(s) BY <1>3 DEF Range
<1>6. s \in Seq(Range(s)) /\ Len(s) = n BY <1>2, <1>4, <1>5
<1>7. IsSeq(s) BY <1>6 DEF IsSeq
<1> QED BY <1>1, <1>2, <1>6, <1>7 DEF n, s

(* What a scan leaves fits, but for what it could not remove, and is       *)
(* counted, but for what it could not list.                                *)
LEMMA EvictCounts ==
  ASSUME IsSeq(dir), Evict
  PROVE  /\ IsSeq(dir') /\ counts' \in Counts
         /\ cacheSize' <= MaxCache \/ cacheSize' = lastScan'.stuck
         /\ Len(dir') \in Nat /\ Len(dir') <= cacheSize' + lastScan'.unseen
<1>1. PICK unseen \in SUBSET DOMAIN dir, last \in 0..Len(dir), stuck \in SUBSET DOMAIN dir :
        LET listed == DOMAIN dir \ unseen
            tried == {i \in listed : i <= last}
            removed == tried \ stuck
            counted == listed \ removed
        IN /\ stuck \subseteq tried
           /\ tried = listed \/ Cardinality(counted) <= MaxCache
           /\ cacheSize' = Cardinality(counted)
           /\ dir' = only(DOMAIN dir \ removed)
           /\ lastScan' = [stuck |-> Cardinality(stuck), unseen |-> Cardinality(unseen)]
  BY DEF Evict
<1> DEFINE listed == DOMAIN dir \ unseen
           tried == {i \in listed : i <= last}
           removed == tried \ stuck
           counted == listed \ removed
           left == DOMAIN dir \ removed
<1>0. stuck \subseteq tried BY <1>1
<1>2. tried = listed => counted = stuck BY <1>0
<1>3. left \subseteq DOMAIN dir /\ counted \subseteq DOMAIN dir /\ stuck \subseteq DOMAIN dir
      /\ left = counted \cup unseen /\ counted \cap unseen = {}
  BY <1>0
<1>4. /\ tried = listed \/ Cardinality(counted) <= MaxCache
      /\ cacheSize' = Cardinality(counted) /\ dir' = only(left)
      /\ lastScan' = [stuck |-> Cardinality(stuck), unseen |-> Cardinality(unseen)]
  BY <1>1
<1> HIDE DEF listed, tried, removed, counted, left
<1>5. /\ IsFiniteSet(counted) /\ Cardinality(counted) \in Nat
      /\ IsFiniteSet(unseen) /\ Cardinality(unseen) \in Nat
      /\ Cardinality(stuck) \in Nat
  BY <1>3, OnlyLength
<1>6. IsSeq(dir') /\ Len(dir') = Cardinality(left) /\ Cardinality(left) \in Nat
  <2>1. IsSeq(only(left)) /\ Len(only(left)) = Cardinality(left) /\ Cardinality(left) \in Nat
    BY <1>3, OnlyLength
  <2> QED BY <1>4, <2>1 DEF IsSeq
<1>7. Cardinality(left) = Cardinality(counted) + Cardinality(unseen)
  <2>1. Cardinality(left) = Cardinality(counted) + Cardinality(unseen) - Cardinality(counted \cap unseen)
    BY <1>3, <1>5, FS_Union
  <2>2. Cardinality(counted \cap unseen) = 0
    BY <1>3, FS_EmptySet
  <2> QED BY <1>5, <2>1, <2>2
<1>8. cacheSize' \in Int /\ lastScan' \in [stuck : Nat, unseen : Nat]
  BY <1>4, <1>5
<1>9. cacheSize' <= MaxCache \/ cacheSize' = lastScan'.stuck
  BY <1>2, <1>4
<1>10. Len(dir') <= cacheSize' + lastScan'.unseen
  BY <1>4, <1>5, <1>6, <1>7
<1> QED BY <1>6, <1>8, <1>9, <1>10 DEF counts, Counts
-----------------------------------------------------------------------------
(* One reader moves on.                                                    *)
LEMMA Moved ==
  ASSUME SpecTypeOK, ReadersOK, NEW r \in Readers, NEW to \in ReaderSteps, to # "idle", rpc[r] # "idle",
         RGoto(r, to), UNCHANGED <<at, files>>
  PROVE  /\ rpc' \in [Readers -> ReaderSteps] /\ ReadersOK'
         /\ rpc'[r] = to /\ \A q \in Readers : q # r => rpc'[q] = rpc[q]
<1>1. rpc' = [rpc EXCEPT ![r] = to] /\ rpc \in [Readers -> ReaderSteps] BY DEF RGoto, SpecTypeOK
<1>2. rpc' \in [Readers -> ReaderSteps] BY <1>1
<1>3. rpc'[r] = to /\ \A q \in Readers : q # r => rpc'[q] = rpc[q] BY <1>1
<1>4. ReadersOK' BY <1>3 DEF ReadersOK
<1> QED BY <1>2, <1>3, <1>4

(* The leader's flight lands.                                              *)
LEMMA Landed ==
  ASSUME SpecTypeOK, ReadersOK, NEW r \in Readers, rpc[r] \in {"recheck", "fetching", "fetched"},
         NEW result \in {"ok", "failed", "canceled"}, NEW next,
         result = "ok" => next = "charge",
         Land(r, result, next), UNCHANGED <<at, files>>
  PROVE  /\ rpc' \in [Readers -> ReaderSteps] /\ ReadersOK'
         /\ got' \in [Readers -> {None, "ok", "canceled", "failed", "budget"}]
         /\ rpc'[r] \in {"charge", "back"}
         /\ \A q \in Readers : q # r =>
              \/ rpc'[q] = rpc[q] /\ got'[q] = got[q]
              \/ rpc[q] = "joined" /\ got'[q] = result
                 /\ rpc'[q] = IF abandoned(r, result) THEN "again" ELSE "landed"
         /\ IF result = "ok" THEN got'[r] = got[r] ELSE got'[r] = result
<1> DEFINE joiners == {j \in Readers : rpc[j] = "joined" /\ fileOf(j).blob = fileOf(r).blob}
<1>1. /\ rpc' = [j \in Readers |->
                 IF j = r THEN (IF result = "ok" THEN next ELSE "back")
                 ELSE IF j \in joiners THEN (IF abandoned(r, result) THEN "again" ELSE "landed") ELSE rpc[j]]
      /\ got' = [j \in Readers |->
                 IF j = r /\ result # "ok" THEN result ELSE IF j \in joiners THEN result ELSE got[j]]
  BY DEF Land
<1>2. \A j \in joiners : rpc[j] = "joined" OBVIOUS
<1>3. r \notin joiners OBVIOUS
<1> HIDE DEF joiners
<1>4. rpc \in [Readers -> ReaderSteps] /\ got \in [Readers -> {None, "ok", "canceled", "failed", "budget"}]
  BY DEF SpecTypeOK
<1>5. rpc' \in [Readers -> ReaderSteps] BY <1>1, <1>4 DEF ReaderSteps
<1>6. got' \in [Readers -> {None, "ok", "canceled", "failed", "budget"}] BY <1>1, <1>4
<1>7. rpc'[r] \in {"charge", "back"} BY <1>1
<1>8. \A q \in Readers : q # r =>
              \/ rpc'[q] = rpc[q] /\ got'[q] = got[q]
              \/ rpc[q] = "joined" /\ got'[q] = result
                 /\ rpc'[q] = IF abandoned(r, result) THEN "again" ELSE "landed"
  BY <1>1, <1>2
<1>9. IF result = "ok" THEN got'[r] = got[r] ELSE got'[r] = result BY <1>1, <1>3
<1>10. \A q \in Readers : rpc'[q] # "idle" => rpc[q] # "idle" BY <1>7, <1>8
<1>11. ReadersOK' BY <1>10 DEF ReadersOK
<1> QED BY <1>5, <1>6, <1>7, <1>8, <1>9, <1>11

(* Nothing is written, nothing is counted.                                 *)
LEMMA CountKept ==
  ASSUME CacheCounted, IsSeq(dir), IsSeq(dir'), Len(dir') <= Len(dir), counts \in Counts,
         Writing' = Writing, UNCHANGED counts
  PROVE  CacheCounted'
<1> DEFINE n == Cardinality(Writing)
<1>1. CountedBy(n) /\ n \in Nat BY CountsBy, WritingFinite
<1>2. Len(dir) \in Nat /\ Len(dir') \in Nat BY DEF IsSeq
<1>3. cacheSize' = cacheSize /\ lastScan' = lastScan BY DEF counts
<1> HIDE DEF n
<1>4. cacheSize' >= 0 => /\ cacheSize' <= MaxCache \/ cacheSize' = lastScan'.stuck
                         /\ Len(dir') <= cacheSize' + lastScan'.unseen + n
  BY <1>1, <1>2, <1>3, CountsParts DEF CountedBy
<1> QED BY <1>4 DEF CacheCounted, Writing, Finishing, n

(* A file is written that is still to be counted.                          *)
LEMMA CountStarted ==
  ASSUME CacheCounted, IsSeq(dir), IsSeq(dir'), Len(dir') <= Len(dir) + 1, counts \in Counts,
         NEW r \in Readers, r \notin Writing, Writing' = Writing \cup {r}, UNCHANGED counts
  PROVE  CacheCounted'
<1> DEFINE n == Cardinality(Writing)
<1>1. CountedBy(n) /\ n \in Nat BY CountsBy, WritingFinite
<1>2. Len(dir) \in Nat /\ Len(dir') \in Nat BY DEF IsSeq
<1>3. cacheSize' = cacheSize /\ lastScan' = lastScan BY DEF counts
<1>4. Cardinality(Writing') = n + 1 BY WritingFinite, FS_AddElement
<1> HIDE DEF n
<1>5. cacheSize' >= 0 => /\ cacheSize' <= MaxCache \/ cacheSize' = lastScan'.stuck
                         /\ Len(dir') <= cacheSize' + lastScan'.unseen + (n + 1)
  BY <1>1, <1>2, <1>3, CountsParts DEF CountedBy
<1> QED BY <1>4, <1>5 DEF CacheCounted, Writing, Finishing

(* A write is counted, or the dir scanned.                                 *)
LEMMA CountNoted ==
  ASSUME CacheCounted, IsSeq(dir), counts \in Counts, Noted(1),
         NEW r \in Writing, Writing' = Writing \ {r}
  PROVE  CacheCounted' /\ IsSeq(dir') /\ counts' \in Counts
<1> DEFINE n == Cardinality(Writing)
           m == Cardinality(Writing')
<1>1. CountedBy(n) BY CountsBy
<1>2. n \in Nat /\ m = n - 1 /\ m \in Nat
  <2>1. IsFiniteSet(Writing') /\ Cardinality(Writing') = Cardinality(Writing) - 1 BY WritingFinite, FS_RemoveElement
  <2> QED BY <2>1, WritingFinite, FS_CardinalityType
<1>3. CacheCounted' <=>
        (cacheSize' >= 0 => /\ cacheSize' <= MaxCache \/ cacheSize' = lastScan'.stuck
                            /\ Len(dir') <= cacheSize' + lastScan'.unseen + m)
  BY DEF CacheCounted, Writing, Finishing
<1> HIDE DEF n, m
<1>4. CASE cacheSize >= 0 /\ cacheSize + 1 <= MaxCache /\ cacheSize' = cacheSize + 1 /\ UNCHANGED <<lastScan, dir>>
  <2>1. Len(dir) \in Nat BY DEF IsSeq
  <2>2. cacheSize' <= MaxCache /\ Len(dir') <= cacheSize' + lastScan'.unseen + m
    BY <1>1, <1>2, <1>4, <2>1, CountsParts DEF CountedBy
  <2>3. IsSeq(dir') BY <1>4 DEF IsSeq
  <2>4. counts' \in Counts BY <1>4 DEF counts, Counts
  <2> QED BY <1>3, <2>2, <2>3, <2>4
<1>5. CASE Evict
  <2>1. /\ IsSeq(dir') /\ counts' \in Counts
        /\ cacheSize' <= MaxCache \/ cacheSize' = lastScan'.stuck
        /\ Len(dir') \in Nat /\ Len(dir') <= cacheSize' + lastScan'.unseen
    BY <1>5, EvictCounts
  <2>2. cacheSize' \in Int /\ lastScan'.unseen \in Nat BY <2>1 DEF counts, Counts
  <2>3. Len(dir') <= cacheSize' + lastScan'.unseen + m BY <1>2, <2>1, <2>2
  <2> QED BY <1>3, <2>1, <2>3
<1> QED BY <1>4, <1>5 DEF Noted
-----------------------------------------------------------------------------
(* What of the invariant a step of one reader can disturb.                 *)
LEMMA ReaderStep ==
  ASSUME SpecInv, UNCHANGED <<at, out, files, ended>>,
         rpc' \in [Readers -> ReaderSteps], ReadersOK',
         got' \in [Readers -> {None, "ok", "canceled", "failed", "budget"}],
         \A q \in Readers : got'[q] = "canceled" => q[1] \in ended \/ rpc'[q] = "again",
         IsSeq(dir'), counts' \in Counts, CacheCounted'
  PROVE  SpecInv'
<1>1. SpecTypeOK' BY DEF SpecInv, SpecTypeOK
<1>2. CanceledOK' BY DEF SpecInv, CanceledOK
<1> QED BY <1>1, <1>2 DEF SpecInv

(* A step of one reader that leaves the disk no fuller and counts nothing. *)
LEMMA ReaderQuiet ==
  ASSUME SpecInv, NEW r \in Readers, NEW to \in ReaderSteps,
         to # "idle", to \notin Finishing, rpc[r] # "idle", rpc[r] \notin Finishing,
         RGoto(r, to), UNCHANGED <<at, out, files, ended, counts>>,
         NEW g \in {None, "ok", "canceled", "failed", "budget"},
         got' = [got EXCEPT ![r] = g],
         g = "canceled" => r[1] \in ended,
         IsSeq(dir'), Len(dir') <= Len(dir)
  PROVE  SpecInv'
<1>1. /\ rpc' \in [Readers -> ReaderSteps] /\ ReadersOK'
      /\ rpc'[r] = to /\ \A q \in Readers : q # r => rpc'[q] = rpc[q]
  BY Moved DEF SpecInv
<1>2. got \in [Readers -> {None, "ok", "canceled", "failed", "budget"}] BY DEF SpecInv, SpecTypeOK
<1>3. got' \in [Readers -> {None, "ok", "canceled", "failed", "budget"}] BY <1>2
<1>4. \A q \in Readers : got'[q] = "canceled" => q[1] \in ended \/ rpc'[q] = "again"
  <2>1. got'[r] = g /\ \A q \in Readers : q # r => got'[q] = got[q] BY <1>2
  <2> QED BY <1>1, <2>1 DEF SpecInv, CanceledOK
<1>5. Writing' = Writing BY <1>1 DEF Writing
<1>6. CacheCounted' BY <1>5, CountKept DEF SpecInv, SpecTypeOK
<1>7. counts' \in Counts BY DEF SpecInv, SpecTypeOK
<1> QED BY <1>1, <1>3, <1>4, <1>6, <1>7, ReaderStep

LEMMA GotSame ==
  ASSUME SpecInv, NEW r \in Readers, UNCHANGED got
  PROVE  /\ got[r] \in {None, "ok", "canceled", "failed", "budget"}
         /\ got' = [got EXCEPT ![r] = got[r]]
BY DEF SpecInv, SpecTypeOK

LEMMA DirSame ==
  ASSUME SpecInv, UNCHANGED dir
  PROVE  IsSeq(dir) /\ IsSeq(dir') /\ Len(dir') <= Len(dir)
<1>1. IsSeq(dir) /\ Len(dir) \in Nat BY DEF SpecInv, SpecTypeOK, IsSeq
<1>2. IsSeq(dir') BY <1>1 DEF IsSeq
<1> QED BY <1>1, <1>2

LEMMA ScheduleKeeps == ASSUME SpecInv, NEW r \in Readers, Schedule(r) PROVE SpecInv'
<1>1. PICK to \in {"file", "summary"} : RGoto(r, to) BY DEF Schedule
<1>2. rpc[r] = "waiting" BY DEF Schedule
<1>3. UNCHANGED <<at, out, files, ended, counts, dir, got>> BY DEF counts, Schedule, storeVars, searchVars
<1>4. to \in ReaderSteps /\ to # "idle" /\ to \notin Finishing BY DEF ReaderSteps, Finishing
<1>5. got[r] = "canceled" => r[1] \in ended BY <1>2 DEF SpecInv, CanceledOK
<1>6. rpc[r] # "idle" /\ rpc[r] \notin Finishing /\ rpc[r] # "again" BY <1>2 DEF Finishing
<1> QED BY <1>1, <1>3, <1>4, <1>5, <1>6, GotSame, DirSame, ReaderQuiet

LEMMA SummaryKeeps == ASSUME SpecInv, NEW r \in Readers, Summary(r) PROVE SpecInv'
<1>1. rpc[r] = "summary" BY DEF Summary
<1>2. UNCHANGED <<at, out, files, ended, counts>> BY DEF counts, Summary, searchVars
<1>3. rpc[r] # "idle" /\ rpc[r] \notin Finishing /\ rpc[r] # "again" BY <1>1 DEF Finishing
<1>4. {"back", "file"} \subseteq ReaderSteps \ ({"idle"} \cup Finishing) BY DEF ReaderSteps, Finishing
<1>5. CASE ~live(r) /\ Back(r, "canceled") /\ UNCHANGED dir
  <2>1. RGoto(r, "back") /\ got' = [got EXCEPT ![r] = "canceled"] /\ r[1] \in ended BY <1>5 DEF Back, live
  <2> QED BY <1>2, <1>3, <1>4, <1>5, <2>1, DirSame, ReaderQuiet
<1>6. CASE live(r) /\ good(fileOf(r).blob, "summary") /\ Back(r, "ok") /\ dir' = placed(fileOf(r).blob, "summary")
  <2>1. RGoto(r, "back") /\ got' = [got EXCEPT ![r] = "ok"] BY <1>6 DEF Back
  <2>2. IsSeq(dir) BY DEF SpecInv, SpecTypeOK
  <2>3. IsSeq(placed(fileOf(r).blob, "summary")) /\ Len(placed(fileOf(r).blob, "summary")) <= Len(dir)
    BY <1>6, <2>2, PlacedLength
  <2>4. IsSeq(dir') /\ Len(dir') <= Len(dir) BY <1>6, <2>3 DEF IsSeq
  <2> QED BY <1>2, <1>3, <1>4, <2>1, <2>4, ReaderQuiet
<1>7. CASE live(r) /\ ~good(fileOf(r).blob, "summary") /\ RGoto(r, "file") /\ UNCHANGED <<dir, got>>
  <2>1. got[r] = "canceled" => r[1] \in ended BY <1>1 DEF SpecInv, CanceledOK
  <2> QED BY <1>2, <1>3, <1>4, <1>7, <2>1, GotSame, DirSame, ReaderQuiet
<1> QED BY <1>5, <1>6, <1>7 DEF Summary

(* What FromDisk leaves of the files dir.                                  *)
LEMMA FromDiskKeeps ==
  ASSUME SpecInv, NEW r \in Readers, FromDisk(r)
  PROVE  IsSeq(dir') /\ Len(dir') <= Len(dir)
<1>1. IsSeq(dir) BY DEF SpecInv, SpecTypeOK
<1>2. CASE readCached(fileOf(r).blob)
  <2>1. dir' = placed(fileOf(r).blob, "body") /\ good(fileOf(r).blob, "body")
    BY <1>2 DEF FromDisk, readCached
  <2>2. /\ IsSeq(placed(fileOf(r).blob, "body")) /\ Len(placed(fileOf(r).blob, "body")) <= Len(dir)
    BY <1>1, <2>1, PlacedLength
  <2> QED BY <2>1, <2>2 DEF IsSeq
<1>3. CASE ~readCached(fileOf(r).blob)
  <2>1. dir' \in {dir, without(fileOf(r).blob, "body")} BY <1>3 DEF FromDisk
  <2>2. Len(dir) \in Nat BY <1>1 DEF IsSeq
  <2>3. /\ IsSeq(without(fileOf(r).blob, "body")) /\ Len(without(fileOf(r).blob, "body")) <= Len(dir)
    BY <1>1, <2>2, WithoutLength
  <2> QED BY <1>1, <2>1, <2>2, <2>3 DEF IsSeq
<1> QED BY <1>2, <1>3

LEMMA FileKeeps == ASSUME SpecInv, NEW r \in Readers, File(r) PROVE SpecInv'
<1>1. rpc[r] = "file" BY DEF File
<1>2. UNCHANGED <<at, out, files, ended, counts>> BY DEF counts, File, searchVars
<1>3. rpc[r] # "idle" /\ rpc[r] \notin Finishing /\ rpc[r] # "again" BY <1>1 DEF Finishing
<1>4. {"back", "charge", "download"} \subseteq ReaderSteps \ ({"idle"} \cup Finishing)
  BY DEF ReaderSteps, Finishing
<1>5. CASE ~live(r) /\ Back(r, "canceled") /\ UNCHANGED dir
  <2>1. RGoto(r, "back") /\ got' = [got EXCEPT ![r] = "canceled"] /\ r[1] \in ended BY <1>5 DEF Back, live
  <2> QED BY <1>2, <1>3, <1>4, <1>5, <2>1, DirSame, ReaderQuiet
<1>6. CASE /\ live(r) /\ FromDisk(r) /\ UNCHANGED got
           /\ RGoto(r, IF readCached(fileOf(r).blob) THEN "charge" ELSE "download")
  <2>1. PICK to \in {"charge", "download"} : RGoto(r, to) BY <1>6
  <2>2. IsSeq(dir') /\ Len(dir') <= Len(dir) BY <1>6, FromDiskKeeps
  <2>3. got[r] = "canceled" => r[1] \in ended BY <1>1 DEF SpecInv, CanceledOK
  <2> QED BY <1>2, <1>3, <1>4, <1>6, <2>1, <2>2, <2>3, GotSame, ReaderQuiet
<1> QED BY <1>5, <1>6 DEF File

LEMMA DownloadKeeps == ASSUME SpecInv, NEW r \in Readers, Download(r) PROVE SpecInv'
<1>1. rpc[r] = "download" BY DEF Download
<1>2. UNCHANGED <<at, out, files, ended, counts, dir, got>> BY DEF counts, Download, searchVars
<1>3. rpc[r] # "idle" /\ rpc[r] \notin Finishing /\ rpc[r] # "again" BY <1>1 DEF Finishing
<1>4. {"recheck", "joined"} \subseteq ReaderSteps \ ({"idle"} \cup Finishing) BY DEF ReaderSteps, Finishing
<1>5. PICK to \in {"recheck", "joined"} : RGoto(r, to) BY DEF Download
<1>6. got[r] = "canceled" => r[1] \in ended BY <1>1 DEF SpecInv, CanceledOK
<1> QED BY <1>2, <1>3, <1>4, <1>5, <1>6, GotSame, DirSame, ReaderQuiet

(* A landing passes on the end of a context only to the readers of that    *)
(* lookup, and to those who try again.                                     *)
LEMMA LandedCanceled ==
  ASSUME SpecInv, NEW r \in Readers, rpc[r] \in {"recheck", "fetching", "fetched"},
         NEW result \in {"ok", "failed", "canceled"}, NEW next,
         result = "ok" => next = "charge", result = "canceled" => ~live(r),
         Land(r, result, next), UNCHANGED <<at, files>>
  PROVE  \A q \in Readers : got'[q] = "canceled" => q[1] \in ended \/ rpc'[q] = "again"
<1>1. /\ \A q \in Readers : q # r =>
              \/ rpc'[q] = rpc[q] /\ got'[q] = got[q]
              \/ rpc[q] = "joined" /\ got'[q] = result
                 /\ rpc'[q] = IF abandoned(r, result) THEN "again" ELSE "landed"
      /\ IF result = "ok" THEN got'[r] = got[r] ELSE got'[r] = result
  BY Landed DEF SpecInv
<1>2. \A q \in Readers : got[q] = "canceled" => q[1] \in ended \/ rpc[q] = "again" BY DEF SpecInv, CanceledOK
<1>3. result = "canceled" => abandoned(r, result) /\ r[1] \in ended BY DEF abandoned, live
<1>4. got'[r] = "canceled" => r[1] \in ended BY <1>1, <1>2, <1>3
<1> QED BY <1>1, <1>2, <1>3, <1>4

(* A landing by a reader that was not writing.                             *)
LEMMA LandedQuiet ==
  ASSUME SpecInv, NEW r \in Readers, rpc[r] \in {"recheck", "fetching"},
         NEW result \in {"ok", "failed", "canceled"}, NEW next,
         result = "ok" => next = "charge", result = "canceled" => ~live(r),
         Land(r, result, next), UNCHANGED <<at, out, files, ended, counts>>,
         IsSeq(dir'), Len(dir') <= Len(dir)
  PROVE  SpecInv'
<1>1. /\ rpc' \in [Readers -> ReaderSteps] /\ ReadersOK'
      /\ got' \in [Readers -> {None, "ok", "canceled", "failed", "budget"}]
      /\ rpc'[r] \in {"charge", "back"}
      /\ \A q \in Readers : q # r =>
           rpc'[q] = rpc[q] \/ (rpc[q] = "joined" /\ rpc'[q] \in {"again", "landed"})
  BY Landed DEF SpecInv
<1>2. \A q \in Readers : got'[q] = "canceled" => q[1] \in ended \/ rpc'[q] = "again" BY LandedCanceled
<1>3. Writing' = Writing BY <1>1 DEF Writing, Finishing
<1>4. CacheCounted' BY <1>3, CountKept DEF SpecInv, SpecTypeOK
<1>5. counts' \in Counts BY DEF SpecInv, SpecTypeOK
<1> QED BY <1>1, <1>2, <1>4, <1>5, ReaderStep

LEMMA RecheckKeeps == ASSUME SpecInv, NEW r \in Readers, Recheck(r) PROVE SpecInv'
<1>1. rpc[r] = "recheck" /\ FromDisk(r) BY DEF Recheck
<1>2. UNCHANGED <<at, out, files, ended, counts>> BY DEF counts, Recheck, searchVars
<1>3. IsSeq(dir') /\ Len(dir') <= Len(dir) BY <1>1, FromDiskKeeps
<1>4. CASE Land(r, "ok", "charge") BY <1>1, <1>2, <1>3, <1>4, LandedQuiet
<1>5. CASE RGoto(r, "fetching") /\ UNCHANGED got
  <2>1. got[r] = "canceled" => r[1] \in ended BY <1>1 DEF SpecInv, CanceledOK
  <2>2. rpc[r] # "idle" /\ rpc[r] \notin Finishing BY <1>1 DEF Finishing
  <2>3. "fetching" \in ReaderSteps /\ "fetching" \notin Finishing BY DEF ReaderSteps, Finishing
  <2> QED BY <1>2, <1>3, <1>5, <2>1, <2>2, <2>3, GotSame, ReaderQuiet
<1> QED BY <1>4, <1>5 DEF Recheck

(* A reader writes a file: it is under way until it is noted.              *)
LEMMA Written ==
  ASSUME SpecInv, NEW r \in Readers, rpc[r] \in {"fetching", "charge"}, NEW to \in Finishing,
         NEW b, NEW w, dir' = placed(b, w), RGoto(r, to), UNCHANGED <<at, out, files, ended, counts, got>>
  PROVE  SpecInv'
<1>1. to \in ReaderSteps /\ to # "idle" /\ rpc[r] # "idle" BY DEF ReaderSteps, Finishing
<1>2. /\ rpc' \in [Readers -> ReaderSteps] /\ ReadersOK'
      /\ rpc'[r] = to /\ \A q \in Readers : q # r => rpc'[q] = rpc[q]
  BY <1>1, Moved DEF SpecInv
<1>3. got' \in [Readers -> {None, "ok", "canceled", "failed", "budget"}] BY DEF SpecInv, SpecTypeOK
<1>4. \A q \in Readers : got'[q] = "canceled" => q[1] \in ended \/ rpc'[q] = "again"
  BY <1>2 DEF SpecInv, CanceledOK
<1>5. IsSeq(dir) /\ counts \in Counts BY DEF SpecInv, SpecTypeOK
<1>6. IsSeq(placed(b, w)) /\ Len(placed(b, w)) <= Len(dir) + 1 BY <1>5, PlacedLength
<1>7. IsSeq(dir') /\ Len(dir') <= Len(dir) + 1 BY <1>6 DEF IsSeq
<1>8. r \notin Writing /\ Writing' = Writing \cup {r} BY <1>2 DEF Writing, Finishing
<1>9. CacheCounted' BY <1>5, <1>7, <1>8, CountStarted DEF SpecInv
<1> QED BY <1>2, <1>3, <1>4, <1>5, <1>7, <1>9, ReaderStep

LEMMA FetchedKeeps == ASSUME SpecInv, NEW r \in Readers, Fetched(r) PROVE SpecInv'
<1>1. rpc[r] = "fetching" BY DEF Fetched
<1>2. UNCHANGED <<at, out, files, ended, counts>> BY DEF counts, Fetched, searchVars
<1>3. CASE Land(r, IF live(r) THEN "failed" ELSE "canceled", "") /\ UNCHANGED dir
  <2>1. PICK result \in {"failed", "canceled"} : Land(r, result, "") /\ (result = "canceled" => ~live(r))
    BY <1>3
  <2> QED BY <1>1, <1>2, <1>3, <2>1, DirSame, LandedQuiet
<1>4. CASE Land(r, "ok", "charge") /\ UNCHANGED dir BY <1>1, <1>2, <1>4, DirSame, LandedQuiet
<1>5. CASE dir' = placed(fileOf(r).blob, "body") /\ RGoto(r, "fetched") /\ UNCHANGED <<flights, got>>
  <2>1. "fetched" \in Finishing BY DEF Finishing
  <2> QED BY <1>1, <1>2, <1>5, <2>1, Written
<1> QED BY <1>3, <1>4, <1>5 DEF Fetched

LEMMA NoteBodyKeeps == ASSUME SpecInv, NEW r \in Readers, NoteBody(r) PROVE SpecInv'
<1>1. rpc[r] = "fetched" /\ Noted(1) /\ Land(r, "ok", "charge") BY DEF NoteBody
<1>2. UNCHANGED <<at, out, files, ended>> BY DEF NoteBody, searchVars
<1>3. /\ rpc' \in [Readers -> ReaderSteps] /\ ReadersOK'
      /\ got' \in [Readers -> {None, "ok", "canceled", "failed", "budget"}]
      /\ rpc'[r] \in {"charge", "back"}
      /\ \A q \in Readers : q # r =>
           rpc'[q] = rpc[q] \/ (rpc[q] = "joined" /\ rpc'[q] \in {"again", "landed"})
  BY <1>1, <1>2, Landed DEF SpecInv
<1>4. \A q \in Readers : got'[q] = "canceled" => q[1] \in ended \/ rpc'[q] = "again"
  BY <1>1, <1>2, LandedCanceled
<1>5. r \in Writing /\ Writing' = Writing \ {r} BY <1>1, <1>3 DEF Writing, Finishing
<1>6. CacheCounted' /\ IsSeq(dir') /\ counts' \in Counts BY <1>1, <1>5, CountNoted DEF SpecInv, SpecTypeOK
<1> QED BY <1>2, <1>3, <1>4, <1>6, ReaderStep

LEMMA JoinedKeeps == ASSUME SpecInv, NEW r \in Readers, Joined(r) PROVE SpecInv'
<1>1. rpc[r] \in {"joined", "landed", "again"} BY DEF Joined
<1>2. UNCHANGED <<at, out, files, ended, counts, dir>> BY DEF counts, Joined, storeVars, searchVars
<1>3. rpc[r] # "idle" /\ rpc[r] \notin Finishing BY <1>1 DEF Finishing
<1>4. {"back", "download", "charge"} \subseteq ReaderSteps \ ({"idle"} \cup Finishing)
  BY DEF ReaderSteps, Finishing
<1>5. CASE ~live(r) /\ Back(r, "canceled")
  <2>1. RGoto(r, "back") /\ got' = [got EXCEPT ![r] = "canceled"] /\ r[1] \in ended BY <1>5 DEF Back, live
  <2> QED BY <1>2, <1>3, <1>4, <2>1, DirSame, ReaderQuiet
<1>6. ASSUME NEW to \in {"download", "charge"}, RGoto(r, to), got' = [got EXCEPT ![r] = None] PROVE SpecInv'
  BY <1>2, <1>3, <1>4, <1>6, NoneAssumption, DirSame, ReaderQuiet
<1>7. CASE (rpc[r] = "again" => ~live(r)) /\ RGoto(r, "back") /\ UNCHANGED got
  <2>1. got[r] = "canceled" => r[1] \in ended BY <1>7 DEF SpecInv, CanceledOK, live
  <2> QED BY <1>2, <1>3, <1>4, <1>7, <2>1, GotSame, DirSame, ReaderQuiet
<1> QED BY <1>5, <1>6, <1>7 DEF Joined

LEMMA ParseKeeps == ASSUME SpecInv, NEW r \in Readers, Parse(r) PROVE SpecInv'
<1>1. rpc[r] = "charge" BY DEF Parse
<1>2. UNCHANGED <<at, out, files, ended, counts>> BY DEF counts, Parse
<1>3. rpc[r] # "idle" /\ rpc[r] \notin Finishing BY <1>1 DEF Finishing
<1>4. "back" \in ReaderSteps /\ "back" \notin Finishing /\ "summarized" \in Finishing
  BY DEF ReaderSteps, Finishing
<1>5. ASSUME NEW g \in {"budget", "failed", "ok"}, Back(r, g), UNCHANGED dir PROVE SpecInv'
  <2>1. RGoto(r, "back") /\ got' = [got EXCEPT ![r] = g] BY <1>5 DEF Back
  <2> QED BY <1>2, <1>3, <1>4, <1>5, <2>1, DirSame, ReaderQuiet
<1>6. CASE dir' = placed(fileOf(r).blob, "summary") /\ RGoto(r, "summarized") /\ UNCHANGED got
  BY <1>1, <1>2, <1>4, <1>6, Written
<1> QED BY <1>5, <1>6 DEF Parse

LEMMA NoteSummaryKeeps == ASSUME SpecInv, NEW r \in Readers, NoteSummary(r) PROVE SpecInv'
<1>1. rpc[r] = "summarized" /\ Noted(1) /\ RGoto(r, "back") /\ got' = [got EXCEPT ![r] = "ok"]
  BY DEF NoteSummary, Back
<1>2. UNCHANGED <<at, out, files, ended>> BY DEF NoteSummary, searchVars
<1>3. "back" \in ReaderSteps BY DEF ReaderSteps
<1>4. /\ rpc' \in [Readers -> ReaderSteps] /\ ReadersOK'
      /\ rpc'[r] = "back" /\ \A q \in Readers : q # r => rpc'[q] = rpc[q]
  BY <1>1, <1>2, <1>3, Moved DEF SpecInv
<1>5. got \in [Readers -> {None, "ok", "canceled", "failed", "budget"}] BY DEF SpecInv, SpecTypeOK
<1>6. got' \in [Readers -> {None, "ok", "canceled", "failed", "budget"}] BY <1>1, <1>5
<1>7. \A q \in Readers : got'[q] = "canceled" => q[1] \in ended \/ rpc'[q] = "again"
  <2>1. got'[r] = "ok" /\ \A q \in Readers : q # r => got'[q] = got[q] BY <1>1, <1>5
  <2> QED BY <1>4, <2>1 DEF SpecInv, CanceledOK
<1>8. r \in Writing /\ Writing' = Writing \ {r} BY <1>1, <1>4 DEF Writing, Finishing
<1>9. CacheCounted' /\ IsSeq(dir') /\ counts' \in Counts BY <1>1, <1>8, CountNoted DEF SpecInv, SpecTypeOK
<1> QED BY <1>2, <1>4, <1>6, <1>7, <1>9, ReaderStep
-----------------------------------------------------------------------------
Reads == {"reading", "rendering"}

(* No lookup that is live is told that it was stopped.                     *)
NotStopped(o) == o.kind # "stopped"
OutKept == \A l \in Lookups : out'[l] = out[l] \/ l \in ended \/ NotStopped(out'[l])

(* What of the invariant a step of a lookup can disturb: the store is as   *)
(* it was, and no reader starts or ends a write.                           *)
LEMMA LookupStep ==
  ASSUME SpecInv, UNCHANGED <<dir, counts>>, ended \subseteq ended',
         DOMAIN at' = Lookups, DOMAIN out' = Lookups, DOMAIN files' = Lookups,
         rpc' \in [Readers -> ReaderSteps],
         got' \in [Readers -> {None, "ok", "canceled", "failed", "budget"}],
         ReadersOK', Writing' = Writing,
         \A r \in Readers : got'[r] = "canceled" => got[r] = "canceled" /\ rpc'[r] = rpc[r],
         OutKept
  PROVE  SpecInv'
<1>1. IsSeq(dir') /\ IsSeq(dir) /\ Len(dir') <= Len(dir) BY DirSame
<1>2. counts \in Counts /\ counts' \in Counts BY DEF SpecInv, SpecTypeOK
<1>3. CacheCounted' BY <1>1, <1>2, CountKept DEF SpecInv
<1>4. CanceledOK' BY DEF SpecInv, CanceledOK, OutKept, NotStopped
<1>5. SpecTypeOK' BY <1>1, <1>2 DEF SpecTypeOK
<1> QED BY <1>3, <1>4, <1>5 DEF SpecInv

(* A step of a lookup that leaves the readers alone: it may not leave one  *)
(* behind.                                                                 *)
LEMMA LookupQuiet ==
  ASSUME SpecInv, UNCHANGED <<dir, counts, files, rpc, got>>, ended \subseteq ended',
         DOMAIN at' = Lookups, DOMAIN out' = Lookups,
         \A l \in Lookups : at[l] \in Reads => at'[l] = at[l],
         OutKept
  PROVE  SpecInv'
<1>1. ReadersOK'
  <2> SUFFICES ASSUME NEW r \in Readers, rpc'[r] # "idle"
               PROVE  at'[r[1]] \in Reads /\ r[2] \in DOMAIN files'[r[1]]
    BY DEF ReadersOK, Reads
  <2>1. at[r[1]] \in Reads /\ r[2] \in DOMAIN files[r[1]] BY DEF SpecInv, ReadersOK, Reads
  <2> QED BY <2>1, ReaderParts
<1>2. /\ DOMAIN files' = Lookups /\ rpc' \in [Readers -> ReaderSteps]
      /\ got' \in [Readers -> {None, "ok", "canceled", "failed", "budget"}]
  BY DEF SpecInv, SpecTypeOK
<1>3. Writing' = Writing BY DEF Writing
<1> QED BY <1>1, <1>2, <1>3, LookupStep

(* One lookup moves on, or finishes.                                       *)
LEMMA Went ==
  ASSUME SpecInv, NEW l \in Lookups, NEW to, at' = [at EXCEPT ![l] = to], UNCHANGED out
  PROVE  /\ DOMAIN at' = Lookups /\ DOMAIN out' = Lookups
         /\ \A k \in Lookups : k # l => at'[k] = at[k]
         /\ at'[l] = to /\ OutKept
BY DEF SpecInv, SpecTypeOK, OutKept

LEMMA Ended ==
  ASSUME SpecInv, NEW l \in Lookups, NEW STATE o, l \in ended \/ NotStopped(o), Finish(l, o)
  PROVE  /\ DOMAIN at' = Lookups /\ DOMAIN out' = Lookups
         /\ \A k \in Lookups : k # l => at'[k] = at[k]
         /\ OutKept
<1>1. DOMAIN at = Lookups /\ DOMAIN out = Lookups BY DEF SpecInv, SpecTypeOK
<1>2. at' = [at EXCEPT ![l] = "done"] BY DEF Finish
<1>3. out' = [out EXCEPT ![l] = IF l \in ended THEN [kind |-> "stopped"] ELSE o] BY DEF Finish
<1>4. l \notin ended => out'[l] = o BY <1>1, <1>3
<1>5. \A k \in Lookups : k # l => out'[k] = out[k] BY <1>1, <1>3
<1>6. DOMAIN at' = Lookups /\ \A k \in Lookups : k # l => at'[k] = at[k] BY <1>1, <1>2
<1>7. DOMAIN out' = Lookups BY <1>1, <1>3
<1>8. OutKept BY <1>4, <1>5 DEF OutKept
<1> QED BY <1>6, <1>7, <1>8

LEMMA EndKeeps == ASSUME SpecInv, NEW l \in Lookups, End(l) PROVE SpecInv'
<1>1. UNCHANGED <<dir, counts, files, rpc, got, at, out>> /\ ended \subseteq ended'
  BY DEF counts, End, storeVars
<1>2. DOMAIN at' = Lookups /\ DOMAIN out' = Lookups /\ OutKept BY <1>1 DEF SpecInv, SpecTypeOK, OutKept
<1> QED BY <1>1, <1>2, LookupQuiet

LEMMA IndexKeeps == ASSUME SpecInv, NEW l \in Lookups, Index(l) PROVE SpecInv'
<1>1. UNCHANGED <<dir, counts, files, rpc, got, ended>> /\ at[l] \notin Reads
  BY DEF counts, Index, Reads
<1>2. ASSUME NEW to, at' = [at EXCEPT ![l] = to], UNCHANGED out PROVE SpecInv'
  BY <1>1, <1>2, Went, LookupQuiet
<1>3. CASE l \in ended /\ Finish(l, None) BY <1>1, <1>3, Ended, LookupQuiet
<1> QED BY <1>2, <1>3 DEF Index

LEMMA LoadedKeeps == ASSUME SpecInv, Loaded PROVE SpecInv'
<1>1. UNCHANGED <<dir, counts, files, rpc, got, ended>> BY DEF counts, Loaded
<1>2. DOMAIN out = Lookups BY DEF SpecInv, SpecTypeOK
<1>3. DOMAIN at' = Lookups /\ \A l \in Lookups : at[l] \in Reads => at'[l] = at[l] BY DEF Loaded, Reads
<1>4. /\ DOMAIN out' = Lookups
      /\ OutKept
  <2>1. CASE UNCHANGED out BY <1>2, <2>1 DEF OutKept
  <2>2. CASE out' = [l \in Lookups |-> IF at[l] # "loading" THEN out[l]
                                     ELSE IF l \in ended THEN [kind |-> "stopped"] ELSE [kind |-> "noIndex"]]
    BY <2>2 DEF OutKept, NotStopped
  <2> QED BY <2>1, <2>2 DEF Loaded
<1> QED BY <1>1, <1>3, <1>4, LookupQuiet

LEMMA LeaveLoadKeeps == ASSUME SpecInv, NEW l \in Lookups, LeaveLoad(l) PROVE SpecInv'
<1>1. UNCHANGED <<dir, counts, files, rpc, got, ended>> /\ at[l] \notin Reads
  BY DEF counts, LeaveLoad, Reads, storeVars
<1>2. l \in ended /\ Finish(l, None) BY DEF LeaveLoad
<1> QED BY <1>1, <1>2, Ended, LookupQuiet

LEMMA PlanKeeps == ASSUME SpecInv, NEW l \in Lookups, Plan(l) PROVE SpecInv'
<1>1. UNCHANGED <<dir, counts, files, rpc, got, ended>> /\ at[l] \notin Reads
  BY DEF counts, Plan, Reads, storeVars
<1>2. CASE Finish(l, [kind |-> "notFound"])
  <2>1. NotStopped([kind |-> "notFound"]) BY DEF NotStopped
  <2> QED BY <1>1, <1>2, <2>1, Ended, LookupQuiet
<1>3. CASE at' = [at EXCEPT ![l] = "scan"] /\ UNCHANGED out BY <1>1, <1>3, Went, LookupQuiet
<1> QED BY <1>2, <1>3 DEF Plan

LEMMA NextPassKeeps == ASSUME SpecInv, NEW l \in Lookups, NextPass(l) PROVE SpecInv'
<1>1. UNCHANGED <<dir, counts, files, rpc, got, ended>> /\ at[l] = "scan" /\ at[l] \notin Reads
  BY DEF counts, NextPass, Reads, storeVars
<1>2. CASE Finish(l, [kind |-> "notFound"])
  <2>1. NotStopped([kind |-> "notFound"]) BY DEF NotStopped
  <2> QED BY <1>1, <1>2, <2>1, Ended, LookupQuiet
<1>3. CASE at' = [at EXCEPT ![l] = "conclude"] /\ UNCHANGED out BY <1>1, <1>3, Went, LookupQuiet
<1>4. CASE UNCHANGED <<at, out>>
  <2>1. DOMAIN at' = Lookups /\ DOMAIN out' = Lookups /\ OutKept BY <1>4 DEF SpecInv, SpecTypeOK, OutKept
  <2> QED BY <1>1, <1>4, <2>1, LookupQuiet
<1> QED BY <1>2, <1>3, <1>4 DEF NextPass

(* A lookup without readers starts some.                                   *)
LEMMA Started ==
  ASSUME SpecInv, NEW l \in Lookups, at[l] \notin Reads, NEW fs, NEW to \in Reads,
         at' = [at EXCEPT ![l] = to], startReaders(l, fs, "waiting"),
         UNCHANGED <<dir, counts, ended, out>>
  PROVE  SpecInv'
<1>1. /\ DOMAIN at' = Lookups /\ DOMAIN out' = Lookups /\ OutKept
      /\ \A k \in Lookups : k # l => at'[k] = at[k]
      /\ at'[l] = to
  BY Went
<1>2. DOMAIN files' = Lookups /\ files'[l] = fs /\ \A k \in Lookups : k # l => files'[k] = files[k]
  BY DEF startReaders, SpecInv, SpecTypeOK
<1>3. \A r \in Readers : r[1] = l => rpc[r] = "idle" BY DEF SpecInv, ReadersOK, Reads
<1>4. rpc \in [Readers -> ReaderSteps] /\ got \in [Readers -> {None, "ok", "canceled", "failed", "budget"}]
  BY DEF SpecInv, SpecTypeOK
<1>5. /\ rpc' = [r \in Readers |-> IF r[1] = l /\ r[2] \in DOMAIN fs THEN "waiting" ELSE rpc[r]]
      /\ got' = [r \in Readers |-> IF r[1] = l THEN None ELSE got[r]]
  BY DEF startReaders
<1>6. rpc' \in [Readers -> ReaderSteps] BY <1>4, <1>5 DEF ReaderSteps
<1>7. got' \in [Readers -> {None, "ok", "canceled", "failed", "budget"}] BY <1>4, <1>5
<1>8. ReadersOK'
  <2> SUFFICES ASSUME NEW r \in Readers, rpc'[r] # "idle"
               PROVE  at'[r[1]] \in Reads /\ r[2] \in DOMAIN files'[r[1]]
    BY DEF ReadersOK, Reads
  <2>1. CASE r[1] = l
    <3>1. r[2] \in DOMAIN fs BY <1>3, <1>5, <2>1
    <3> QED BY <1>1, <1>2, <2>1, <3>1
  <2>2. CASE r[1] # l
    <3>1. rpc[r] # "idle" BY <1>5, <2>2
    <3>2. at[r[1]] \in Reads /\ r[2] \in DOMAIN files[r[1]] BY <3>1 DEF SpecInv, ReadersOK, Reads
    <3> QED BY <1>1, <1>2, <2>2, <3>2, ReaderParts
  <2> QED BY <2>1, <2>2
<1>9. Writing' = Writing BY <1>3, <1>5 DEF Writing, Finishing
<1>10. \A r \in Readers : got'[r] = "canceled" => got[r] = "canceled" /\ rpc'[r] = rpc[r]
  BY <1>5, NoneAssumption
<1> QED BY <1>1, <1>2, <1>6, <1>7, <1>8, <1>9, <1>10, LookupStep

(* A lookup whose readers are back leaves them.                            *)
LEMMA Stopped ==
  ASSUME SpecInv, NEW l \in Lookups, allBack(l), stopReaders(l),
         UNCHANGED <<dir, counts, ended>>,
         DOMAIN at' = Lookups, DOMAIN out' = Lookups, OutKept,
         \A k \in Lookups : k # l => at'[k] = at[k]
  PROVE  SpecInv'
<1>1. DOMAIN files' = Lookups /\ \A k \in Lookups : k # l => files'[k] = files[k]
  BY DEF stopReaders, SpecInv, SpecTypeOK
<1>2. \A r \in Readers : r[1] = l => rpc[r] \in {"idle", "back", "waiting"}
  <2> TAKE r \in Readers
  <2> HAVE r[1] = l
  <2>1. r = <<l, r[2]>> BY ReaderParts
  <2>2. CASE rpc[r] # "idle"
    <3>1. r[2] \in DOMAIN files[l] BY <2>2 DEF SpecInv, ReadersOK
    <3> QED BY <2>1, <3>1 DEF allBack
  <2> QED BY <2>2
<1>3. rpc \in [Readers -> ReaderSteps] /\ got \in [Readers -> {None, "ok", "canceled", "failed", "budget"}]
  BY DEF SpecInv, SpecTypeOK
<1>4. /\ rpc' = [r \in Readers |-> IF r[1] = l THEN "idle" ELSE rpc[r]]
      /\ got' = [r \in Readers |-> IF r[1] = l THEN None ELSE got[r]]
  BY DEF stopReaders
<1>5. rpc' \in [Readers -> ReaderSteps] BY <1>3, <1>4 DEF ReaderSteps
<1>6. got' \in [Readers -> {None, "ok", "canceled", "failed", "budget"}] BY <1>3, <1>4
<1>7. ReadersOK'
  <2> SUFFICES ASSUME NEW r \in Readers, rpc'[r] # "idle"
               PROVE  at'[r[1]] \in Reads /\ r[2] \in DOMAIN files'[r[1]]
    BY DEF ReadersOK, Reads
  <2>1. r[1] # l /\ rpc[r] # "idle" BY <1>4
  <2>2. at[r[1]] \in Reads /\ r[2] \in DOMAIN files[r[1]] BY <2>1 DEF SpecInv, ReadersOK, Reads
  <2> QED BY <1>1, <2>1, <2>2, ReaderParts
<1>8. Writing' = Writing BY <1>2, <1>4 DEF Writing, Finishing
<1>9. \A r \in Readers : got'[r] = "canceled" => got[r] = "canceled" /\ rpc'[r] = rpc[r]
  BY <1>4, NoneAssumption
<1> QED BY <1>1, <1>5, <1>6, <1>7, <1>8, <1>9, LookupStep

LEMMA ScanDirKeeps == ASSUME SpecInv, NEW l \in Lookups, ScanDir(l) PROVE SpecInv'
<1>1. UNCHANGED <<dir, counts, ended>> /\ at[l] \notin Reads BY DEF counts, ScanDir, Reads, storeVars
<1>2. CASE l \in ended /\ Finish(l, None) /\ UNCHANGED <<files, rpc, got>>
  BY <1>1, <1>2, Ended, LookupQuiet
<1>3. CASE /\ at' = [at EXCEPT ![l] = "reading"]
           /\ startReaders(l, filesOf(index, Namespace, nextDir(todo[l])), "waiting")
           /\ UNCHANGED out
  <2>1. "reading" \in Reads BY DEF Reads
  <2> QED BY <1>1, <1>3, <2>1, Started
<1> QED BY <1>2, <1>3 DEF ScanDir

LEMMA ConcludeKeeps == ASSUME SpecInv, NEW l \in Lookups, Conclude(l) PROVE SpecInv'
<1>1. UNCHANGED <<dir, counts, ended>> /\ at[l] \notin Reads BY DEF counts, Conclude, Reads, storeVars
<1>2. CASE Finish(l, [kind |-> "ambiguous"]) /\ UNCHANGED <<files, rpc, got>>
  <2>1. NotStopped([kind |-> "ambiguous"]) BY DEF NotStopped
  <2> QED BY <1>1, <1>2, <2>1, Ended, LookupQuiet
<1>3. CASE /\ at' = [at EXCEPT ![l] = "rendering"] /\ UNCHANGED out
           /\ startReaders(l, SetToSeq({m.file : m \in found[l]}), "waiting")
  <2>1. "rendering" \in Reads BY DEF Reads
  <2> QED BY <1>1, <1>3, <2>1, Started
<1> QED BY <1>2, <1>3 DEF Conclude

LEMMA ScannedKeeps == ASSUME SpecInv, NEW l \in Lookups, Scanned(l) PROVE SpecInv'
<1>1. UNCHANGED <<dir, counts, ended>> /\ allBack(l) /\ stopReaders(l) BY DEF counts, Scanned, storeVars
<1>2. CASE Finish(l, [kind |-> "failed", why |-> firstError(l)])
  <2>1. NotStopped([kind |-> "failed", why |-> firstError(l)]) BY DEF NotStopped
  <2> QED BY <1>1, <1>2, <2>1, Ended, Stopped
<1>3. CASE at' = [at EXCEPT ![l] = "scan"] /\ UNCHANGED out BY <1>1, <1>3, Went, Stopped
<1> QED BY <1>2, <1>3 DEF Scanned

LEMMA RenderedKeeps == ASSUME SpecInv, NEW l \in Lookups, Rendered(l) PROVE SpecInv'
<1>1. UNCHANGED <<dir, counts, ended>> /\ allBack(l) /\ stopReaders(l) BY DEF counts, Rendered, storeVars
<1>2. ASSUME NEW o, NotStopped(o), Finish(l, o) PROVE SpecInv'
  BY <1>1, <1>2, Ended, Stopped
<1>3. \A f : /\ NotStopped([kind |-> "failed", why |-> f]) /\ NotStopped([kind |-> "ambiguous"])
             /\ NotStopped([kind |-> "found", file |-> f])
  BY DEF NotStopped
<1> QED BY <1>2, <1>3 DEF Rendered
-----------------------------------------------------------------------------
LEMMA SpecStart == SpecInit => SpecInv
<1> SUFFICES ASSUME SpecInit PROVE SpecInv OBVIOUS
<1>1. SpecTypeOK
  <2>1. IsSeq(dir) BY ReposAssumption DEF SpecInit, IsSeq
  <2> QED BY <2>1 DEF SpecInit, SpecTypeOK, ReaderSteps, counts, Counts
<1>2. ReadersOK BY DEF SpecInit, ReadersOK
<1>3. CanceledOK BY NoneAssumption DEF SpecInit, CanceledOK
<1>4. CacheCounted
  <2>1. cacheSize = -1 BY DEF SpecInit
  <2> QED BY <2>1 DEF CacheCounted
<1> QED BY <1>1, <1>2, <1>3, <1>4 DEF SpecInv

LEMMA SpecStep == SpecInv /\ [SpecNext]_specVars => SpecInv'
<1> SUFFICES ASSUME SpecInv, [SpecNext]_specVars PROVE SpecInv' OBVIOUS
<1>1. CASE UNCHANGED specVars
  BY <1>1 DEF specVars, storeVars, searchVars, SpecInv, SpecTypeOK, ReadersOK, CanceledOK, CacheCounted, IsSeq, counts
<1>2. CASE Loaded BY <1>2, LoadedKeeps
<1>3. ASSUME NEW l \in Lookups,
             \/ End(l) \/ Index(l) \/ LeaveLoad(l) \/ Plan(l) \/ ScanDir(l) \/ NextPass(l)
             \/ Scanned(l) \/ Conclude(l) \/ Rendered(l)
      PROVE  SpecInv'
  BY <1>3, EndKeeps, IndexKeeps, LeaveLoadKeeps, PlanKeeps, ScanDirKeeps, NextPassKeeps, ScannedKeeps,
     ConcludeKeeps, RenderedKeeps
<1>4. ASSUME NEW r \in Readers,
             \/ Schedule(r) \/ Summary(r) \/ File(r) \/ Download(r) \/ Recheck(r) \/ Fetched(r)
             \/ NoteBody(r) \/ Joined(r) \/ Parse(r) \/ NoteSummary(r)
      PROVE  SpecInv'
  BY <1>4, ScheduleKeeps, SummaryKeeps, FileKeeps, DownloadKeeps, RecheckKeeps, FetchedKeeps,
     NoteBodyKeeps, JoinedKeeps, ParseKeeps, NoteSummaryKeeps
<1> QED BY <1>1, <1>2, <1>3, <1>4 DEF SpecNext

LEMMA SpecInductive == SpecSpec => []SpecInv
BY SpecStart, SpecStep, PTL DEF SpecSpec

(* download shares one fetch among the lookups that want the same blob,    *)
(* under the context of the one that started it; a lookup that is live     *)
(* neither fails a file nor answers because that context ended.            *)
THEOREM OwnContextOnly == SpecSpec => []LiveNotCanceled
<1>1. SpecInv => LiveNotCanceled
  <2> SUFFICES ASSUME SpecInv, NEW l \in Lookups, l \notin ended
               PROVE  /\ \A i \in 1..MaxFiles : rpc[<<l, i>>] = "back" => got[<<l, i>>] # "canceled"
                      /\ out[l] # None => out[l].kind # "stopped"
    BY DEF LiveNotCanceled
  <2>1. \A i \in 1..MaxFiles : <<l, i>> \in Readers /\ <<l, i>>[1] = l BY DEF Readers
  <2>2. \A i \in 1..MaxFiles : rpc[<<l, i>>] = "back" => got[<<l, i>>] # "canceled"
    <3> TAKE i \in 1..MaxFiles
    <3>1. PICK r \in Readers : r = <<l, i>> /\ r[1] = l BY <2>1
    <3>2. rpc[r] = "back" => got[r] # "canceled" BY <3>1 DEF SpecInv, CanceledOK
    <3> QED BY <3>1, <3>2
  <2>3. out[l] # None => out[l].kind # "stopped" BY DEF SpecInv, CanceledOK
  <2> QED BY <2>2, <2>3
<1> QED BY <1>1, SpecInductive, PTL

(* noteWrite and evict keep the count of the files dir honest however the  *)
(* writes of concurrent lookups interleave and whatever a scan fails to    *)
(* list or remove: the count passes the cap only by files that would not   *)
(* be removed, and the dir the count only by the writes under way and by   *)
(* files that could not be listed.                                         *)
THEOREM CacheBounded == SpecSpec => []CacheCounted
<1>1. SpecInv => CacheCounted BY DEF SpecInv
<1> QED BY <1>1, SpecInductive, PTL
-----------------------------------------------------------------------------
(* What the search finds.  Dirs are ordered by a rank: the newest name     *)
(* first, then stable before preview.                                      *)
Built == BuildIndex(repo.sha, walkTrees(repo.tree))
Rank(d) == 2 * age(d.dir) + kindRank(d.kind)
Placed(d) == d.dir \in Range(Versions)

(* A dir that the index lists has an age, and the name of its age.         *)
LEMMA AgeParts ==
  \A v \in Range(Versions) : age(v) \in Nat /\ Versions[Len(Versions) + 1 - age(v)] = v
<1> TAKE v \in Range(Versions)
<1>1. Len(Versions) \in Nat /\ DOMAIN Versions = 1..Len(Versions) BY VersionsAssumption
<1>2. PICK j \in DOMAIN Versions : Versions[j] = v BY DEF Range
<1>3. Len(Versions) + 1 - j \in DOMAIN Versions /\ Len(Versions) + 1 - (Len(Versions) + 1 - j) = j BY <1>1
<1>4. \E i \in DOMAIN Versions : Versions[Len(Versions) + 1 - i] = v BY <1>2, <1>3
<1>5. age(v) \in DOMAIN Versions /\ Versions[Len(Versions) + 1 - age(v)] = v BY <1>4 DEF age
<1> QED BY <1>1, <1>5

LEMMA RankParts ==
  \A d : Placed(d) => Rank(d) \in Nat /\ age(d.dir) \in Nat /\ kindRank(d.kind) \in {0, 1}
<1> TAKE d
<1> HAVE Placed(d)
<1>1. age(d.dir) \in Nat BY AgeParts DEF Placed
<1>2. kindRank(d.kind) \in {0, 1} BY DEF kindRank
<1> QED BY <1>1, <1>2 DEF Rank

LEMMA NewerByRank ==
  \A a, b : Placed(a) /\ Placed(b) =>
    /\ newerDir(a, b) <=> Rank(a) < Rank(b)
    /\ Rank(a) = Rank(b) => a.dir = b.dir /\ kindRank(a.kind) = kindRank(b.kind)
<1> TAKE a, b
<1> HAVE Placed(a) /\ Placed(b)
<1> DEFINE x == age(a.dir) y == age(b.dir) m == kindRank(a.kind) n == kindRank(b.kind)
<1>1. x \in Nat /\ y \in Nat /\ m \in {0, 1} /\ n \in {0, 1} BY RankParts
<1>2. x = y => a.dir = b.dir BY AgeParts DEF Placed
<1>3. a.dir = b.dir => x = y OBVIOUS
<1>4. Rank(a) = 2 * x + m /\ Rank(b) = 2 * y + n BY DEF Rank
<1>5. newerDir(a, b) <=> (x < y \/ (a.dir = b.dir /\ m < n)) BY DEF newerDir
<1> HIDE DEF x, y, m, n
<1>6. newerDir(a, b) <=> (x < y \/ (x = y /\ m < n)) BY <1>2, <1>3, <1>5
<1>7. (x < y \/ (x = y /\ m < n)) <=> 2 * x + m < 2 * y + n BY <1>1
<1>8. 2 * x + m = 2 * y + n => x = y /\ m = n BY <1>1
<1>9. newerDir(a, b) <=> Rank(a) < Rank(b) BY <1>4, <1>6, <1>7
<1>10. Rank(a) = Rank(b) => a.dir = b.dir /\ m = n BY <1>2, <1>4, <1>8
<1> QED BY <1>9, <1>10 DEF m, n

(* Among dirs there is one that none is newer than. *)
LEMMA NewestDir ==
  ASSUME NEW ds, ds # {}, \A d \in ds : Placed(d)
  PROVE  \E d \in ds : \A o \in ds : ~newerDir(o, d)
<1> DEFINE ranks == {Rank(d) : d \in ds}
<1>1. ranks \subseteq Nat /\ ranks # {} BY RankParts
<1>2. PICK n \in ranks : \A m \in ranks : ~(<<m, n>> \in OpToRel(<, Nat))
  BY <1>1, WFMin, NatLessThanWellFounded
<1>3. \A m \in ranks : ~(m < n) BY <1>1, <1>2 DEF OpToRel
<1>4. PICK d \in ds : n = Rank(d) BY <1>2
<1>5. \A o \in ds : ~(Rank(o) < Rank(d)) BY <1>3, <1>4
<1> QED BY <1>5, NewerByRank

(* The index lists a file only of a dir with a name and a kind it knows.   *)
LEMMA OpFileParts ==
  \A f \in OpFiles : /\ f.at.kind \in {"stable", "preview"} /\ f.at.dir \in Range(Versions)
                     /\ f \in Built.files /\ Placed(dirOf(f))
<1> TAKE f \in OpFiles
<1>1. f \in Built.files BY DEF OpFiles, filesIn, Built
<1>2. PICK e : /\ parseOpPath(e.path) # NotAnOperationFile
               /\ f = [at |-> parseOpPath(e.path), path |-> e.path, blob |-> e.blob]
  BY <1>1 DEF Built, BuildIndex
<1>3. f.at = parseOpPath(e.path) /\ parseOpPath(e.path) # NotAnOperationFile BY <1>2
<1> DEFINE p == e.path
           n == Len(e.path)
           where == [namespace |-> p[4], group |-> IF n = 8 THEN <<p[2], p[5]>> ELSE <<p[2]>>,
                     kind |-> p[n - 2], dir |-> p[n - 1], file |-> p[n]]
<1>4. /\ parseOpPath(e.path) = where
      /\ p[n - 2] \in {"stable", "preview"} /\ p[n - 1] \in Range(Versions)
  BY <1>3, Zenon DEF parseOpPath
<1>5. where.kind = p[n - 2] /\ where.dir = p[n - 1] OBVIOUS
<1>6. f.at.kind = p[n - 2] /\ f.at.dir = p[n - 1] BY <1>3, <1>4, <1>5, Zenon
<1>7. dirOf(f).dir = f.at.dir BY DEF dirOf
<1> QED BY <1>1, <1>4, <1>6, <1>7, Zenon DEF Placed

LEMMA DirParts ==
  \A f : dirOf(f).group = f.at.group /\ dirOf(f).kind = f.at.kind /\ dirOf(f).dir = f.at.dir
BY DEF dirOf

(* Two dirs of a group are the same or one is newer.                       *)
LEMMA NewerFiles ==
  \A f, o \in OpFiles :
    /\ ~Newer(f, f)
    /\ Newer(o, f) \/ Newer(f, o) \/ (o.at.group = f.at.group => dirOf(o) = dirOf(f))
    /\ dirOf(o) = dirOf(f) => ~Newer(o, f)
<1> TAKE f, o \in OpFiles
<1>1. /\ Placed(dirOf(f)) /\ Placed(dirOf(o))
      /\ f.at.kind \in {"stable", "preview"} /\ o.at.kind \in {"stable", "preview"}
  BY OpFileParts
<1>2. /\ Newer(o, f) <=> Rank(dirOf(o)) < Rank(dirOf(f))
      /\ Newer(f, o) <=> Rank(dirOf(f)) < Rank(dirOf(o))
      /\ Newer(f, f) <=> Rank(dirOf(f)) < Rank(dirOf(f))
  BY <1>1, NewerByRank DEF Newer
<1>3. Rank(dirOf(o)) \in Nat /\ Rank(dirOf(f)) \in Nat BY <1>1, RankParts
<1>4. Rank(dirOf(o)) = Rank(dirOf(f)) =>
        dirOf(o).dir = dirOf(f).dir /\ kindRank(dirOf(o).kind) = kindRank(dirOf(f).kind)
  BY <1>1, NewerByRank
<1>5. kindRank(dirOf(o).kind) = kindRank(dirOf(f).kind) => o.at.kind = f.at.kind
  BY <1>1, DirParts DEF kindRank
<1>6. Rank(dirOf(o)) = Rank(dirOf(f)) /\ o.at.group = f.at.group => dirOf(o) = dirOf(f)
  BY <1>4, <1>5, DirParts DEF dirOf
<1>7. dirOf(o) = dirOf(f) => Rank(dirOf(o)) = Rank(dirOf(f)) OBVIOUS
<1> QED BY <1>2, <1>3, <1>6, <1>7

(* Among files there is one of a dir that none is newer than. *)
LEMMA NewestFile ==
  ASSUME NEW F, F # {}, F \subseteq OpFiles
  PROVE  \E f \in F : \A o \in F : ~Newer(o, f)
<1> DEFINE ds == {dirOf(f) : f \in F}
<1>1. ds # {} /\ \A d \in ds : Placed(d) BY OpFileParts
<1>2. PICK d \in ds : \A o \in ds : ~newerDir(o, d) BY <1>1, NewestDir
<1>3. PICK f \in F : d = dirOf(f) BY <1>2
<1> QED BY <1>2, <1>3 DEF Newer

(* SetToSeq leaves nothing out.                                            *)
LEMMA SetToSeqAll ==
  ASSUME NEW S, IsFiniteSet(S)
  PROVE  /\ Range(SetToSeq(S)) = S
         /\ SetToSeq(S) \in Seq(S)
<1> DEFINE n == Cardinality(S)
           s == SetToSeq(S)
<1>1. n \in Nat /\ ExistsBijection(1..n, S) BY FS_CardinalityType
<1>2. \E f \in [1..n -> S] : IsInjective(f)
  BY <1>1 DEF ExistsBijection, Bijection, Injection
<1>3. s \in [1..n -> S] /\ IsInjective(s) BY <1>2 DEF SetToSeq
<1>4. s \in Injection(1..n, S) BY <1>3 DEF Injection
<1>5. Cardinality(1..n) = n BY <1>1, FS_Interval
<1> HIDE DEF s
<1>6. s \in Surjection(1..n, S) BY <1>4, <1>5, FS_Injection
<1>7. Range(s) = S BY <1>3, <1>6 DEF Surjection, Range
<1>8. s \in Seq(S) BY <1>1, <1>3
<1> QED BY <1>7, <1>8 DEF s

LEMMA OpFilesFinite == ASSUME repo \in Repos PROVE IsFiniteSet(OpFiles)
<1> DEFINE entry(e) == [at |-> parseOpPath(e.path), path |-> e.path, blob |-> e.blob]
           E == {r \in {e \in walkTrees(repo.tree) : refTarget(e.path)} : parseOpPath(r.path) # NotAnOperationFile}
           g == [e \in E |-> entry(e)]
           T == {entry(e) : e \in E}
<1>1. IsFiniteSet(repo.tree) BY ReposAssumption
<1>2. E \subseteq repo.tree BY DEF walkTrees
<1>3. IsFiniteSet(E) BY <1>1, <1>2, FS_Subset
<1>4. g \in Surjection(E, T) BY DEF Surjection
<1>5. IsFiniteSet(T) BY <1>3, <1>4, FS_Surjection
<1>6. Built.files = T BY DEF Built, BuildIndex
<1>7. OpFiles \subseteq T BY <1>6 DEF OpFiles, filesIn, Built
<1> HIDE DEF T
<1> QED BY <1>5, <1>7, FS_Subset

-----------------------------------------------------------------------------
(* A search is right so far: the index is that of the repository; no pass  *)
(* before this one has a hit, nor does any pass have the id as asked once  *)
(* ids are matched by case; a group is left to walk only below dirs that   *)
(* have no hit; and what is found is exactly what the dirs that are not    *)
(* left to walk have of the candidates of the pass.                        *)
Searching == {"scan", "reading", "conclude", "rendering"}
Asked(l) == IF mode[l] = "exact" THEN {"exact"} ELSE Spelled
Hit(l, f) == ids(f) \cap Asked(l) # {}
Within(l) == {f \in OpFiles : models[l] \in {None, f.at.dir}}
InPass(l) == {f \in Within(l) : Tier(l, f) = step[l]}
Best(l) ==
  {f \in InPass(l) :
     /\ Hit(l, f)
     /\ models[l] = None => \A o \in InPass(l) : o.at.group = f.at.group /\ Hit(l, o) => ~Newer(o, f)}
MatchesOf(l, F) == {m \in [file : F, id : Spelled] : m.id \in ids(m.file) \cap Asked(l)}

PassesOK(l) ==
  /\ mode[l] \in {"exact", "folded"} /\ step[l] \in 1..lastStep(l)
  /\ mode[l] = "folded" => \A f \in Within(l) : "exact" \notin ids(f)
  /\ \A f \in Within(l) : Tier(l, f) < step[l] => ~Hit(l, f)
WalkOK(l) ==
  /\ todo[l] \subseteq {dirOf(f) : f \in InPass(l)}
  /\ models[l] = None =>
       \A d \in todo[l] : \A o \in InPass(l) :
         o.at.group = d.group /\ newerDir(dirOf(o), d) /\ dirOf(o) \notin todo[l] => ~Hit(l, o)
FoundOK(l) == found[l] = MatchesOf(l, {f \in Best(l) : dirOf(f) \notin todo[l]})
FilesOK(l) ==
  /\ at[l] = "reading" => todo[l] # {} /\ Range(files[l]) = {f \in OpFiles : dirOf(f) = nextDir(todo[l])}
  /\ at[l] \in {"conclude", "rendering"} => todo[l] = {} /\ found[l] # {}
  /\ at[l] = "rendering" => Range(files[l]) = Best(l)
SearchOK(l) ==
  /\ at[l] \in Searching => PassesOK(l) /\ WalkOK(l) /\ FoundOK(l) /\ FilesOK(l)
  /\ at[l] \notin Searching \cup {"done"} => found[l] = {}
IndexOK == index \in {None, Built} /\ \A l \in Lookups : at[l] \in {"plan"} \cup Searching => index = Built
DomainsOK ==
  /\ repo \in Repos
  /\ DOMAIN at = Lookups /\ DOMAIN mode = Lookups /\ DOMAIN step = Lookups /\ DOMAIN todo = Lookups
  /\ DOMAIN files = Lookups /\ DOMAIN found = Lookups /\ DOMAIN out = Lookups
SearchInv == DomainsOK /\ IndexOK /\ (\A l \in Lookups : SearchOK(l)) /\ SearchRight

(* An answer that is right for what the repository defines. *)
AnswerRight(l, o) ==
  LET C == Candidates(l, Wanted(l)) IN
    CASE o.kind = "notFound" -> C = {}
      [] o.kind = "found" -> /\ o.file \in C /\ \A f \in C : ~Newer(f, o.file)
                             /\ Cardinality({repo.request[f.blob] : f \in C}) = 1
      [] o.kind = "ambiguous" -> \/ Cardinality(C) > 1
                                 \/ \E f \in C : f.at.kind = "preview" \/ Cardinality(ids(f) \cap Wanted(l)) > 1
      [] OTHER -> TRUE

LEMMA AnswersRight == SearchRight <=> \A l \in Lookups : out[l] # None => AnswerRight(l, out[l])
BY DEF SearchRight, AnswerRight
-----------------------------------------------------------------------------
LEMMA TierParts ==
  \A l, f : Tier(l, f) \in 1..lastStep(l) /\ lastStep(l) \in {1, 3} /\ (Tier(l, f) = 3 => f.at.kind = "preview")
BY DEF Tier, lastStep

(* Files of a dir are of the same pass.                                    *)
LEMMA TierOfDir ==
  \A l : \A f, g \in OpFiles : dirOf(f) = dirOf(g) => Tier(l, f) = Tier(l, g) /\ (f \in Within(l) <=> g \in Within(l))
<1> TAKE l
<1> TAKE f, g \in OpFiles
<1> HAVE dirOf(f) = dirOf(g)
<1>1. f.at.group = g.at.group /\ f.at.kind = g.at.kind /\ f.at.dir = g.at.dir BY DirParts
<1>2. \A o : Newer(o, f) <=> Newer(o, g) BY DEF Newer
<1>3. Tier(l, f) = Tier(l, g) BY <1>1, <1>2 DEF Tier
<1> QED BY <1>1, <1>3 DEF Within

(* The walk of a pass has the dirs of its files.                           *)
LEMMA PassIsTier ==
  index = Built => \A l \in Lookups : \A s \in 1..lastStep(l) :
                     dirsFor(l, s) = {dirOf(f) : f \in {x \in Within(l) : Tier(l, x) = s}}
<1> SUFFICES ASSUME index = Built, NEW l \in Lookups, NEW s \in 1..lastStep(l)
             PROVE  dirsFor(l, s) = {dirOf(f) : f \in {x \in Within(l) : Tier(l, x) = s}}
  OBVIOUS
<1>1. dirs = {dirOf(f) : f \in OpFiles} BY DEF dirs, dirsOf, OpFiles, Built
<1>2. CASE models[l] # None
  <2>1. s = 1 /\ \A f : Tier(l, f) = 1 BY <1>2 DEF lastStep, Tier
  <2>2. dirsFor(l, s) = {d \in dirs : d.dir = models[l]} BY <1>2 DEF dirsFor, modelDirs
  <2>3. Within(l) = {f \in OpFiles : f.at.dir = models[l]} BY <1>2 DEF Within
  <2> QED BY <1>1, <2>1, <2>2, <2>3, DirParts
<1>3. CASE models[l] = None
  <2> DEFINE stable == {d \in dirs : d.kind = "stable"}
             newest == {d \in stable : \A o \in stable : o.group = d.group => ~newerDir(o, d)}
             newer(f) == \E o \in OpFiles : o.at.group = f.at.group /\ o.at.kind = "stable" /\ Newer(o, f)
  <2>1. Within(l) = OpFiles BY <1>3 DEF Within
  <2>2. \A f \in OpFiles : /\ Tier(l, f) = 1 <=> f.at.kind = "stable" /\ ~newer(f)
                           /\ Tier(l, f) = 2 <=> f.at.kind = "stable" /\ newer(f)
                           /\ Tier(l, f) = 3 <=> f.at.kind = "preview"
    BY <1>3, OpFileParts DEF Tier
  <2>3. \A f \in OpFiles : dirOf(f) \in stable <=> f.at.kind = "stable" BY <1>1, DirParts
  <2>4. \A f \in OpFiles : f.at.kind = "stable" => (newer(f) <=> dirOf(f) \notin newest)
    <3> TAKE f \in OpFiles
    <3> HAVE f.at.kind = "stable"
    <3>1. dirOf(f) \in stable BY <2>3
    <3>2. ASSUME newer(f) PROVE dirOf(f) \notin newest
      <4>1. PICK o \in OpFiles : o.at.group = f.at.group /\ o.at.kind = "stable" /\ Newer(o, f) BY <3>2
      <4>2. dirOf(o) \in stable /\ dirOf(o).group = dirOf(f).group /\ newerDir(dirOf(o), dirOf(f))
        BY <2>3, <4>1, DirParts DEF Newer
      <4> QED BY <4>2
    <3>3. ASSUME dirOf(f) \notin newest PROVE newer(f)
      <4>1. PICK d \in stable : d.group = dirOf(f).group /\ newerDir(d, dirOf(f)) BY <3>1, <3>3
      <4>2. PICK o \in OpFiles : d = dirOf(o) BY <1>1
      <4>3. o.at.group = f.at.group /\ o.at.kind = "stable" /\ Newer(o, f)
        BY <2>3, <4>1, <4>2, DirParts DEF Newer
      <4> QED BY <4>3
    <3> QED BY <3>2, <3>3
  <2>5. s \in {1, 2, 3} /\ dirsFor(l, s) = passDirs(s) BY <1>3 DEF lastStep, dirsFor
  <2>6. /\ passDirs(1) = newest /\ passDirs(2) = stable \ newest
        /\ passDirs(3) = {d \in dirs : d.kind = "preview"}
    BY DEF passDirs
  <2>7. \A d : d \in newest => d \in stable OBVIOUS
  <2>8. \A d : d \in stable <=> d \in dirs /\ d.kind = "stable" OBVIOUS
  <2>9. \A f \in OpFiles : dirOf(f) \in newest <=> Tier(l, f) = 1 BY <2>2, <2>3, <2>4, <2>7
  <2>10. \A f \in OpFiles : dirOf(f) \in stable \ newest <=> Tier(l, f) = 2 BY <2>2, <2>3, <2>4, <2>7
  <2>11. \A f \in OpFiles : dirOf(f) \in passDirs(3) <=> Tier(l, f) = 3 BY <1>1, <2>2, <2>6, DirParts
  <2>12. \A f \in OpFiles : dirOf(f) \in dirsFor(l, s) <=> Tier(l, f) = s
    BY <2>5, <2>6, <2>9, <2>10, <2>11
  <2>13. dirsFor(l, s) \subseteq dirs BY <2>5, <2>6
  <2> HIDE DEF stable, newest, newer
  <2> QED BY <1>1, <2>1, <2>12, <2>13
<1> QED BY <1>2, <1>3

(* Of the hits of a group one is newest: a pass with a hit has candidates. *)
LEMMA NoBestNoHit ==
  \A l \in Lookups : Best(l) = {} => \A f \in InPass(l) : ~Hit(l, f)
<1> SUFFICES ASSUME NEW l \in Lookups, NEW f \in InPass(l), Hit(l, f) PROVE Best(l) # {}
  OBVIOUS
<1> DEFINE H == {o \in InPass(l) : o.at.group = f.at.group /\ Hit(l, o)}
<1>1. H # {} /\ H \subseteq OpFiles BY DEF InPass, Within
<1>2. PICK h \in H : \A o \in H : ~Newer(o, h) BY <1>1, NewestFile
<1>3. h \in Best(l) BY <1>2 DEF Best
<1> QED BY <1>3

LEMMA NoCandidates ==
  \A l \in Lookups : \A S : (\A f \in Within(l) : ids(f) \cap S = {}) => Candidates(l, S) = {}
<1> SUFFICES ASSUME NEW l \in Lookups, NEW S, \A f \in Within(l) : ids(f) \cap S = {}
             PROVE  Candidates(l, S) = {}
  OBVIOUS
<1>1. {f \in OpFiles : ids(f) \cap S # {} /\ models[l] \in {None, f.at.dir}} = {} BY DEF Within
<1> QED BY <1>1 DEF Candidates

(* The candidates of the first pass with a hit are those of the repository.*)
LEMMA BestIsCandidates ==
  \A l \in Lookups : PassesOK(l) /\ Best(l) # {} =>
    Candidates(l, Asked(l)) = Best(l) /\ Wanted(l) = Asked(l)
<1> SUFFICES ASSUME NEW l \in Lookups, PassesOK(l), Best(l) # {}
             PROVE  Candidates(l, Asked(l)) = Best(l) /\ Wanted(l) = Asked(l)
  OBVIOUS
<1> DEFINE D == {f \in OpFiles : ids(f) \cap Asked(l) # {} /\ models[l] \in {None, f.at.dir}}
           best == {f \in D : \A o \in D : Tier(l, f) <= Tier(l, o)}
<1>1. D = {f \in Within(l) : Hit(l, f)} BY DEF Within, Hit
<1>2. Candidates(l, Asked(l)) = IF models[l] # None THEN D
                                ELSE {f \in best : \A o \in best : o.at.group = f.at.group => ~Newer(o, f)}
  BY DEF Candidates
<1>3. step[l] \in 1..lastStep(l) /\ \A f \in Within(l) : Tier(l, f) < step[l] => ~Hit(l, f) BY DEF PassesOK
<1> HIDE DEF D
<1>4. Candidates(l, Asked(l)) = Best(l)
  <2>1. CASE models[l] # None
    <3>1. step[l] = 1 /\ \A f : Tier(l, f) = 1 BY <1>3, <2>1 DEF lastStep, Tier
    <3>2. InPass(l) = Within(l) BY <3>1 DEF InPass
    <3> QED BY <1>1, <1>2, <2>1, <3>2 DEF Best
  <2>2. CASE models[l] = None
    <3>1. PICK b \in InPass(l) : Hit(l, b) BY DEF Best
    <3>2. b \in D /\ Tier(l, b) = step[l] BY <1>1, <3>1 DEF InPass
    <3>3. \A f \in D : ~(Tier(l, f) < step[l]) BY <1>1, <1>3
    <3>4. step[l] \in Int /\ \A f : Tier(l, f) \in Int BY <1>3, TierParts
    <3>5. \A f \in D : f \in best <=> Tier(l, f) = step[l] BY <3>2, <3>3, <3>4
    <3>6. best = {f \in InPass(l) : Hit(l, f)} BY <1>1, <3>5 DEF InPass
    <3> HIDE DEF best
    <3> QED BY <1>2, <2>2, <3>6 DEF Best
  <2> QED BY <2>1, <2>2
<1>5. Wanted(l) = Asked(l)
  <2>1. CASE mode[l] = "exact" BY <1>4, <2>1 DEF Wanted, Asked
  <2>2. CASE mode[l] # "exact"
    <3>1. \A f \in Within(l) : ids(f) \cap {"exact"} = {} BY <2>2 DEF PassesOK
    <3>2. Candidates(l, {"exact"}) = {} BY <3>1, NoCandidates
    <3> QED BY <2>2, <3>2 DEF Wanted, Asked
  <2> QED BY <2>1, <2>2
<1> QED BY <1>4, <1>5

(* No hit at all is no candidate, however the id is spelled. *)
LEMMA NothingToFind ==
  \A l \in Lookups : (\A f \in Within(l) : ids(f) \cap Spelled = {}) => AnswerRight(l, [kind |-> "notFound"])
<1> SUFFICES ASSUME NEW l \in Lookups, \A f \in Within(l) : ids(f) \cap Spelled = {}
             PROVE  AnswerRight(l, [kind |-> "notFound"])
  OBVIOUS
<1>1. {"exact"} \subseteq Spelled BY DEF Spelled
<1>2. \A f \in Within(l) : ids(f) \cap {"exact"} = {} BY <1>1
<1>3. Candidates(l, Wanted(l)) = {} BY <1>2, NoCandidates DEF Wanted
<1> QED BY <1>3 DEF AnswerRight
-----------------------------------------------------------------------------
(* What a step leaves of a lookup. *)
Same(k) ==
  /\ at'[k] = at[k] /\ mode'[k] = mode[k] /\ step'[k] = step[k] /\ todo'[k] = todo[k]
  /\ files'[k] = files[k] /\ found'[k] = found[k] /\ out'[k] = out[k]

(* The repository and what the lookups ask for stand still.                *)
LEMMA BaseSame ==
  ASSUME UNCHANGED <<repo, models>>
  PROVE  /\ OpFiles' = OpFiles /\ Built' = Built
         /\ \A f : ids(f)' = ids(f)
         /\ \A l : /\ Within(l)' = Within(l) /\ lastStep(l)' = lastStep(l)
                   /\ \A f : Tier(l, f)' = Tier(l, f)
                   /\ \A o : AnswerRight(l, o)' <=> AnswerRight(l, o)
<1>1. OpFiles' = OpFiles /\ Built' = Built BY DEF OpFiles, Built
<1>2. \A f : ids(f)' = ids(f) BY DEF ids
<1>3. \A l : Within(l)' = Within(l) BY <1>1 DEF Within
<1>4. \A l : lastStep(l)' = lastStep(l) BY DEF lastStep
<1>5. \A l, f : Tier(l, f)' = Tier(l, f) BY <1>1 DEF Tier
<1>6. \A l, S : Candidates(l, S)' = Candidates(l, S)
  <2> TAKE l, S
  <2> DEFINE D == {f \in OpFiles : ids(f) \cap S # {} /\ models[l] \in {None, f.at.dir}}
             best == {f \in D : \A o \in D : Tier(l, f) <= Tier(l, o)}
             C == IF models[l] # None THEN D
                  ELSE {f \in best : \A o \in best : o.at.group = f.at.group => ~Newer(o, f)}
  <2>1. D' = D BY <1>1, <1>2
  <2> HIDE DEF D
  <2>2. best' = best BY <1>5, <2>1
  <2> HIDE DEF best
  <2>3. C' = C BY <2>1, <2>2
  <2> QED BY <2>3 DEF Candidates, C, best, D
<1>7. \A l : Wanted(l)' = Wanted(l) BY <1>6 DEF Wanted
<1>8. \A l, o : AnswerRight(l, o)' <=> AnswerRight(l, o) BY <1>2, <1>6, <1>7 DEF AnswerRight
<1> QED BY <1>1, <1>2, <1>3, <1>4, <1>5, <1>8

LEMMA PassSame ==
  ASSUME UNCHANGED <<repo, models>>, NEW l, mode'[l] = mode[l], step'[l] = step[l]
  PROVE  /\ Asked(l)' = Asked(l) /\ InPass(l)' = InPass(l) /\ Best(l)' = Best(l)
         /\ \A f : Hit(l, f)' <=> Hit(l, f)
         /\ PassesOK(l)' <=> PassesOK(l)
<1>1. Asked(l)' = Asked(l) BY DEF Asked
<1>2. \A f : Hit(l, f)' <=> Hit(l, f) BY <1>1, BaseSame DEF Hit
<1>3. InPass(l)' = InPass(l) BY BaseSame DEF InPass
<1>4. Best(l)' = Best(l) BY <1>2, <1>3 DEF Best
<1>5. PassesOK(l)' <=> PassesOK(l) BY <1>2, BaseSame DEF PassesOK
<1> QED BY <1>1, <1>2, <1>3, <1>4, <1>5

LEMMA WalkSame ==
  ASSUME UNCHANGED <<repo, models>>, NEW l,
         mode'[l] = mode[l], step'[l] = step[l], todo'[l] = todo[l], found'[l] = found[l]
  PROVE  (PassesOK(l)' <=> PassesOK(l)) /\ (WalkOK(l)' <=> WalkOK(l)) /\ (FoundOK(l)' <=> FoundOK(l))
<1>1. /\ Asked(l)' = Asked(l) /\ InPass(l)' = InPass(l) /\ Best(l)' = Best(l)
      /\ \A f : Hit(l, f)' <=> Hit(l, f)
      /\ PassesOK(l)' <=> PassesOK(l)
  BY PassSame
<1>2. WalkOK(l)' <=> WalkOK(l) BY <1>1 DEF WalkOK
<1>3. FoundOK(l)' <=> FoundOK(l)
  <2>1. {f \in Best(l) : dirOf(f) \notin todo[l]}' = {f \in Best(l) : dirOf(f) \notin todo[l]} BY <1>1
  <2>2. MatchesOf(l, {f \in Best(l) : dirOf(f) \notin todo[l]})' = MatchesOf(l, {f \in Best(l) : dirOf(f) \notin todo[l]})
    BY <1>1, <2>1, BaseSame DEF MatchesOf
  <2> QED BY <2>2 DEF FoundOK
<1> QED BY <1>1, <1>2, <1>3

LEMMA SearchSame ==
  ASSUME UNCHANGED <<repo, models>>, NEW l, Same(l), SearchOK(l)
  PROVE  SearchOK(l)'
<1>1. /\ at'[l] = at[l] /\ mode'[l] = mode[l] /\ step'[l] = step[l] /\ todo'[l] = todo[l]
      /\ files'[l] = files[l] /\ found'[l] = found[l]
  BY DEF Same
<1>2. (PassesOK(l)' <=> PassesOK(l)) /\ (WalkOK(l)' <=> WalkOK(l)) /\ (FoundOK(l)' <=> FoundOK(l))
  BY <1>1, WalkSame
<1>3. Best(l)' = Best(l) /\ OpFiles' = OpFiles BY <1>1, PassSame, BaseSame
<1>4. FilesOK(l)' <=> FilesOK(l) BY <1>1, <1>3 DEF FilesOK
<1> QED BY <1>1, <1>2, <1>4 DEF SearchOK

LEMMA AnswersRightNext == (SearchRight <=> \A l \in Lookups : out[l] # None => AnswerRight(l, out[l]))'
BY AnswersRight, PTL

LEMMA SearchQuiet ==
  ASSUME SearchInv, UNCHANGED <<repo, models, index, at, mode, step, todo, files, found, out>>
  PROVE  SearchInv'
<1>1. DomainsOK' BY DEF SearchInv, DomainsOK
<1>2. IndexOK' BY BaseSame DEF SearchInv, IndexOK
<1>3. \A l \in Lookups : SearchOK(l)' BY SearchSame DEF SearchInv, Same
<1>4. SearchRight' BY BaseSame, AnswersRight, AnswersRightNext DEF SearchInv
<1> QED BY <1>1, <1>2, <1>3, <1>4 DEF SearchInv

(* One lookup moves: what is left to show of it. *)
LEMMA OneSearches ==
  ASSUME SearchInv, UNCHANGED <<repo, models, index>>, NEW l \in Lookups, DomainsOK',
         \A k \in Lookups : k # l => Same(k),
         SearchOK(l)',
         at'[l] \in {"plan"} \cup Searching => index = Built,
         out'[l] = out[l] \/ (out'[l] # None => AnswerRight(l, out'[l]))
  PROVE  SearchInv'
<1>1. UNCHANGED <<repo, models>> OBVIOUS
<1>2. Built' = Built /\ \A k, o : AnswerRight(k, o)' <=> AnswerRight(k, o) BY <1>1, BaseSame
<1>3. IndexOK'
  <2>1. index' \in {None, Built'} BY <1>2 DEF SearchInv, IndexOK
  <2>2. \A k \in Lookups : at'[k] \in {"plan"} \cup Searching => index' = Built'
    BY <1>2 DEF SearchInv, IndexOK, Same
  <2> QED BY <2>1, <2>2 DEF IndexOK
<1>4. \A k \in Lookups : SearchOK(k)' BY <1>1, SearchSame DEF SearchInv
<1>5. SearchRight'
  <2>1. \A k \in Lookups : out'[k] = out[k] \/ (out'[k] # None => AnswerRight(k, out'[k])) BY DEF Same
  <2>2. \A k \in Lookups : out[k] # None => AnswerRight(k, out[k]) BY AnswersRight DEF SearchInv
  <2>3. \A k \in Lookups : out'[k] # None => AnswerRight(k, out'[k]) BY <2>1, <2>2
  <2>4. \A k \in Lookups : out'[k] # None => AnswerRight(k, out[k])' 
    <3> TAKE k \in Lookups
    <3> HAVE out'[k] # None
    <3>1. PICK o : o = out'[k] OBVIOUS
    <3>2. AnswerRight(k, o) BY <2>3, <3>1
    <3>3. AnswerRight(k, o)' BY <1>2, <3>2
    <3> QED BY <3>1, <3>3 DEF AnswerRight
  <2> QED BY <2>4, AnswersRightNext
<1> QED BY <1>3, <1>4, <1>5 DEF SearchInv

LEMMA NoAnswerWrong ==
  \A l, w : /\ AnswerRight(l, [kind |-> "stopped"]) /\ AnswerRight(l, [kind |-> "noIndex"])
            /\ AnswerRight(l, [kind |-> "failed", why |-> w])
BY DEF AnswerRight

(* A lookup finishes, stopped or with a right answer.                      *)
LEMMA FinishRight ==
  ASSUME SearchInv, UNCHANGED <<repo, models, index, mode, step, todo, found>>, NEW l \in Lookups,
         NEW STATE o, l \in ended \/ AnswerRight(l, o), Finish(l, o),
         DOMAIN files' = Lookups, \A k \in Lookups : k # l => files'[k] = files[k]
  PROVE  SearchInv'
<1>1. DOMAIN at = Lookups /\ DOMAIN out = Lookups BY DEF SearchInv, DomainsOK
<1>2. at' = [at EXCEPT ![l] = "done"] BY DEF Finish
<1>3. out' = [out EXCEPT ![l] = IF l \in ended THEN [kind |-> "stopped"] ELSE o] BY DEF Finish
<1>4. DomainsOK' BY <1>2, <1>3 DEF SearchInv, DomainsOK
<1>5. \A k \in Lookups : k # l => Same(k) BY <1>1, <1>2, <1>3 DEF Same
<1>6. at'[l] = "done" BY <1>1, <1>2
<1>7. SearchOK(l)' BY <1>6 DEF SearchOK, Searching
<1>8. out'[l] = [kind |-> "stopped"] \/ (l \notin ended /\ out'[l] = o) BY <1>1, <1>3
<1>9. AnswerRight(l, out'[l]) BY <1>8, NoAnswerWrong
<1>10. at'[l] \notin {"plan"} \cup Searching BY <1>6 DEF Searching
<1> QED BY <1>4, <1>5, <1>7, <1>9, <1>10, OneSearches

LEMMA IndexSearch == ASSUME SearchInv, NEW l \in Lookups, Index(l) PROVE SearchInv'
<1>1. UNCHANGED <<repo, models, index, mode, step, todo, files, found>> /\ at[l] \in {"new", "index"} BY DEF Index
<1>2. DOMAIN at = Lookups /\ DOMAIN files = Lookups BY DEF SearchInv, DomainsOK
<1>3. ASSUME NEW to \in {"plan", "loading"}, at' = [at EXCEPT ![l] = to], UNCHANGED out, to = "plan" => index # None
      PROVE  SearchInv'
  <2>1. DomainsOK' BY <1>1, <1>3 DEF SearchInv, DomainsOK
  <2>2. \A k \in Lookups : k # l => Same(k) BY <1>1, <1>2, <1>3 DEF Same
  <2>3. at'[l] = to BY <1>2, <1>3
  <2>4. found[l] = {} BY <1>1 DEF SearchInv, SearchOK, Searching
  <2>5. SearchOK(l)' BY <1>1, <2>3, <2>4 DEF SearchOK, Searching
  <2>6. at'[l] \in {"plan"} \cup Searching => index = Built BY <1>3, <2>3 DEF SearchInv, IndexOK, Searching
  <2>7. out'[l] = out[l] BY <1>3
  <2> QED BY <1>1, <2>1, <2>2, <2>5, <2>6, <2>7, OneSearches
<1>4. CASE l \in ended /\ Finish(l, None) BY <1>1, <1>2, <1>4, FinishRight
<1> QED BY <1>3, <1>4 DEF Index

LEMMA LeaveLoadSearch == ASSUME SearchInv, NEW l \in Lookups, LeaveLoad(l) PROVE SearchInv'
<1>1. UNCHANGED <<repo, models, index, mode, step, todo, files, found>> /\ l \in ended /\ Finish(l, None)
  BY DEF LeaveLoad, storeVars
<1>2. DOMAIN files = Lookups BY DEF SearchInv, DomainsOK
<1> QED BY <1>1, <1>2, FinishRight

LEMMA LoadedSearch == ASSUME SearchInv, Loaded PROVE SearchInv'
<1>1. UNCHANGED <<repo, models, mode, step, todo, files, found>> BY DEF Loaded
<1>2. Built' = Built /\ \A l, o : AnswerRight(l, o)' <=> AnswerRight(l, o) BY <1>1, BaseSame
<1>3. \/ /\ index' = Built
         /\ at' = [l \in Lookups |-> IF at[l] = "loading" THEN "plan" ELSE at[l]]
         /\ UNCHANGED out
      \/ /\ UNCHANGED index
         /\ at' = [l \in Lookups |-> IF at[l] = "loading" THEN "done" ELSE at[l]]
         /\ out' = [l \in Lookups |-> IF at[l] # "loading" THEN out[l]
                                     ELSE IF l \in ended THEN [kind |-> "stopped"] ELSE [kind |-> "noIndex"]]
  BY DEF Loaded, Built
<1>4. DomainsOK' BY <1>1, <1>3 DEF SearchInv, DomainsOK
<1>5. index' \in {None, Built} /\ (index = Built => index' = Built) BY <1>3 DEF SearchInv, IndexOK
<1>6. \A l \in Lookups : at[l] # "loading" => Same(l)
  BY <1>1, <1>3 DEF SearchInv, DomainsOK, Same
<1>7. \A l \in Lookups : at[l] = "loading" =>
        /\ (at'[l] = "plan" /\ index' = Built) \/ at'[l] = "done"
        /\ out'[l] = out[l] \/ out'[l] \in {[kind |-> "stopped"], [kind |-> "noIndex"]}
  BY <1>3
<1>8. IndexOK'
  <2>1. \A l \in Lookups : at'[l] \in {"plan"} \cup Searching => index' = Built
    BY <1>5, <1>6, <1>7 DEF SearchInv, IndexOK, Searching, Same
  <2> QED BY <1>2, <1>5, <2>1 DEF IndexOK
<1>9. \A l \in Lookups : SearchOK(l)'
  <2> TAKE l \in Lookups
  <2>1. SearchOK(l) BY DEF SearchInv
  <2>2. CASE at[l] # "loading" BY <1>1, <1>6, <2>1, <2>2, SearchSame
  <2>3. CASE at[l] = "loading"
    <3>1. found[l] = {} BY <2>1, <2>3 DEF SearchOK, Searching
    <3> QED BY <1>1, <1>7, <2>3, <3>1 DEF SearchOK, Searching
  <2> QED BY <2>2, <2>3
<1>10. SearchRight'
  <2>1. \A k \in Lookups : out[k] # None => AnswerRight(k, out[k]) BY AnswersRight DEF SearchInv
  <2>2. \A k \in Lookups : out'[k] # None => AnswerRight(k, out'[k])
    BY <1>6, <1>7, <2>1, NoAnswerWrong DEF Same
  <2>3. \A k \in Lookups : out'[k] # None => AnswerRight(k, out[k])'
    <3> TAKE k \in Lookups
    <3> HAVE out'[k] # None
    <3>1. PICK o : o = out'[k] OBVIOUS
    <3>2. AnswerRight(k, o)' BY <1>2, <2>2, <3>1
    <3> QED BY <3>1, <3>2 DEF AnswerRight
  <2> QED BY <2>3, AnswersRightNext
<1> QED BY <1>4, <1>8, <1>9, <1>10 DEF SearchInv

(* A pass starts with all its dirs to walk. *)
LEMMA PassStarts ==
  \A l \in Lookups : index = Built /\ PassesOK(l) /\ todo[l] = dirsFor(l, step[l]) /\ found[l] = {} =>
                     WalkOK(l) /\ FoundOK(l)
<1> SUFFICES ASSUME NEW l \in Lookups, index = Built, PassesOK(l), todo[l] = dirsFor(l, step[l]), found[l] = {}
             PROVE  WalkOK(l) /\ FoundOK(l)
  OBVIOUS
<1>1. todo[l] = {dirOf(f) : f \in InPass(l)} BY PassIsTier DEF PassesOK, InPass
<1>2. \A f \in InPass(l) : dirOf(f) \in todo[l] BY <1>1
<1>3. WalkOK(l) BY <1>1, <1>2 DEF WalkOK
<1>4. {f \in Best(l) : dirOf(f) \notin todo[l]} = {} BY <1>2 DEF Best
<1>5. FoundOK(l) BY <1>4 DEF FoundOK, MatchesOf
<1> QED BY <1>3, <1>5

LEMMA PassStartsNext ==
  (\A l \in Lookups : index = Built /\ PassesOK(l) /\ todo[l] = dirsFor(l, step[l]) /\ found[l] = {} =>
                      WalkOK(l) /\ FoundOK(l))'
BY PassStarts, PTL

(* The first pass of a way of matching has none before it. *)
LEMMA ModeStarts ==
  \A l \in Lookups :
    /\ step[l] = 1
    /\ mode[l] = "exact" \/ (mode[l] = "folded" /\ \A f \in Within(l) : "exact" \notin ids(f))
    => PassesOK(l)
<1> SUFFICES ASSUME NEW l \in Lookups, step[l] = 1,
                    mode[l] = "exact" \/ (mode[l] = "folded" /\ \A f \in Within(l) : "exact" \notin ids(f))
             PROVE  PassesOK(l)
  OBVIOUS
<1>1. 1 \in 1..lastStep(l) /\ \A f : Tier(l, f) \in Nat /\ ~(Tier(l, f) < 1) BY TierParts
<1> QED BY <1>1 DEF PassesOK

LEMMA ModeStartsNext ==
  (\A l \in Lookups :
    /\ step[l] = 1
    /\ mode[l] = "exact" \/ (mode[l] = "folded" /\ \A f \in Within(l) : "exact" \notin ids(f))
    => PassesOK(l))'
BY ModeStarts, PTL

LEMMA PlanSearch == ASSUME SearchInv, NEW l \in Lookups, Plan(l) PROVE SearchInv'
<1>1. UNCHANGED <<repo, models, index, files, found>> /\ at[l] = "plan" BY DEF Plan, storeVars
<1>2. index = Built /\ found[l] = {} BY <1>1 DEF SearchInv, IndexOK, SearchOK, Searching
<1>3. /\ DOMAIN at = Lookups /\ DOMAIN mode = Lookups /\ DOMAIN step = Lookups /\ DOMAIN todo = Lookups
      /\ DOMAIN files = Lookups
  BY DEF SearchInv, DomainsOK
<1>4. CASE /\ l \in ended \/ dirs = {} \/ (models[l] # None /\ modelDirs(models[l]) = {})
           /\ Finish(l, [kind |-> "notFound"]) /\ UNCHANGED <<mode, step, todo>>
  <2>1. dirs = {dirOf(f) : f \in OpFiles} BY <1>2 DEF dirs, dirsOf, OpFiles, Built
  <2>2. dirs = {} => Within(l) = {} BY <2>1 DEF Within
  <2>3. models[l] # None /\ modelDirs(models[l]) = {} => Within(l) = {}
    BY <2>1, DirParts DEF modelDirs, Within
  <2>4. l \in ended \/ AnswerRight(l, [kind |-> "notFound"]) BY <1>4, <2>2, <2>3, NothingToFind
  <2> QED BY <1>1, <1>3, <1>4, <2>4, FinishRight
<1>5. CASE /\ at' = [at EXCEPT ![l] = "scan"]
           /\ mode' = [mode EXCEPT ![l] = "exact"] /\ step' = [step EXCEPT ![l] = 1]
           /\ todo' = [todo EXCEPT ![l] = dirsFor(l, 1)]
           /\ UNCHANGED out
  <2>1. DomainsOK' BY <1>1, <1>5 DEF SearchInv, DomainsOK
  <2>2. \A k \in Lookups : k # l => Same(k) BY <1>1, <1>3, <1>5 DEF Same
  <2>3. at'[l] = "scan" /\ mode'[l] = "exact" /\ step'[l] = 1 /\ todo'[l] = dirsFor(l, 1) BY <1>3, <1>5
  <2>4. PassesOK(l)' BY <2>3, ModeStartsNext
  <2>5. dirsFor(l, step[l])' = dirsFor(l, 1) BY <1>1, <2>3 DEF dirsFor, passDirs, modelDirs, dirs
  <2>6. index' = Built' BY <1>1, <1>2, BaseSame
  <2>7. WalkOK(l)' /\ FoundOK(l)' BY <1>1, <1>2, <2>3, <2>4, <2>5, <2>6, PassStartsNext
  <2>8. FilesOK(l)' BY <2>3 DEF FilesOK
  <2>9. SearchOK(l)' BY <2>3, <2>4, <2>7, <2>8 DEF SearchOK, Searching
  <2>10. out'[l] = out[l] BY <1>5
  <2> QED BY <1>1, <1>2, <2>1, <2>2, <2>9, <2>10, OneSearches
<1> QED BY <1>4, <1>5 DEF Plan

(* The files read are all the files of the dir.                            *)
LEMMA FilesOfDir ==
  index = Built /\ repo \in Repos =>
    \A d : Range(filesOf(index, Namespace, d)) = {f \in OpFiles : dirOf(f) = d}
<1> SUFFICES ASSUME index = Built, repo \in Repos, NEW d
             PROVE  Range(filesOf(index, Namespace, d)) = {f \in OpFiles : dirOf(f) = d}
  OBVIOUS
<1> DEFINE in == {f \in filesIn(index, Namespace) : dirOf(f) = d}
           first == {f \in in : f.at.file = "a.json"}
           rest == in \ first
<1>1. in = {f \in OpFiles : dirOf(f) = d} BY DEF OpFiles, Built
<1>2. in \subseteq OpFiles BY <1>1
<1> HIDE DEF in
<1>3. first \subseteq OpFiles /\ rest \subseteq OpFiles BY <1>2
<1>4. IsFiniteSet(first) /\ IsFiniteSet(rest) BY <1>3, OpFilesFinite, FS_Subset
<1>5. first \cup rest = in OBVIOUS
<1> HIDE DEF first, rest
<1>6. /\ Range(SetToSeq(first)) = first /\ SetToSeq(first) \in Seq(first)
      /\ Range(SetToSeq(rest)) = rest /\ SetToSeq(rest) \in Seq(rest)
  BY <1>4, SetToSeqAll
<1>7. \A s, t : s \in Seq(first) /\ t \in Seq(rest) => Range(s \o t) = Range(s) \cup Range(t)
  <2> TAKE s, t
  <2> HAVE s \in Seq(first) /\ t \in Seq(rest)
  <2>1. s \in Seq(in) /\ t \in Seq(in) BY <1>5
  <2>2. /\ Len(s) \in Nat /\ Len(t) \in Nat /\ DOMAIN s = 1..Len(s) /\ DOMAIN t = 1..Len(t)
        /\ DOMAIN (s \o t) = 1..(Len(s) + Len(t))
        /\ \A i \in 1..(Len(s) + Len(t)) : (s \o t)[i] = IF i <= Len(s) THEN s[i] ELSE t[i - Len(s)]
    BY <2>1
  <2>3. \A i \in DOMAIN s : i \in DOMAIN (s \o t) /\ (s \o t)[i] = s[i] BY <2>2
  <2>4. \A i \in DOMAIN t : Len(s) + i \in DOMAIN (s \o t) /\ (s \o t)[Len(s) + i] = t[i] BY <2>2
  <2>5. \A i \in DOMAIN (s \o t) : (s \o t)[i] \in Range(s) \cup Range(t)
    <3> TAKE i \in DOMAIN (s \o t)
    <3>1. CASE i <= Len(s) BY <2>2, <3>1 DEF Range
    <3>2. CASE ~(i <= Len(s))
      <4>1. i - Len(s) \in DOMAIN t /\ (s \o t)[i] = t[i - Len(s)] BY <2>2, <3>2
      <4> QED BY <4>1 DEF Range
    <3> QED BY <3>1, <3>2
  <2>6. Range(s) \subseteq Range(s \o t) BY <2>3 DEF Range
  <2>7. Range(t) \subseteq Range(s \o t) BY <2>4 DEF Range
  <2>8. Range(s \o t) \subseteq Range(s) \cup Range(t)
    <3> SUFFICES ASSUME NEW x \in Range(s \o t) PROVE x \in Range(s) \cup Range(t) OBVIOUS
    <3>1. PICK i \in DOMAIN (s \o t) : x = (s \o t)[i] BY Zenon DEF Range
    <3> QED BY <2>5, <3>1, Zenon
  <2> QED BY <2>6, <2>7, <2>8
<1>8. Range(SetToSeq(first) \o SetToSeq(rest)) = first \cup rest BY <1>6, <1>7
<1>9. filesOf(index, Namespace, d) = SetToSeq(first) \o SetToSeq(rest) BY DEF filesOf, first, rest, in
<1> QED BY <1>1, <1>5, <1>8, <1>9

LEMMA ScanDirSearch == ASSUME SearchInv, NEW l \in Lookups, ScanDir(l) PROVE SearchInv'
<1>1. UNCHANGED <<repo, models, index, mode, step, todo, found>> /\ at[l] = "scan" /\ todo[l] # {}
  BY DEF ScanDir, storeVars
<1>2. index = Built /\ PassesOK(l) /\ WalkOK(l) /\ FoundOK(l)
  BY <1>1 DEF SearchInv, IndexOK, SearchOK, Searching
<1>3. DOMAIN at = Lookups /\ DOMAIN files = Lookups /\ repo \in Repos BY DEF SearchInv, DomainsOK
<1>4. CASE l \in ended /\ Finish(l, None) /\ UNCHANGED files BY <1>1, <1>3, <1>4, FinishRight
<1>5. CASE /\ at' = [at EXCEPT ![l] = "reading"]
           /\ files' = [files EXCEPT ![l] = filesOf(index, Namespace, nextDir(todo[l]))]
           /\ UNCHANGED out
  <2>1. DomainsOK' BY <1>1, <1>5 DEF SearchInv, DomainsOK
  <2>2. \A k \in Lookups : k # l => Same(k) BY <1>1, <1>3, <1>5 DEF Same
  <2>3. at'[l] = "reading" /\ files'[l] = filesOf(index, Namespace, nextDir(todo[l])) BY <1>3, <1>5
  <2>4. Range(files'[l]) = {f \in OpFiles : dirOf(f) = nextDir(todo[l])} BY <1>2, <1>3, <2>3, FilesOfDir
  <2>5. FilesOK(l)' BY <1>1, <2>3, <2>4, BaseSame DEF FilesOK
  <2>6. PassesOK(l)' /\ WalkOK(l)' /\ FoundOK(l)' BY <1>1, <1>2, WalkSame
  <2>7. SearchOK(l)' BY <2>3, <2>5, <2>6 DEF SearchOK, Searching
  <2>8. out'[l] = out[l] BY <1>5
  <2> QED BY <1>1, <1>2, <2>1, <2>2, <2>7, <2>8, OneSearches
<1> QED BY <1>4, <1>5 DEF ScanDir, startReaders

(* A pass that is over and found nothing has nothing. *)
LEMMA PassWithoutHit ==
  \A l \in Lookups : FoundOK(l) /\ todo[l] = {} /\ found[l] = {} => \A f \in InPass(l) : ~Hit(l, f)
<1> SUFFICES ASSUME NEW l \in Lookups, FoundOK(l), todo[l] = {}, found[l] = {}, NEW b \in Best(l)
             PROVE  FALSE
  BY NoBestNoHit
<1>1. PICK i \in Asked(l) : i \in ids(b) BY DEF Best, Hit
<1>2. i \in Spelled BY DEF Asked, Spelled
<1>3. b \in {f \in Best(l) : dirOf(f) \notin todo[l]} OBVIOUS
<1> DEFINE m == [file |-> b, id |-> i]
<1>4. m \in MatchesOf(l, {f \in Best(l) : dirOf(f) \notin todo[l]}) BY <1>1, <1>2, <1>3 DEF MatchesOf
<1> QED BY <1>4 DEF FoundOK

LEMMA NextPassSearch == ASSUME SearchInv, NEW l \in Lookups, NextPass(l) PROVE SearchInv'
<1>1. UNCHANGED <<repo, models, index, files, found>> /\ at[l] = "scan" /\ todo[l] = {}
  BY DEF NextPass, storeVars
<1>2. index = Built /\ PassesOK(l) /\ WalkOK(l) /\ FoundOK(l)
  BY <1>1 DEF SearchInv, IndexOK, SearchOK, Searching
<1>3. /\ DOMAIN at = Lookups /\ DOMAIN mode = Lookups /\ DOMAIN step = Lookups /\ DOMAIN todo = Lookups
      /\ DOMAIN files = Lookups
  BY DEF SearchInv, DomainsOK
<1>4. CASE found[l] # {} /\ at' = [at EXCEPT ![l] = "conclude"] /\ UNCHANGED <<mode, step, todo, out>>
  <2>1. DomainsOK' BY <1>1, <1>4 DEF SearchInv, DomainsOK
  <2>2. \A k \in Lookups : k # l => Same(k) BY <1>1, <1>3, <1>4 DEF Same
  <2>3. at'[l] = "conclude" BY <1>3, <1>4
  <2>4. PassesOK(l)' /\ WalkOK(l)' /\ FoundOK(l)' BY <1>1, <1>2, <1>4, WalkSame
  <2>5. FilesOK(l)' BY <1>1, <1>4, <2>3 DEF FilesOK
  <2>6. SearchOK(l)' BY <2>3, <2>4, <2>5 DEF SearchOK, Searching
  <2>7. out'[l] = out[l] BY <1>4
  <2> QED BY <1>1, <1>2, <2>1, <2>2, <2>6, <2>7, OneSearches
<1>5. ASSUME found[l] = {} PROVE \A f \in InPass(l) : ~Hit(l, f) BY <1>1, <1>2, <1>5, PassWithoutHit
<1>6. ASSUME NEW s \in {1, step[l] + 1}, UNCHANGED <<at, out>>, PassesOK(l)', found[l] = {}, DOMAIN mode' = Lookups,
             \A k \in Lookups : k # l => mode'[k] = mode[k],
             step' = [step EXCEPT ![l] = s], todo' = [todo EXCEPT ![l] = dirsFor(l, s)]
      PROVE  SearchInv'
  <2>1. DomainsOK' BY <1>1, <1>6 DEF SearchInv, DomainsOK
  <2>2. \A k \in Lookups : k # l => Same(k) BY <1>1, <1>3, <1>6 DEF Same
  <2>3. at'[l] = "scan" /\ step'[l] = s /\ todo'[l] = dirsFor(l, s) BY <1>1, <1>3, <1>6
  <2>4. dirsFor(l, step[l])' = dirsFor(l, s) BY <1>1, <2>3 DEF dirsFor, passDirs, modelDirs, dirs
  <2>5. index' = Built' BY <1>1, <1>2, BaseSame
  <2>6. WalkOK(l)' /\ FoundOK(l)' BY <1>1, <1>6, <2>3, <2>4, <2>5, PassStartsNext
  <2>7. FilesOK(l)' BY <2>3 DEF FilesOK
  <2>8. SearchOK(l)' BY <1>6, <2>3, <2>6, <2>7 DEF SearchOK, Searching
  <2>9. out'[l] = out[l] BY <1>6
  <2> QED BY <1>1, <1>2, <2>1, <2>2, <2>8, <2>9, OneSearches
<1>7. CASE /\ found[l] = {} /\ step[l] < lastStep(l)
           /\ step' = [step EXCEPT ![l] = @ + 1] /\ todo' = [todo EXCEPT ![l] = dirsFor(l, step[l] + 1)]
           /\ UNCHANGED <<at, mode, out>>
  <2>1. step'[l] = step[l] + 1 /\ mode'[l] = mode[l] BY <1>3, <1>7
  <2>2. step[l] \in 1..lastStep(l) /\ lastStep(l) \in Nat BY <1>2, TierParts DEF PassesOK
  <2>3. step[l] + 1 \in 1..lastStep(l) BY <1>7, <2>2
  <2>4. \A f : Tier(l, f) \in Nat BY TierParts
  <2>5. \A f : Hit(l, f)' <=> Hit(l, f) BY <1>1, <2>1, BaseSame DEF Hit, Asked
  <2>6. \A f \in Within(l) : Tier(l, f) < step[l] + 1 => ~Hit(l, f)
    <3> TAKE f \in Within(l)
    <3> HAVE Tier(l, f) < step[l] + 1
    <3>1. Tier(l, f) < step[l] \/ Tier(l, f) = step[l] BY <2>2, <2>4
    <3> QED BY <1>2, <1>5, <1>7, <3>1 DEF PassesOK, InPass
  <2>7. PassesOK(l)' BY <1>1, <1>2, <2>1, <2>3, <2>5, <2>6, BaseSame DEF PassesOK
  <2>8. step' = [step EXCEPT ![l] = step[l] + 1] BY <1>7
  <2> QED BY <1>3, <1>6, <1>7, <2>7, <2>8
<1>8. ASSUME found[l] = {}, ~(step[l] < lastStep(l)) PROVE \A f \in Within(l) : ~Hit(l, f)
  <2>1. step[l] = lastStep(l) BY <1>2, <1>8, TierParts DEF PassesOK
  <2> TAKE f \in Within(l)
  <2>2. Tier(l, f) < step[l] \/ Tier(l, f) = step[l] BY <2>1, TierParts
  <2> QED BY <1>2, <1>5, <1>8, <2>2 DEF PassesOK, InPass
<1>9. CASE /\ found[l] = {} /\ ~(step[l] < lastStep(l)) /\ mode[l] = "exact"
           /\ mode' = [mode EXCEPT ![l] = "folded"]
           /\ step' = [step EXCEPT ![l] = 1] /\ todo' = [todo EXCEPT ![l] = dirsFor(l, 1)]
           /\ UNCHANGED <<at, out>>
  <2>1. \A f \in Within(l) : "exact" \notin ids(f) BY <1>8, <1>9 DEF Hit, Asked
  <2>2. mode'[l] = "folded" /\ step'[l] = 1 BY <1>3, <1>9
  <2>3. PassesOK(l)' BY <1>1, <2>1, <2>2, ModeStartsNext, BaseSame
  <2> QED BY <1>3, <1>6, <1>9, <2>3
<1>10. CASE /\ found[l] = {} /\ ~(step[l] < lastStep(l)) /\ mode[l] # "exact"
            /\ Finish(l, [kind |-> "notFound"]) /\ UNCHANGED <<mode, step, todo>>
  <2>1. \A f \in Within(l) : ids(f) \cap Spelled = {} BY <1>8, <1>10 DEF Hit, Asked
  <2>2. AnswerRight(l, [kind |-> "notFound"]) BY <2>1, NothingToFind
  <2> QED BY <1>1, <1>3, <1>10, <2>2, FinishRight
<1> QED BY <1>4, <1>7, <1>9, <1>10 DEF NextPass

(* The dir that is walked next is left to walk, and none left of its group *)
(* is newer.                                                               *)
LEMMA NextDirParts ==
  \A ds : ds # {} /\ (\A d \in ds : Placed(d)) =>
    /\ nextDir(ds) \in ds /\ nextDir(ds).group = groupOf(ds)
    /\ \A o \in ds : o.group = groupOf(ds) => ~newerDir(o, nextDir(ds))
<1> TAKE ds
<1> HAVE ds # {} /\ \A d \in ds : Placed(d)
<1> DEFINE inGroup == {d \in ds : d.group = groupOf(ds)}
<1>1. groupOf(ds) \in {d.group : d \in ds} BY DEF groupOf
<1>2. inGroup # {} /\ \A d \in inGroup : Placed(d) BY <1>1
<1>3. PICK d \in inGroup : \A o \in inGroup : ~newerDir(o, d) BY <1>2, NewestDir
<1>4. d \in ds /\ d.group = groupOf(ds) /\ \A o \in ds : o.group = d.group => ~newerDir(o, d) BY <1>3
<1>5. /\ nextDir(ds) \in ds /\ nextDir(ds).group = groupOf(ds)
      /\ \A o \in ds : o.group = nextDir(ds).group => ~newerDir(o, nextDir(ds))
  BY <1>4 DEF nextDir
<1> QED BY <1>5

(* The candidates of the dirs walked, once a dir has been read: those      *)
(* found before and the hits of the dir.                                   *)
DirHits(l) == {f \in OpFiles : dirOf(f) = nextDir(todo[l]) /\ Hit(l, f)}
DirsLeft(l) ==
  IF DirHits(l) = {} \/ models[l] # None THEN todo[l] \ {nextDir(todo[l])}
  ELSE {d \in todo[l] : d.group # groupOf(todo[l])}

LEMMA WalkedOn ==
  ASSUME NEW l \in Lookups, WalkOK(l), todo[l] # {}
  PROVE  /\ DirsLeft(l) \subseteq {dirOf(f) : f \in InPass(l)}
         /\ models[l] = None =>
              \A d \in DirsLeft(l) : \A o \in InPass(l) :
                o.at.group = d.group /\ newerDir(dirOf(o), d) /\ dirOf(o) \notin DirsLeft(l) => ~Hit(l, o)
         /\ {f \in Best(l) : dirOf(f) \notin DirsLeft(l)} = {f \in Best(l) : dirOf(f) \notin todo[l]} \cup DirHits(l)
<1> DEFINE n == nextDir(todo[l])
           hitFiles == DirHits(l)
           left == DirsLeft(l)
<1>1. todo[l] \subseteq {dirOf(f) : f \in InPass(l)} BY DEF WalkOK
<1>2. InPass(l) \subseteq OpFiles BY DEF InPass, Within
<1>3. \A d \in todo[l] : Placed(d) BY <1>1, <1>2, OpFileParts
<1>4. /\ n \in todo[l] /\ n.group = groupOf(todo[l])
      /\ \A o \in todo[l] : o.group = groupOf(todo[l]) => ~newerDir(o, n)
  BY <1>3, NextDirParts
<1>5. left \subseteq todo[l] BY DEF DirsLeft
<1>6. n \notin left BY <1>4 DEF DirsLeft
<1>7. PICK p \in InPass(l) : n = dirOf(p) BY <1>1, <1>4
<1>8. \A f \in OpFiles : dirOf(f) = n => f \in InPass(l)
  <2> TAKE f \in OpFiles
  <2> HAVE dirOf(f) = n
  <2>1. p \in OpFiles BY <1>2
  <2>2. dirOf(f) = dirOf(p) BY <1>7
  <2> QED BY <1>7, <2>1, <2>2, TierOfDir DEF InPass
<1>9. \A f : f \in hitFiles <=> f \in OpFiles /\ dirOf(f) = n /\ Hit(l, f) BY DEF DirHits
<1>10. models[l] = None =>
         \A d \in todo[l] : \A o \in InPass(l) :
           o.at.group = d.group /\ newerDir(dirOf(o), d) /\ dirOf(o) \notin todo[l] => ~Hit(l, o)
  BY DEF WalkOK
<1>11. hitFiles = {} \/ models[l] # None => left = todo[l] \ {n} BY DEF DirsLeft
<1>12. ~(hitFiles = {} \/ models[l] # None) => left = {d \in todo[l] : d.group # n.group} BY <1>4 DEF DirsLeft
<1> HIDE DEF n, hitFiles, left
<1>13. ASSUME models[l] = None, NEW d \in left, NEW o \in InPass(l), o.at.group = d.group,
              newerDir(dirOf(o), d), dirOf(o) \notin left
       PROVE  ~Hit(l, o)
  <2>1. d \in todo[l] BY <1>5, <1>13
  <2>2. CASE dirOf(o) \notin todo[l] BY <1>10, <1>13, <2>1, <2>2
  <2>3. CASE dirOf(o) \in todo[l]
    <3>1. CASE hitFiles = {}
      <4>1. dirOf(o) = n BY <1>11, <1>13, <2>3, <3>1
      <4> QED BY <1>2, <1>9, <1>13, <3>1, <4>1
    <3>2. CASE hitFiles # {}
      <4>1. dirOf(o).group = n.group BY <1>12, <1>13, <2>3, <3>2
      <4>2. d.group # n.group BY <1>12, <1>13, <3>2
      <4> QED BY <1>13, <4>1, <4>2, DirParts
    <3> QED BY <3>1, <3>2
  <2> QED BY <2>2, <2>3
<1>14. ASSUME NEW f \in hitFiles PROVE f \in Best(l)
  <2>1. f \in OpFiles /\ dirOf(f) = n /\ Hit(l, f) /\ f \in InPass(l) BY <1>8, <1>9, <1>14
  <2>2. ASSUME models[l] = None, NEW o \in InPass(l), o.at.group = f.at.group, Hit(l, o), Newer(o, f) PROVE FALSE
    <3>1. dirOf(o).group = n.group /\ o.at.group = n.group /\ newerDir(dirOf(o), n)
      BY <2>1, <2>2, DirParts DEF Newer
    <3>2. CASE dirOf(o) \in todo[l] BY <1>4, <3>1, <3>2
    <3>3. CASE dirOf(o) \notin todo[l] BY <1>4, <1>10, <2>2, <3>1, <3>3
    <3> QED BY <3>2, <3>3
  <2> QED BY <2>1, <2>2 DEF Best
<1>15. ASSUME NEW f \in Best(l), dirOf(f) \notin left, dirOf(f) \in todo[l] PROVE f \in hitFiles
  <2>1. f \in InPass(l) /\ f \in OpFiles /\ Hit(l, f) BY <1>2, <1>15 DEF Best
  <2>2. CASE hitFiles = {} \/ models[l] # None
    <3>1. dirOf(f) = n BY <1>11, <1>15, <2>2
    <3> QED BY <1>9, <2>1, <3>1
  <2>3. CASE ~(hitFiles = {} \/ models[l] # None)
    <3>1. dirOf(f).group = n.group BY <1>12, <1>15, <2>3
    <3>2. PICK h \in hitFiles : TRUE BY <2>3
    <3>3. h \in InPass(l) /\ h \in OpFiles /\ dirOf(h) = n /\ Hit(l, h) BY <1>8, <1>9, <3>2
    <3>4. h.at.group = f.at.group BY <3>1, <3>3, DirParts
    <3>5. ~Newer(h, f) BY <1>15, <2>3, <3>3, <3>4 DEF Best
    <3>6. ~Newer(f, h) BY <1>4, <1>15, <3>1, <3>3 DEF Newer
    <3>7. dirOf(f) = dirOf(h) BY <2>1, <3>3, <3>4, <3>5, <3>6, NewerFiles
    <3> QED BY <1>9, <2>1, <3>3, <3>7
  <2> QED BY <2>2, <2>3
<1>16. \A f \in hitFiles : dirOf(f) \notin left BY <1>6, <1>9
<1>17. left \subseteq {dirOf(f) : f \in InPass(l)} BY <1>1, <1>5
<1>18. {f \in Best(l) : dirOf(f) \notin left} = {f \in Best(l) : dirOf(f) \notin todo[l]} \cup hitFiles
  <2>1. \A f \in Best(l) : dirOf(f) \notin left <=> dirOf(f) \notin todo[l] \/ f \in hitFiles BY <1>5, <1>15, <1>16
  <2> HIDE DEF Best
  <2>2. \A f \in hitFiles : f \in Best(l) BY <1>14
  <2> QED BY <2>1, <2>2
<1>19. models[l] = None =>
         \A d \in left : \A o \in InPass(l) :
           o.at.group = d.group /\ newerDir(dirOf(o), d) /\ dirOf(o) \notin left => ~Hit(l, o)
  BY <1>13
<1> QED BY <1>17, <1>18, <1>19 DEF left, hitFiles

LEMMA ScannedSearch == ASSUME SearchInv, NEW l \in Lookups, Scanned(l) PROVE SearchInv'
<1>1. UNCHANGED <<repo, models, index, mode, step>> /\ at[l] = "reading" /\ stopReaders(l) BY DEF Scanned, storeVars
<1>2. index = Built /\ PassesOK(l) /\ WalkOK(l) /\ FoundOK(l) /\ FilesOK(l)
  BY <1>1 DEF SearchInv, IndexOK, SearchOK, Searching
<1>3. /\ DOMAIN at = Lookups /\ DOMAIN found = Lookups /\ DOMAIN todo = Lookups /\ DOMAIN files = Lookups
  BY DEF SearchInv, DomainsOK
<1>4. DOMAIN files' = Lookups /\ \A k \in Lookups : k # l => files'[k] = files[k] BY <1>1, <1>3 DEF stopReaders
<1>5. CASE Finish(l, [kind |-> "failed", why |-> firstError(l)]) /\ UNCHANGED <<todo, found>>
  <2>1. AnswerRight(l, [kind |-> "failed", why |-> firstError(l)]) BY NoAnswerWrong
  <2> QED BY <1>1, <1>4, <1>5, <2>1, FinishRight
<1> DEFINE kept == {m \in [file : Range(files[l]), id : Spelled] : m.id \in matches(l, m.file)}
<1>6. CASE /\ found' = [found EXCEPT ![l] = @ \cup kept]
           /\ todo' = [todo EXCEPT ![l] =
                IF kept = {} \/ models[l] # None THEN @ \ {nextDir(@)} ELSE {d \in @ : d.group # groupOf(@)}]
           /\ at' = [at EXCEPT ![l] = "scan"] /\ UNCHANGED out
  <2> DEFINE hitFiles == DirHits(l)
             left == DirsLeft(l)
             before == {f \in Best(l) : dirOf(f) \notin todo[l]}
  <2>1. todo[l] # {} /\ Range(files[l]) = {f \in OpFiles : dirOf(f) = nextDir(todo[l])}
    BY <1>1, <1>2 DEF FilesOK
  <2>2. \A f : matches(l, f) = ids(f) \cap Asked(l) BY DEF matches, Asked
  <2>3. \A f : f \in DirHits(l) <=> f \in Range(files[l]) /\ ids(f) \cap Asked(l) # {} BY <2>1 DEF Hit, DirHits
  <2>4. kept = MatchesOf(l, DirHits(l)) BY <2>2, <2>3 DEF MatchesOf
  <2>5. kept = {} <=> DirHits(l) = {}
    <3>1. ASSUME NEW f \in DirHits(l) PROVE kept # {}
      <4>1. PICK i \in Asked(l) : i \in ids(f) BY <3>1 DEF DirHits, Hit
      <4>2. i \in Spelled BY DEF Asked, Spelled
      <4> HIDE DEF kept
      <4>3. [file |-> f, id |-> i] \in MatchesOf(l, DirHits(l)) BY <3>1, <4>1, <4>2 DEF MatchesOf
      <4> QED BY <2>4, <4>3
    <3>2. ASSUME DirHits(l) = {} PROVE kept = {}
      <4> HIDE DEF kept
      <4> QED BY <2>4, <3>2 DEF MatchesOf
    <3> QED BY <3>1, <3>2
  <2>6. left = IF kept = {} \/ models[l] # None THEN todo[l] \ {nextDir(todo[l])}
               ELSE {d \in todo[l] : d.group # groupOf(todo[l])}
    BY <2>5 DEF DirsLeft
  <2> HIDE DEF kept
  <2>7. todo' = [todo EXCEPT ![l] = left] BY <1>3, <1>6, <2>6
  <2>8. /\ left \subseteq {dirOf(f) : f \in InPass(l)}
        /\ models[l] = None =>
             \A d \in left : \A o \in InPass(l) :
               o.at.group = d.group /\ newerDir(dirOf(o), d) /\ dirOf(o) \notin left => ~Hit(l, o)
        /\ {f \in Best(l) : dirOf(f) \notin left} = before \cup hitFiles
    BY <1>2, <2>1, WalkedOn
  <2> HIDE DEF left, hitFiles
  <2>9. /\ at'[l] = "scan" /\ todo'[l] = left /\ found'[l] = found[l] \cup kept
        /\ mode'[l] = mode[l] /\ step'[l] = step[l]
    BY <1>1, <1>3, <1>6, <2>7
  <2>10. /\ Asked(l)' = Asked(l) /\ InPass(l)' = InPass(l) /\ Best(l)' = Best(l)
         /\ \A f : Hit(l, f)' <=> Hit(l, f)
         /\ PassesOK(l)' <=> PassesOK(l)
    BY <1>1, <2>9, PassSame
  <2>11. WalkOK(l)' BY <1>1, <2>8, <2>9, <2>10 DEF WalkOK
  <2>12. MatchesOf(l, before \cup hitFiles) = MatchesOf(l, before) \cup MatchesOf(l, hitFiles)
    <3> HIDE DEF before
    <3> QED BY DEF MatchesOf
  <2>13. found'[l] = MatchesOf(l, {f \in Best(l) : dirOf(f) \notin left})
    BY <1>2, <2>4, <2>8, <2>9, <2>12 DEF FoundOK, hitFiles
  <2>14. FoundOK(l)'
    <3>1. {f \in Best(l) : dirOf(f) \notin todo[l]}' = {f \in Best(l) : dirOf(f) \notin left} BY <2>9, <2>10
    <3>2. MatchesOf(l, {f \in Best(l) : dirOf(f) \notin todo[l]})' = MatchesOf(l, {f \in Best(l) : dirOf(f) \notin left})
      BY <1>1, <2>10, <3>1, BaseSame DEF MatchesOf
    <3> QED BY <2>13, <3>2 DEF FoundOK
  <2>15. FilesOK(l)' BY <2>9 DEF FilesOK
  <2>16. SearchOK(l)' BY <1>2, <2>9, <2>10, <2>11, <2>14, <2>15 DEF SearchOK, Searching
  <2>17. DomainsOK' BY <1>1, <1>4, <1>6, <2>7 DEF SearchInv, DomainsOK
  <2>18. \A k \in Lookups : k # l => Same(k) BY <1>1, <1>3, <1>4, <1>6, <2>7 DEF Same
  <2>19. out'[l] = out[l] BY <1>6
  <2> QED BY <1>1, <1>2, <2>16, <2>17, <2>18, <2>19, OneSearches
<1> QED BY <1>5, <1>6 DEF Scanned

(* A search that has found something knows all its candidates.            *)
LEMMA Concluding ==
  \A l \in Lookups : repo \in Repos /\ PassesOK(l) /\ FoundOK(l) /\ todo[l] = {} /\ found[l] # {} =>
    /\ Best(l) # {} /\ IsFiniteSet(Best(l)) /\ Best(l) \subseteq OpFiles
    /\ {m.file : m \in found[l]} = Best(l)
    /\ Wanted(l) = Asked(l) /\ Candidates(l, Wanted(l)) = Best(l)
    /\ found[l] = MatchesOf(l, Best(l))
<1> SUFFICES ASSUME NEW l \in Lookups, repo \in Repos, PassesOK(l), FoundOK(l), todo[l] = {}, found[l] # {}
             PROVE  /\ Best(l) # {} /\ IsFiniteSet(Best(l)) /\ Best(l) \subseteq OpFiles
                    /\ {m.file : m \in found[l]} = Best(l)
                    /\ Wanted(l) = Asked(l) /\ Candidates(l, Wanted(l)) = Best(l)
                    /\ found[l] = MatchesOf(l, Best(l))
  OBVIOUS
<1>1. {f \in Best(l) : dirOf(f) \notin todo[l]} = Best(l) OBVIOUS
<1>2. found[l] = MatchesOf(l, Best(l)) BY <1>1 DEF FoundOK
<1>3. Best(l) # {} BY <1>2 DEF MatchesOf
<1>4. Best(l) \subseteq OpFiles BY DEF Best, InPass, Within
<1>5. IsFiniteSet(Best(l)) BY <1>4, OpFilesFinite, FS_Subset
<1>6. ASSUME NEW b \in Best(l) PROVE b \in {m.file : m \in found[l]}
  <2>1. PICK i \in Asked(l) : i \in ids(b) BY DEF Best, Hit
  <2>2. i \in Spelled BY DEF Asked, Spelled
  <2>3. PICK m : m = [file |-> b, id |-> i] OBVIOUS
  <2>4. m \in found[l] /\ m.file = b BY <1>2, <2>1, <2>2, <2>3 DEF MatchesOf
  <2> QED BY <2>4
<1>7. \A m \in found[l] : m.file \in Best(l) BY <1>2 DEF MatchesOf
<1>8. {m.file : m \in found[l]} = Best(l) BY <1>6, <1>7
<1>9. Wanted(l) = Asked(l) /\ Candidates(l, Wanted(l)) = Best(l) BY <1>3, BestIsCandidates
<1> QED BY <1>2, <1>3, <1>4, <1>5, <1>8, <1>9

(* A finite set that is not empty has more than one element or just one.   *)
LEMMA OneOrMoreOf ==
  \A S : IsFiniteSet(S) /\ S # {} => Cardinality(S) \in Nat /\ (Cardinality(S) > 1 \/ \E x : S = {x})
<1> TAKE S
<1> HAVE IsFiniteSet(S) /\ S # {}
<1>1. Cardinality(S) \in Nat /\ Cardinality(S) # 0 BY FS_CardinalityType, FS_EmptySet
<1>2. Cardinality(S) = 1 => \E x : S = {x} BY FS_Singleton
<1> QED BY <1>1, <1>2

LEMMA ConcludeSearch == ASSUME SearchInv, NEW l \in Lookups, Conclude(l) PROVE SearchInv'
<1>1. UNCHANGED <<repo, models, index, mode, step, todo, found>> /\ at[l] = "conclude" BY DEF Conclude, storeVars
<1>2. index = Built /\ PassesOK(l) /\ WalkOK(l) /\ FoundOK(l) /\ todo[l] = {} /\ found[l] # {}
  BY <1>1 DEF SearchInv, IndexOK, SearchOK, Searching, FilesOK
<1>3. DOMAIN at = Lookups /\ DOMAIN files = Lookups /\ repo \in Repos BY DEF SearchInv, DomainsOK
<1>4. /\ Best(l) # {} /\ IsFiniteSet(Best(l)) /\ Best(l) \subseteq OpFiles
      /\ {m.file : m \in found[l]} = Best(l)
      /\ Wanted(l) = Asked(l) /\ Candidates(l, Wanted(l)) = Best(l)
      /\ found[l] = MatchesOf(l, Best(l))
  BY <1>2, <1>3, Concluding
<1>5. CASE /\ Cardinality({m.id : m \in found[l]}) > 1 \/ (models[l] = None /\ step[l] = 3)
           /\ Finish(l, [kind |-> "ambiguous"]) /\ UNCHANGED files
  <2>1. CASE Cardinality(Best(l)) > 1
    <3>1. AnswerRight(l, [kind |-> "ambiguous"]) BY <1>4, <2>1 DEF AnswerRight
    <3> QED BY <1>1, <1>3, <1>5, <3>1, FinishRight
  <2>2. CASE ~(Cardinality(Best(l)) > 1)
    <3>1. PICK f : Best(l) = {f} BY <1>4, <2>2, OneOrMoreOf
    <3>2. CASE models[l] = None /\ step[l] = 3
      <4>1. f \in InPass(l) BY <3>1 DEF Best
      <4>2. f.at.kind = "preview" BY <3>2, <4>1, TierParts DEF InPass
      <4>3. AnswerRight(l, [kind |-> "ambiguous"]) BY <1>4, <3>1, <4>2 DEF AnswerRight
      <4> QED BY <1>1, <1>3, <1>5, <4>3, FinishRight
    <3>3. CASE Cardinality({m.id : m \in found[l]}) > 1
      <4>1. \A m \in found[l] : m.id \in ids(f) \cap Asked(l) BY <1>4, <3>1 DEF MatchesOf
      <4>2. \A i \in ids(f) \cap Asked(l) : i \in {m.id : m \in found[l]}
        <5> TAKE i \in ids(f) \cap Asked(l)
        <5>1. i \in Spelled BY DEF Asked, Spelled
        <5>2. PICK m : m = [file |-> f, id |-> i] OBVIOUS
        <5>3. m \in found[l] /\ m.id = i BY <1>4, <3>1, <5>1, <5>2 DEF MatchesOf
        <5> QED BY <5>3
      <4>3. {m.id : m \in found[l]} = ids(f) \cap Asked(l) BY <4>1, <4>2
      <4>4. f \in Candidates(l, Wanted(l)) /\ Cardinality(ids(f) \cap Wanted(l)) > 1 BY <1>4, <3>1, <3>3, <4>3
      <4>5. AnswerRight(l, [kind |-> "ambiguous"]) BY <4>4 DEF AnswerRight
      <4> QED BY <1>1, <1>3, <1>5, <4>5, FinishRight
    <3> QED BY <1>5, <3>2, <3>3
  <2> QED BY <2>1, <2>2
<1>6. CASE /\ at' = [at EXCEPT ![l] = "rendering"] /\ UNCHANGED out
           /\ files' = [files EXCEPT ![l] = SetToSeq({m.file : m \in found[l]})]
  <2>1. DomainsOK' BY <1>1, <1>6 DEF SearchInv, DomainsOK
  <2>2. \A k \in Lookups : k # l => Same(k) BY <1>1, <1>3, <1>6 DEF Same
  <2>3. at'[l] = "rendering" /\ files'[l] = SetToSeq({m.file : m \in found[l]}) BY <1>3, <1>6
  <2>4. Range(files'[l]) = Best(l) BY <1>4, <2>3, SetToSeqAll
  <2>5. Best(l)' = Best(l) BY <1>1, PassSame
  <2>6. FilesOK(l)' BY <1>1, <1>2, <2>3, <2>4, <2>5 DEF FilesOK
  <2>7. PassesOK(l)' /\ WalkOK(l)' /\ FoundOK(l)' BY <1>1, <1>2, WalkSame
  <2>8. SearchOK(l)' BY <2>3, <2>6, <2>7 DEF SearchOK, Searching
  <2>9. out'[l] = out[l] BY <1>6
  <2> QED BY <1>1, <1>2, <2>1, <2>2, <2>8, <2>9, OneSearches
<1> QED BY <1>5, <1>6 DEF Conclude, startReaders

LEMMA RenderedSearch == ASSUME SearchInv, NEW l \in Lookups, Rendered(l) PROVE SearchInv'
<1>1. UNCHANGED <<repo, models, index, mode, step, todo, found>> /\ at[l] = "rendering" /\ stopReaders(l)
  BY DEF Rendered, storeVars
<1>2. PassesOK(l) /\ FoundOK(l) /\ todo[l] = {} /\ found[l] # {} /\ Range(files[l]) = Best(l)
  BY <1>1 DEF SearchInv, SearchOK, Searching, FilesOK
<1>3. DOMAIN files = Lookups /\ repo \in Repos BY DEF SearchInv, DomainsOK
<1>4. DOMAIN files' = Lookups /\ \A k \in Lookups : k # l => files'[k] = files[k] BY <1>1, <1>3 DEF stopReaders
<1> DEFINE C == Candidates(l, Wanted(l))
           R == {repo.request[f.blob] : f \in Range(files[l])}
           newest == CHOOSE f \in Range(files[l]) : \A o \in Range(files[l]) \ {f} : ~wins(o, f)
<1>5. C # {} /\ IsFiniteSet(C) /\ C \subseteq OpFiles /\ Range(files[l]) = C BY <1>2, <1>3, Concluding
<1>6. R = {repo.request[f.blob] : f \in C} BY <1>5
<1> HIDE DEF C
<1>7. R # {} /\ IsFiniteSet(R) /\ Cardinality(R) <= Cardinality(C)
  <2> DEFINE g == [f \in C |-> repo.request[f.blob]]
  <2>1. g \in Surjection(C, R) BY <1>6 DEF Surjection
  <2>2. R # {} BY <1>5, <1>6
  <2> HIDE DEF g, R
  <2> QED BY <1>5, <2>1, <2>2, FS_Surjection
<1>8. Cardinality(R) \in Nat /\ Cardinality(C) \in Nat BY <1>5, <1>7, FS_CardinalityType
<1>9. CASE Finish(l, [kind |-> "failed", why |-> firstError(l)])
  <2>1. AnswerRight(l, [kind |-> "failed", why |-> firstError(l)]) BY NoAnswerWrong
  <2> QED BY <1>1, <1>4, <1>9, <2>1, FinishRight
<1>10. CASE Cardinality(R) > 1 /\ Finish(l, [kind |-> "ambiguous"])
  <2>1. Cardinality(C) > 1 BY <1>7, <1>8, <1>10
  <2>2. AnswerRight(l, [kind |-> "ambiguous"]) BY <2>1 DEF AnswerRight, C
  <2> QED BY <1>1, <1>4, <1>10, <2>2, FinishRight
<1>11. CASE ~(Cardinality(R) > 1) /\ Finish(l, [kind |-> "found", file |-> newest])
  <2>1. \E f \in C : \A o \in C \ {f} : ~wins(o, f)
    <3>1. PICK f \in C : \A o \in C : ~Newer(o, f) BY <1>5, NewestFile
    <3> QED BY <3>1 DEF Newer, wins
  <2>2. newest \in C /\ \A o \in C \ {newest} : ~wins(o, newest) BY <1>5, <2>1
  <2>3. \A o \in C : ~Newer(o, newest) BY <1>5, <2>2, NewerFiles DEF Newer, wins
  <2>4. Cardinality(R) = 1
    <3> HIDE DEF R
    <3>1. Cardinality(R) # 0 BY <1>7, FS_EmptySet
    <3> QED BY <1>8, <1>11, <3>1
  <2>5. Cardinality({repo.request[f.blob] : f \in C}) = 1 BY <1>6, <2>4
  <2> HIDE DEF newest
  <2>6. AnswerRight(l, [kind |-> "found", file |-> newest]) BY <2>2, <2>3, <2>5 DEF AnswerRight, C
  <2> QED BY <1>1, <1>4, <1>11, <2>6, FinishRight
<1> QED BY <1>9, <1>10, <1>11 DEF Rendered

LEMMA SearchStart == SpecInit => SearchInv
<1> SUFFICES ASSUME SpecInit PROVE SearchInv OBVIOUS
<1>1. DomainsOK BY DEF SpecInit, DomainsOK
<1>2. \A l \in Lookups : at[l] \in {"new", "done"} /\ found[l] = {} /\ out[l] = None BY DEF SpecInit
<1>3. IndexOK BY <1>2 DEF SpecInit, IndexOK, Searching
<1>4. \A l \in Lookups : SearchOK(l) BY <1>2 DEF SearchOK, Searching
<1>5. SearchRight BY <1>2 DEF SearchRight
<1> QED BY <1>1, <1>3, <1>4, <1>5 DEF SearchInv

(* Readers change nothing of the search.                                   *)
LEMMA ReadersSearchNot ==
  ASSUME NEW r \in Readers,
         \/ Schedule(r) \/ Summary(r) \/ File(r) \/ Download(r) \/ Recheck(r) \/ Fetched(r)
         \/ NoteBody(r) \/ Joined(r) \/ Parse(r) \/ NoteSummary(r)
  PROVE  UNCHANGED <<repo, models, index, at, mode, step, todo, files, found, out>>
<1>1. CASE Schedule(r) BY <1>1 DEF Schedule, storeVars, searchVars
<1>2. CASE Summary(r) BY <1>2 DEF Summary, searchVars
<1>3. CASE File(r) BY <1>3 DEF File, searchVars
<1>4. CASE Download(r) BY <1>4 DEF Download, searchVars
<1>5. CASE Recheck(r) BY <1>5 DEF Recheck, searchVars
<1>6. CASE Fetched(r) BY <1>6 DEF Fetched, searchVars
<1>7. CASE NoteBody(r) BY <1>7 DEF NoteBody, searchVars
<1>8. CASE Joined(r) BY <1>8 DEF Joined, storeVars, searchVars
<1>9. CASE Parse(r) BY <1>9 DEF Parse
<1>10. CASE NoteSummary(r) BY <1>10 DEF NoteSummary, searchVars
<1> QED BY <1>1, <1>2, <1>3, <1>4, <1>5, <1>6, <1>7, <1>8, <1>9, <1>10

LEMMA SearchStep == SearchInv /\ [SpecNext]_specVars => SearchInv'
<1> SUFFICES ASSUME SearchInv, [SpecNext]_specVars PROVE SearchInv' OBVIOUS
<1>1. CASE UNCHANGED specVars
  <2>1. UNCHANGED <<repo, models, index, at, mode, step, todo, files, found, out>>
    BY <1>1 DEF specVars, storeVars, searchVars
  <2> QED BY <2>1, SearchQuiet
<1>2. CASE Loaded BY <1>2, LoadedSearch
<1>3. ASSUME NEW l \in Lookups,
             \/ End(l) \/ Index(l) \/ LeaveLoad(l) \/ Plan(l) \/ ScanDir(l) \/ NextPass(l)
             \/ Scanned(l) \/ Conclude(l) \/ Rendered(l)
      PROVE  SearchInv'
  <2>1. CASE End(l)
    <3>1. UNCHANGED <<repo, models, index, at, mode, step, todo, files, found, out>> BY <2>1 DEF End, storeVars
    <3> QED BY <3>1, SearchQuiet
  <2> QED BY <1>3, <2>1, IndexSearch, LeaveLoadSearch, PlanSearch, ScanDirSearch, NextPassSearch, ScannedSearch,
             ConcludeSearch, RenderedSearch
<1>4. ASSUME NEW r \in Readers,
             \/ Schedule(r) \/ Summary(r) \/ File(r) \/ Download(r) \/ Recheck(r) \/ Fetched(r)
             \/ NoteBody(r) \/ Joined(r) \/ Parse(r) \/ NoteSummary(r)
      PROVE  SearchInv'
  BY <1>4, ReadersSearchNot, SearchQuiet
<1> QED BY <1>1, <1>2, <1>3, <1>4 DEF SpecNext

(* Docs.Reference answers from the whole repository: however lookups       *)
(* share the store, what it answers does not depend on what was cached or  *)
(* on who fetched it.  It reports missing only what no dir defines, takes  *)
(* a spelling only when no dir has the id, a preview only when no stable   *)
(* dir has it, and renders the newest version of one and the same request. *)
THEOREM SearchFindsRight == SpecSpec => []SearchRight
<1>1. SearchInv => SearchRight BY DEF SearchInv
<1> QED BY <1>1, SearchStart, SearchStep, PTL DEF SpecSpec
-----------------------------------------------------------------------------
(* The lookups of Google APIs.  The document of an entry, at its URL.      *)
Own(it) == DistillDoc(Documents[it])
Ids == {<<>>} \cup UNION {Own(it).methods : it \in Directory}
Results ==
  [outcome : {"none", "unavailable", "ambiguous", "not found", "found"},
   doc : {NoDoc} \cup {Own(it) : it \in Directory}, id : Ids, didYouMean : Ids]
Runs == [at : {"idle", "load", "disk", "fetch", "looked up"}, todo : SUBSET Directory,
         docs : SUBSET {Own(it) : it \in Directory}, result : Results, first : Results]

GcpTypeOK ==
  /\ gcpAsk \in GcpQueries
  /\ DOMAIN gcpFile = Stems /\ DOMAIN gcpMem = Directory
  /\ gcpRun \in [GcpCalls -> Runs] /\ gcpAnswer \in [GcpCalls -> Results]

(* A file has the document of an entry that admits it, not always of the   *)
(* one that reads it; memory has the entry's own.                          *)
Admits(it) == admitDoc(it, Own(it))
StoresOK ==
  /\ \A s \in Stems : gcpFile[s] # NoDoc => \E it \in Directory : Admits(it) /\ gcpFile[s].doc = Own(it)
  /\ \A it \in Directory : gcpMem[it] # NoDoc => Admits(it) /\ gcpMem[it] = Own(it)

(* What the directory's documents say of the operation of q.               *)
Right(q, r) ==
  /\ r.outcome = "found" =>
       /\ Len(q.operation) = 1
       /\ \E d \in Defined(q, Last(q.operation)) :
            /\ r.doc = Own(d[1]) /\ r.id = d[2]
            /\ \A e \in Defined(q, Last(q.operation)) \ {d} : d[2] = Last(q.operation) /\ e[2] # Last(q.operation)
  /\ r.outcome = "not found" /\ Len(q.operation) = 1 => Defined(q, Last(q.operation)) = {}
  /\ r.outcome # "found" => r.id = <<>>
  /\ r.didYouMean = <<>> /\ r.outcome # "none"

(* A run that loads has the documents of the versions it has done with.    *)
Loading(q, run) ==
  \E api \in apiOf(q) :
    /\ apiOf(q) = {api} /\ run.todo \subseteq selectVersions(api, q.model)
    /\ run.docs = {Own(it) : it \in selectVersions(api, q.model) \ run.todo}
    /\ \A it \in selectVersions(api, q.model) \ run.todo : Admits(it)

RunRight(l, run) ==
  /\ run.first # Unanswered =>
       run.first.outcome = "not found" /\ run.first.didYouMean = <<>> /\ Len(gcpAsk[l].operation) > 1
  /\ run.at \in {"load", "disk", "fetch"} => Loading(sought(l, run), run)
  /\ run.at \in {"disk", "fetch"} => run.todo # {}
  /\ run.at = "looked up" => Right(sought(l, run), run.result)

GcpInv == GcpTypeOK /\ StoresOK /\ (\A l \in GcpCalls : RunRight(l, gcpRun[l])) /\ AnswerOfItsDocument
-----------------------------------------------------------------------------
(* There is a lowest version among the ones to load.                       *)
LEMMA LowestIsThere ==
  ASSUME NEW items, items # {}
  PROVE  lowest(items) \in items
<1> DEFINE positions == {i \in DOMAIN VersionOrder : \E it \in items : VersionOrder[i] = it.version}
<1>1. \E it \in items : \A other \in items : ~compareVersions(other, it)
  <2>1. CASE positions = {}
    <3>1. PICK it \in items : TRUE OBVIOUS
    <3>2. \A other \in items : ~compareVersions(other, it) BY <2>1, <3>1 DEF compareVersions
    <3> QED BY <3>1, <3>2
  <2>2. CASE positions # {}
    <3>1. DOMAIN VersionOrder = 1..Len(VersionOrder) /\ Len(VersionOrder) \in Nat
      BY VersionOrderAssumption
    <3>2. positions \subseteq Nat BY <3>1
    <3>3. PICK i \in positions : \A j \in positions : ~(<<j, i>> \in OpToRel(<, Nat))
      BY <2>2, <3>2, WFMin, NatLessThanWellFounded
    <3>4. \A j \in positions : ~(j < i)
      BY <3>2, <3>3 DEF OpToRel
    <3>5. PICK it \in items : VersionOrder[i] = it.version OBVIOUS
    <3>6. ASSUME NEW other \in items, compareVersions(other, it) PROVE FALSE
      <4>1. PICK m \in DOMAIN VersionOrder, n \in DOMAIN VersionOrder :
              VersionOrder[m] = other.version /\ VersionOrder[n] = it.version /\ m < n
        BY <3>6 DEF compareVersions
      <4>2. n = i BY <3>5, <4>1, VersionOrderAssumption DEF IsInjective
      <4>3. m \in positions BY <4>1
      <4> QED BY <3>4, <4>1, <4>2, <4>3
    <3> QED BY <3>5, <3>6
  <2> QED BY <2>1, <2>2
<1> QED BY <1>1 DEF lowest

LEMMA OwnParts ==
  ASSUME NEW it
  PROVE  /\ Own(it).name = Documents[it].name /\ Own(it).version = Documents[it].version
         /\ Own(it).methods = distillResource(Documents[it])
BY DEF Own, DistillDoc

(* The document an entry admits belongs to no other entry.                 *)
LEMMA OwnersDiffer ==
  ASSUME NEW a \in Directory, NEW b \in Directory, Admits(a), admitDoc(b, Own(a))
  PROVE  a = b
BY DirectoryAssumption DEF Admits, admitDoc

LEMMA ResultParts ==
  ASSUME NEW outcome, NEW doc, NEW id
  PROVE  /\ Result(outcome, doc, id).outcome = outcome /\ Result(outcome, doc, id).doc = doc
         /\ Result(outcome, doc, id).id = id /\ Result(outcome, doc, id).didYouMean = <<>>
BY DEF Result

LEMMA NoResults ==
  /\ NotFound \in Results /\ NotFound.outcome = "not found" /\ NotFound.id = <<>> /\ NotFound.didYouMean = <<>>
  /\ Ambiguous \in Results /\ Ambiguous.outcome = "ambiguous" /\ Ambiguous.id = <<>> /\ Ambiguous.didYouMean = <<>>
  /\ NotAvailable \in Results /\ NotAvailable.outcome = "unavailable"
  /\ NotAvailable.id = <<>> /\ NotAvailable.didYouMean = <<>>
  /\ Unanswered \in Results /\ Unanswered.outcome = "none" /\ Unanswered.id = <<>> /\ Unanswered.didYouMean = <<>>
BY DEF NotFound, Ambiguous, NotAvailable, Unanswered, Result, Results, Ids

(* The entries a lookup searches define what Defined says they do.         *)
LEMMA DefinedAre ==
  ASSUME NEW q, NEW api, apiOf(q) = {api}, \A i \in selectVersions(api, q.model) : Admits(i)
  PROVE  \A id, it, m : <<it, m>> \in Defined(q, id) <=>
           it \in selectVersions(api, q.model) /\ m \in Own(it).methods /\ fold(m) = fold(id)
<1> TAKE id, it, m
<1> DEFINE d == <<it, m>>
<1>1. d[1] = it /\ d[2] = m OBVIOUS
<1>2. d \in Directory \X UNION {distillResource(Documents[i]) : i \in Directory} <=>
        it \in Directory /\ m \in UNION {distillResource(Documents[i]) : i \in Directory}
  OBVIOUS
<1> HIDE DEF d
<1>3. it \in selectVersions(api, q.model) <=>
        /\ it \in Directory /\ it.name = api
        /\ IF q.model = <<>> THEN it.version \in Range(VersionOrder) ELSE it.version = q.model
  BY DEF selectVersions, itemsOf
<1>4. ({it.name} = apiOf(q)) <=> it.name = api
  OBVIOUS
<1>5. it \in selectVersions(api, q.model) =>
        Documents[it].name = it.name /\ Documents[it].version = it.version
  BY OwnParts DEF Admits, admitDoc
<1>6. d \in Defined(q, id) <=>
        /\ d \in Directory \X UNION {distillResource(Documents[i]) : i \in Directory}
        /\ {it.name} = apiOf(q)
        /\ IF q.model = <<>> THEN it.version \in Range(VersionOrder) ELSE it.version = q.model
        /\ Documents[it].name = it.name /\ Documents[it].version = it.version
        /\ m \in distillResource(Documents[it]) /\ fold(m) = fold(id)
  BY <1>1 DEF Defined
<1>7. d \in Defined(q, id) <=>
        it \in selectVersions(api, q.model) /\ m \in Own(it).methods /\ fold(m) = fold(id)
  BY <1>2, <1>3, <1>4, <1>5, <1>6, OwnParts, Zenon
<1> QED BY <1>7 DEF d

LEMMA DefinedPairs == \A q, id : \A d \in Defined(q, id) : d = <<d[1], d[2]>>
BY DEF Defined

LEMMA OneOrMore == \A n \in Nat \ {0} : (n = 1 <=> ~(n > 1))
OBVIOUS

LEMMA PickRight ==
  ASSUME NEW q, NEW api \in apiOf(q), apiOf(q) = {api},
         \A it \in selectVersions(api, q.model) : Admits(it), Len(q.operation) \in Nat \ {0}
  PROVE  LET r == pickMethod({Own(it) : it \in selectVersions(api, q.model)}, q.operation)
         IN  r \in Results /\ Right(q, r)
<1> DEFINE all == selectVersions(api, q.model)
           docs == {Own(it) : it \in all}
           id == q.operation[1]
           defines == {h \in docs \X UNION {d.methods : d \in docs} : h[2] \in h[1].methods}
           exact == {h \in defines : h[2] = id}
           folded == {h \in defines : fold(h[2]) = fold(id)}
           picks == IF exact # {} THEN exact ELSE folded
           hit == CHOOSE h \in picks : TRUE
           r == pickMethod(docs, q.operation)
<1>1. r = IF Len(q.operation) > 1 \/ picks = {} THEN NotFound
          ELSE IF several(picks) THEN Ambiguous ELSE Result("found", hit[1], hit[2])
  BY DEF pickMethod
<1> SUFFICES r \in Results /\ Right(q, r)
  OBVIOUS
<1> HIDE DEF r
<1>2. all \subseteq Directory
  BY DEF selectVersions, itemsOf
<1>3. \A it \in all : \A m \in Own(it).methods : <<Own(it), m>> \in defines
  OBVIOUS
<1>4. \A h \in defines : \E it \in all : h = <<Own(it), h[2]>> /\ h[2] \in Own(it).methods
  OBVIOUS
<1> HIDE DEF defines
<1>5. \A h \in picks : h \in defines /\ fold(h[2]) = fold(id)
  OBVIOUS
<1>6. Len(q.operation) = 1 => Last(q.operation) = id
  BY DEF Last
<1>7. \A it, m : <<it, m>> \in Defined(q, id) <=> it \in all /\ m \in Own(it).methods /\ fold(m) = fold(id)
  <2>1. \A i \in selectVersions(api, q.model) : Admits(i) OBVIOUS
  <2>2. \A x, it, m : <<it, m>> \in Defined(q, x) <=>
           it \in selectVersions(api, q.model) /\ m \in Own(it).methods /\ fold(m) = fold(x)
    BY <2>1, DefinedAre
  <2> QED BY <2>2
<1>8. CASE Len(q.operation) > 1
  <2>1. r = NotFound BY <1>1, <1>8
  <2>2. Len(q.operation) # 1 BY <1>8, OneOrMore, Zenon
  <2> QED BY <2>1, <2>2, NoResults DEF Right
<1>9. CASE ~(Len(q.operation) > 1) /\ picks = {}
  <2>1. r = NotFound BY <1>1, <1>9
  <2>2. folded = {} BY <1>9
  <2>3. ASSUME NEW d \in Defined(q, id) PROVE FALSE
    <3>1. d[1] \in all /\ d[2] \in Own(d[1]).methods /\ fold(d[2]) = fold(id)
      BY <1>7, DefinedPairs
    <3>2. <<Own(d[1]), d[2]>> \in folded BY <1>3, <3>1
    <3> QED BY <2>2, <3>2
  <2> QED BY <1>6, <2>1, <2>3, NoResults DEF Right
<1>10. CASE picks # {} /\ several(picks) /\ ~(Len(q.operation) > 1)
  <2>1. r = Ambiguous BY <1>1, <1>10
  <2> QED BY <2>1, NoResults DEF Right
<1>11. CASE picks # {} /\ ~several(picks) /\ ~(Len(q.operation) > 1)
  <2>1. r = Result("found", hit[1], hit[2]) BY <1>1, <1>11
  <2>2. hit \in picks /\ \A h \in picks : h = hit
    BY <1>11 DEF several
  <2> HIDE DEF hit, picks
  <2>3. PICK it \in all : hit = <<Own(it), hit[2]>> /\ hit[2] \in Own(it).methods
    BY <1>4, <1>5, <2>2
  <2>4. hit[1] = Own(it) BY <2>3
  <2>5. Len(q.operation) = 1 /\ Last(q.operation) = id
    BY <1>6, <1>11, OneOrMore, Zenon
  <2>6. <<it, hit[2]>> \in Defined(q, id)
    BY <1>5, <1>7, <2>2, <2>3
  <2>7. ASSUME NEW e \in Defined(q, id), e # <<it, hit[2]>> PROVE hit[2] = id /\ e[2] # id
    <3>1. e[1] \in all /\ e[2] \in Own(e[1]).methods /\ fold(e[2]) = fold(id) /\ e = <<e[1], e[2]>>
      BY <1>7, DefinedPairs
    <3>2. <<Own(e[1]), e[2]>> \in defines BY <1>3, <3>1
    <3>3. ASSUME <<Own(e[1]), e[2]>> = hit PROVE FALSE
      <4>1. Own(e[1]) = Own(it) /\ e[2] = hit[2] BY <2>4, <3>3
      <4>2. e[1] = it
        BY <1>2, <3>1, <4>1, OwnersDiffer DEF Admits
      <4> QED BY <2>7, <3>1, <4>1, <4>2
    <3>4. exact # {}
      <4> SUFFICES ASSUME exact = {} PROVE FALSE OBVIOUS
      <4>1. <<Own(e[1]), e[2]>> \in folded BY <3>1, <3>2
      <4>2. <<Own(e[1]), e[2]>> \in picks BY <4>1 DEF picks
      <4> QED BY <2>2, <3>3, <4>2
    <3>5. picks = exact BY <3>4 DEF picks
    <3>6. hit[2] = id BY <2>2, <3>5
    <3>7. ASSUME e[2] = id PROVE FALSE
      <4>1. <<Own(e[1]), e[2]>> \in exact BY <3>2, <3>7
      <4> QED BY <2>2, <3>3, <3>5, <4>1
    <3> QED BY <3>6, <3>7
  <2>8. r \in Results /\ r.outcome = "found" /\ r.doc = Own(it) /\ r.id = hit[2] /\ r.didYouMean = <<>>
    <3>1. Own(it) \in {Own(i) : i \in Directory} /\ hit[2] \in Ids
      BY <1>2, <2>3 DEF Ids
    <3>2. r = Result("found", Own(it), hit[2]) BY <2>1, <2>4
    <3> QED BY <3>1, <3>2 DEF Result, Results, Ids
  <2>9. \E d \in Defined(q, id) : /\ r.doc = Own(d[1]) /\ r.id = d[2]
                                 /\ \A e \in Defined(q, id) \ {d} : d[2] = id /\ e[2] # id
    <3> DEFINE d == <<it, hit[2]>>
    <3>1. d[1] = it /\ d[2] = hit[2] OBVIOUS
    <3>2. d \in Defined(q, id) BY <2>6
    <3>3. \A e \in Defined(q, id) \ {d} : hit[2] = id /\ e[2] # id BY <2>7
    <3> HIDE DEF d
    <3> QED BY <2>8, <3>1, <3>2, <3>3
  <2> QED BY <2>5, <2>8, <2>9 DEF Right
<1> QED BY <1>8, <1>9, <1>10, <1>11

(* What a run looks up is an operation with at least one part.             *)
LEMMA SoughtParts ==
  ASSUME GcpTypeOK, NEW l \in GcpCalls, NEW run
  PROVE  LET q == sought(l, run)
         IN  /\ Len(q.operation) \in Nat \ {0} /\ Len(gcpAsk[l].operation) \in Nat \ {0}
             /\ Last(q.operation) = Last(gcpAsk[l].operation)
             /\ run.first # Unanswered => Len(q.operation) = 1
             /\ run.first # Unanswered => q = [gcpAsk[l] EXCEPT !.operation = <<Last(gcpAsk[l].operation)>>]
             /\ run.first = Unanswered => q = gcpAsk[l]
<1> DEFINE ask == gcpAsk[l]
           id == Last(ask.operation)
<1>1. ask \in [service : Seq(STRING), model : Seq(STRING), operation : Seq(Seq(STRING)) \ {<<>>}]
  BY QueriesAssumption DEF GcpTypeOK
<1>2. Len(ask.operation) \in Nat \ {0}
  <2>1. ask.operation \in Seq(Seq(STRING)) /\ ask.operation # <<>> BY <1>1
  <2> HIDE DEF ask
  <2> QED BY <2>1, EmptySeq
<1>3. [ask EXCEPT !.operation = <<id>>].operation = <<id>>
  BY <1>1
<1>4. Len(<<id>>) = 1 /\ Last(<<id>>) = id
  BY DEF Last
<1> QED BY <1>2, <1>3, <1>4 DEF sought

LEMMA SetRight ==
  ASSUME GcpInv, NEW l \in GcpCalls, NEW run \in Runs, RunRight(l, run), Set(l, run), UNCHANGED gcpAsk
  PROVE  /\ (gcpRun \in [GcpCalls -> Runs])'
         /\ (\A m \in GcpCalls : RunRight(m, gcpRun[m]))'
<1>1. gcpRun' = [gcpRun EXCEPT ![l] = run] /\ gcpRun \in [GcpCalls -> Runs]
  BY DEF Set, GcpInv, GcpTypeOK
<1>2. gcpRun' \in [GcpCalls -> Runs] /\ gcpRun'[l] = run /\ \A m \in GcpCalls \ {l} : gcpRun'[m] = gcpRun[m]
  BY <1>1
<1>3. \A m \in GcpCalls : RunRight(m, gcpRun'[m])
  BY <1>2 DEF GcpInv
<1>4. \A m \in GcpCalls : RunRight(m, gcpRun[m])' <=> RunRight(m, gcpRun'[m])
  BY DEF RunRight, sought
<1> QED BY <1>2, <1>3, <1>4

(* A run that has its result has a right one.                              *)
LEMMA LookupRight ==
  ASSUME GcpInv, NEW l \in GcpCalls, NEW r \in Results, Right(sought(l, gcpRun[l]), r), Lookup(l, r), UNCHANGED gcpAsk
  PROVE  /\ (gcpRun \in [GcpCalls -> Runs])'
         /\ (\A m \in GcpCalls : RunRight(m, gcpRun[m]))'
<1> DEFINE run == gcpRun[l]
           g == [run EXCEPT !.at = "looked up", !.todo = {}, !.docs = {}, !.result = r]
<1>1. run \in Runs /\ RunRight(l, run) BY DEF GcpInv, GcpTypeOK
<1>2. g \in Runs BY <1>1 DEF Runs
<1>3. g.at = "looked up" /\ g.first = run.first /\ g.result = r BY <1>1 DEF Runs
<1>4. Set(l, g) BY DEF Lookup
<1> HIDE DEF g
<1>5. RunRight(l, g) BY <1>1, <1>3 DEF RunRight, sought
<1> QED BY <1>2, <1>4, <1>5, SetRight

LEMMA NotAvailableRight == \A q : Right(q, NotAvailable)
BY NoResults DEF Right

LEMMA SelectRight ==
  ASSUME GcpTypeOK, NEW l \in GcpCalls, NEW run \in Runs, run.todo = {}, run.docs = {},
         run.first # Unanswered =>
           run.first.outcome = "not found" /\ run.first.didYouMean = <<>> /\ Len(gcpAsk[l].operation) > 1
  PROVE  Select(l, run) \in Runs /\ RunRight(l, Select(l, run))
<1> DEFINE q == sought(l, run)
           apis == apiOf(q)
           api == CHOOSE a \in apis : TRUE
           search == selectVersions(api, q.model)
           g == Select(l, run)
<1>1. CASE several(apis)
  <2>1. g = [run EXCEPT !.at = "looked up", !.result = Ambiguous] BY <1>1 DEF Select
  <2>2. g \in Runs BY <2>1, NoResults DEF Runs
  <2>3. g.at = "looked up" /\ g.first = run.first /\ g.result = Ambiguous BY <2>1 DEF Runs
  <2> HIDE DEF g
  <2>4. RunRight(l, g) BY <2>3, NoResults DEF RunRight, Right
  <2> QED BY <2>2, <2>4 DEF g
<1>2. CASE ~several(apis) /\ (apis = {} \/ search = {})
  <2>1. g = [run EXCEPT !.at = "looked up", !.result = NotFound] BY <1>2 DEF Select
  <2>2. g \in Runs BY <2>1, NoResults DEF Runs
  <2>3. g.at = "looked up" /\ g.first = run.first /\ g.result = NotFound BY <2>1 DEF Runs
  <2>4. \A id : Defined(q, id) = {}
    <3>1. CASE apis = {} BY <3>1 DEF Defined
    <3>2. CASE apis # {} /\ search = {}
      <4>1. apis = {api} BY <1>2, <3>2 DEF several
      <4>2. \A id, it, m : <<it, m>> \in Defined(q, id) => it \in search
        BY <3>2, <4>1, DefinedAre
      <4>3. ASSUME NEW id, NEW d \in Defined(q, id) PROVE FALSE
        <5>1. <<d[1], d[2]>> \in Defined(q, id) BY DefinedPairs
        <5>2. d[1] \in search BY <4>2, <5>1
        <5> QED BY <3>2, <5>2
      <4> QED BY <4>3
    <3> QED BY <1>2, <3>1, <3>2
  <2>5. sought(l, g) = q BY <2>3 DEF sought
  <2> HIDE DEF g, q
  <2>6. RunRight(l, g) BY <2>3, <2>4, <2>5, NoResults DEF RunRight, Right
  <2> QED BY <2>2, <2>6 DEF g
<1>3. CASE ~several(apis) /\ apis # {} /\ search # {}
  <2>1. g = [run EXCEPT !.at = "load", !.todo = search] BY <1>3 DEF Select
  <2>2. search \subseteq Directory BY DEF selectVersions, itemsOf
  <2>3. g \in Runs BY <2>1, <2>2 DEF Runs
  <2>4. g.at = "load" /\ g.first = run.first /\ g.todo = search /\ g.docs = {} BY <2>1 DEF Runs
  <2>5. api \in apis /\ apis = {api} BY <1>3 DEF several
  <2>6. sought(l, g) = q BY <2>4 DEF sought
  <2> HIDE DEF g
  <2>7. Loading(q, g) BY <2>4, <2>5 DEF Loading
  <2> HIDE DEF q
  <2>8. RunRight(l, g) BY <2>4, <2>6, <2>7 DEF RunRight
  <2> QED BY <2>3, <2>8 DEF g
<1> QED BY <1>1, <1>2, <1>3

(* The cache gave the document of the lowest version left, or none.        *)
LEMMA TakeRight ==
  ASSUME GcpInv, NEW l \in GcpCalls, gcpRun[l].at \in {"load", "disk", "fetch"}, gcpRun[l].todo # {},
         NEW doc, doc # NoDoc => Admits(item(l)) /\ doc = Own(item(l)), Take(l, doc), UNCHANGED gcpAsk
  PROVE  /\ (gcpRun \in [GcpCalls -> Runs])'
         /\ (\A m \in GcpCalls : RunRight(m, gcpRun[m]))'
<1> DEFINE run == gcpRun[l]
           it == item(l)
           q == sought(l, run)
           g == [run EXCEPT !.at = "load", !.todo = @ \ {it}, !.docs = @ \cup {doc}]
<1>1. run \in Runs /\ RunRight(l, run) BY DEF GcpInv, GcpTypeOK
<1>2. it \in run.todo BY LowestIsThere DEF item
<1>3. CASE doc = NoDoc
  <2>1. Lookup(l, NotAvailable) BY <1>3 DEF Take
  <2> QED BY <2>1, NoResults, NotAvailableRight, LookupRight
<1>4. CASE doc # NoDoc
  <2>1. Set(l, g) BY <1>4 DEF Take
  <2>2. it \in Directory /\ Admits(it) /\ doc = Own(it)
    BY <1>1, <1>2, <1>4 DEF Runs
  <2> HIDE DEF it
  <2>3. run.todo \ {it} \in SUBSET Directory /\ run.docs \cup {doc} \in SUBSET {Own(i) : i \in Directory}
    BY <1>1, <2>2 DEF Runs
  <2>4. g \in Runs BY <1>1, <2>3 DEF Runs
  <2>5. g.at = "load" /\ g.first = run.first /\ g.todo = run.todo \ {it} /\ g.docs = run.docs \cup {doc}
    BY <1>1 DEF Runs
  <2>6. Loading(q, run) BY <1>1 DEF RunRight
  <2>7. sought(l, g) = q BY <2>5 DEF sought
  <2> HIDE DEF g, q
  <2>8. Loading(q, g)
    <3>1. PICK api \in apiOf(q) :
            /\ apiOf(q) = {api} /\ run.todo \subseteq selectVersions(api, q.model)
            /\ run.docs = {Own(i) : i \in selectVersions(api, q.model) \ run.todo}
            /\ \A i \in selectVersions(api, q.model) \ run.todo : Admits(i)
      BY <2>6 DEF Loading
    <3> DEFINE all == selectVersions(api, q.model)
    <3>2. all \ g.todo = (all \ run.todo) \cup {it} BY <1>2, <2>5, <3>1
    <3>3. g.docs = {Own(i) : i \in all \ g.todo} BY <2>2, <2>5, <3>1, <3>2
    <3>4. g.todo \subseteq all /\ \A i \in all \ g.todo : Admits(i) BY <2>2, <2>5, <3>1, <3>2
    <3> QED BY <3>1, <3>3, <3>4 DEF Loading
  <2>9. RunRight(l, g) BY <1>1, <2>5, <2>7, <2>8 DEF RunRight
  <2> QED BY <2>1, <2>4, <2>9, SetRight
<1> QED BY <1>3, <1>4

(* What is read from the file of an entry is the entry's own document.     *)
LEMMA OnFileOwn ==
  ASSUME GcpInv, NEW l \in GcpCalls, item(l) \in Directory, onFile(l) # NoDoc
  PROVE  Admits(item(l)) /\ onFile(l).doc = Own(item(l))
<1> DEFINE it == item(l)
           file == gcpFile[Stem(it)]
<1>1. onFile(l) = file /\ file # NoDoc /\ admitDoc(it, file.doc) BY DEF onFile
<1>2. Stem(it) \in Stems BY DEF Stems
<1> HIDE DEF it
<1>3. PICK o \in Directory : Admits(o) /\ file.doc = Own(o) BY <1>1, <1>2 DEF GcpInv, StoresOK
<1>4. o = it BY <1>1, <1>3, OwnersDiffer DEF it
<1> QED BY <1>1, <1>3, <1>4 DEF it

LEMMA LoadOverRight ==
  ASSUME GcpInv, NEW l \in GcpCalls, gcpRun[l].at \in {"disk", "fetch"},
         NEW doc, doc # NoDoc => Admits(item(l)) /\ doc = Own(item(l)), LoadOver(l, doc), UNCHANGED gcpAsk
  PROVE  /\ (gcpRun \in [GcpCalls -> Runs])'
         /\ (\A m \in GcpCalls : RunRight(m, gcpRun[m]))'
         /\ DOMAIN gcpMem' = Directory
         /\ \A it \in Directory : gcpMem'[it] # NoDoc => Admits(it) /\ gcpMem'[it] = Own(it)
<1>1. gcpRun[l].todo # {} BY DEF GcpInv, RunRight
<1>2. Take(l, doc) /\ gcpMem' = [gcpMem EXCEPT ![item(l)] = doc] BY DEF LoadOver
<1>3. /\ (gcpRun \in [GcpCalls -> Runs])' /\ (\A m \in GcpCalls : RunRight(m, gcpRun[m]))'
  BY <1>1, <1>2, TakeRight
<1>4. DOMAIN gcpMem = Directory /\ \A it \in Directory : gcpMem[it] # NoDoc => Admits(it) /\ gcpMem[it] = Own(it)
  BY DEF GcpInv, GcpTypeOK, StoresOK
<1>5. DOMAIN gcpMem' = Directory /\ \A it \in Directory : gcpMem'[it] = IF it = item(l) THEN doc ELSE gcpMem[it]
  BY <1>2, <1>4
<1> QED BY <1>3, <1>4, <1>5

(* An answer that does not change stays right.                             *)
LEMMA AnswersStay ==
  ASSUME GcpInv, UNCHANGED <<gcpAsk, gcpAnswer>>
  PROVE  AnswerOfItsDocument' /\ (gcpAsk \in GcpQueries)' /\ (gcpAnswer \in [GcpCalls -> Results])'
BY DEF GcpInv, GcpTypeOK, AnswerOfItsDocument

LEMMA StoresStay ==
  ASSUME GcpInv, UNCHANGED <<gcpFile, gcpMem>>
  PROVE  StoresOK' /\ (DOMAIN gcpFile = Stems)' /\ (DOMAIN gcpMem = Directory)'
BY DEF GcpInv, GcpTypeOK, StoresOK

LEMMA IdleRight ==
  ASSUME NEW l \in GcpCalls
  PROVE  Idle \in Runs /\ RunRight(l, Idle) /\ Idle.todo = {} /\ Idle.docs = {} /\ Idle.first = Unanswered
<1>1. Idle \in Runs /\ Idle.at = "idle" /\ Idle.todo = {} /\ Idle.docs = {} /\ Idle.first = Unanswered
  BY NoResults DEF Idle, Runs
<1> QED BY <1>1 DEF RunRight

LEMMA GcpStart == GcpInit => GcpInv
<1> SUFFICES ASSUME GcpInit PROVE GcpInv
  OBVIOUS
<1>1. /\ gcpAsk \in GcpQueries /\ gcpFile \in {NoFiles} \cup LeftFiles
      /\ gcpMem = [it \in Directory |-> NoDoc]
      /\ gcpRun = [l \in GcpCalls |-> Idle] /\ gcpAnswer = [l \in GcpCalls |-> Unanswered]
  BY DEF GcpInit
<1>2. DOMAIN gcpFile = Stems /\
      \A s \in Stems : gcpFile[s] # NoDoc => \E it \in Directory : Admits(it) /\ gcpFile[s].doc = Own(it)
  <2>1. CASE gcpFile = NoFiles BY <2>1 DEF NoFiles
  <2>2. CASE gcpFile \in LeftFiles
    <3>1. PICK it \in {i \in Directory : admitDoc(i, DistillDoc(Documents[i]))}, f \in BOOLEAN :
            gcpFile = [NoFiles EXCEPT ![Stem(it)] = [doc |-> DistillDoc(Documents[it]), fresh |-> f]]
      BY <2>2 DEF LeftFiles
    <3> DEFINE file == [doc |-> DistillDoc(Documents[it]), fresh |-> f]
    <3>2. file.doc = Own(it) /\ Admits(it) /\ it \in Directory BY <3>1 DEF Own, Admits
    <3>3. gcpFile = [NoFiles EXCEPT ![Stem(it)] = file] BY <3>1
    <3> HIDE DEF file
    <3>4. DOMAIN gcpFile = Stems /\ \A s \in Stems : gcpFile[s] \in {NoDoc, file}
      BY <3>3 DEF NoFiles
    <3> QED BY <3>2, <3>4
  <2> QED BY <1>1, <2>1, <2>2
<1>3. GcpTypeOK
  BY <1>1, <1>2, IdleRight, NoResults DEF GcpTypeOK
<1>4. StoresOK BY <1>1, <1>2 DEF StoresOK
<1>5. \A l \in GcpCalls : RunRight(l, gcpRun[l]) BY <1>1, IdleRight
<1>6. AnswerOfItsDocument
  BY <1>1, NoResults DEF AnswerOfItsDocument, Says
<1> QED BY <1>3, <1>4, <1>5, <1>6 DEF GcpInv

LEMMA ReferenceKeeps ==
  ASSUME GcpInv, NEW l \in GcpCalls, GcpReference(l)
  PROVE  GcpInv'
<1>1. UNCHANGED <<gcpAsk, gcpFile, gcpMem>> BY DEF GcpReference
<1>2. StoresOK' /\ (DOMAIN gcpFile = Stems)' /\ (DOMAIN gcpMem = Directory)' BY <1>1, StoresStay
<1>3. CASE Set(l, Select(l, Idle)) /\ UNCHANGED gcpAnswer
  <2>1. Select(l, Idle) \in Runs /\ RunRight(l, Select(l, Idle))
    BY IdleRight, SelectRight DEF GcpInv
  <2>2. (gcpRun \in [GcpCalls -> Runs])' /\ (\A m \in GcpCalls : RunRight(m, gcpRun[m]))'
    BY <1>1, <1>3, <2>1, SetRight
  <2> QED BY <1>1, <1>2, <1>3, <2>2, AnswersStay DEF GcpInv, GcpTypeOK
<1>4. CASE gcpAnswer' = [gcpAnswer EXCEPT ![l] = NotAvailable] /\ UNCHANGED gcpRun
  <2>1. gcpAnswer \in [GcpCalls -> Results] BY DEF GcpInv, GcpTypeOK
  <2>2. gcpAnswer' \in [GcpCalls -> Results] /\ \A m \in GcpCalls : gcpAnswer'[m] \in {gcpAnswer[m], NotAvailable}
    BY <1>4, <2>1, NoResults
  <2>3. \A q : Says(q, NotAvailable) BY NoResults DEF Says
  <2>4. AnswerOfItsDocument' BY <1>1, <2>2, <2>3 DEF GcpInv, AnswerOfItsDocument
  <2>5. (\A m \in GcpCalls : RunRight(m, gcpRun[m]))' BY <1>1, <1>4 DEF GcpInv, RunRight, sought
  <2> QED BY <1>1, <1>2, <1>4, <2>2, <2>4, <2>5 DEF GcpInv, GcpTypeOK
<1> QED BY <1>3, <1>4 DEF GcpReference

LEMMA DocCacheKeeps ==
  ASSUME GcpInv, NEW l \in GcpCalls, docCache(l)
  PROVE  GcpInv'
<1>1. gcpRun[l].at = "load" /\ gcpRun[l].todo # {} /\ UNCHANGED <<gcpAsk, gcpFile, gcpMem, gcpAnswer>>
  BY DEF docCache
<1>2. StoresOK' /\ (DOMAIN gcpFile = Stems)' /\ (DOMAIN gcpMem = Directory)' BY <1>1, StoresStay
<1>3. gcpRun[l] \in Runs /\ RunRight(l, gcpRun[l]) BY DEF GcpInv, GcpTypeOK
<1>4. item(l) \in Directory BY <1>1, <1>3, LowestIsThere DEF item, Runs
<1>5. (gcpRun \in [GcpCalls -> Runs])' /\ (\A m \in GcpCalls : RunRight(m, gcpRun[m]))'
  <2>1. CASE Lookup(l, NotAvailable)
    BY <1>1, <2>1, NoResults, NotAvailableRight, LookupRight
  <2>2. CASE gcpMem[item(l)] # NoDoc /\ Take(l, gcpMem[item(l)])
    <3>1. Admits(item(l)) /\ gcpMem[item(l)] = Own(item(l)) BY <1>4, <2>2 DEF GcpInv, StoresOK
    <3> QED BY <1>1, <2>2, <3>1, TakeRight
  <2>3. CASE Set(l, [gcpRun[l] EXCEPT !.at = "disk"])
    <3> DEFINE g == [gcpRun[l] EXCEPT !.at = "disk"]
    <3>1. /\ g \in Runs /\ g.at = "disk" /\ g.todo = gcpRun[l].todo /\ g.docs = gcpRun[l].docs
          /\ g.first = gcpRun[l].first
      BY <1>3 DEF Runs
    <3>2. Set(l, g) BY <2>3
    <3> HIDE DEF g
    <3>3. RunRight(l, g) BY <1>1, <1>3, <3>1 DEF RunRight, Loading, sought
    <3> QED BY <1>1, <3>1, <3>2, <3>3, SetRight
  <2> QED BY <2>1, <2>2, <2>3 DEF docCache
<1> QED BY <1>1, <1>2, <1>5, AnswersStay DEF GcpInv, GcpTypeOK

(* A run that reads or downloads a document has one to load.               *)
LEMMA ItemLoads ==
  ASSUME GcpInv, NEW l \in GcpCalls, gcpRun[l].at \in {"disk", "fetch"}
  PROVE  item(l) \in Directory
<1>1. gcpRun[l] \in Runs /\ gcpRun[l].todo # {} BY DEF GcpInv, GcpTypeOK, RunRight
<1> QED BY <1>1, LowestIsThere DEF item, Runs

LEMMA ReadDocKeeps ==
  ASSUME GcpInv, NEW l \in GcpCalls, ReadDoc(l)
  PROVE  GcpInv'
<1>1. gcpRun[l].at = "disk" /\ UNCHANGED <<gcpAsk, gcpFile, gcpAnswer>> BY DEF ReadDoc
<1>2. item(l) \in Directory BY <1>1, ItemLoads
<1>3. gcpRun[l] \in Runs /\ RunRight(l, gcpRun[l]) BY DEF GcpInv, GcpTypeOK
<1>4. CASE onFile(l) # NoDoc /\ LoadOver(l, onFile(l).doc)
  <2>1. Admits(item(l)) /\ onFile(l).doc = Own(item(l)) BY <1>2, <1>4, OnFileOwn
  <2>2. /\ (gcpRun \in [GcpCalls -> Runs])' /\ (\A m \in GcpCalls : RunRight(m, gcpRun[m]))'
        /\ DOMAIN gcpMem' = Directory
        /\ \A it \in Directory : gcpMem'[it] # NoDoc => Admits(it) /\ gcpMem'[it] = Own(it)
    BY <1>1, <1>4, <2>1, LoadOverRight
  <2>3. StoresOK' BY <1>1, <2>2 DEF GcpInv, StoresOK
  <2> QED BY <1>1, <2>2, <2>3, AnswersStay DEF GcpInv, GcpTypeOK
<1>5. CASE Set(l, [gcpRun[l] EXCEPT !.at = "fetch"]) /\ UNCHANGED <<gcpMem, gcpLock>>
  <2> DEFINE g == [gcpRun[l] EXCEPT !.at = "fetch"]
  <2>1. /\ g \in Runs /\ g.at = "fetch" /\ g.todo = gcpRun[l].todo /\ g.docs = gcpRun[l].docs
        /\ g.first = gcpRun[l].first
    BY <1>3 DEF Runs
  <2>2. Set(l, g) BY <1>5
  <2> HIDE DEF g
  <2>3. RunRight(l, g) BY <1>1, <1>3, <2>1 DEF RunRight, Loading, sought
  <2>4. (gcpRun \in [GcpCalls -> Runs])' /\ (\A m \in GcpCalls : RunRight(m, gcpRun[m]))'
    BY <1>1, <2>1, <2>2, <2>3, SetRight
  <2> QED BY <1>1, <1>5, <2>4, AnswersStay, StoresStay DEF GcpInv, GcpTypeOK
<1> QED BY <1>4, <1>5 DEF ReadDoc

LEMMA FetchFailsKeeps ==
  ASSUME GcpInv, NEW l \in GcpCalls, FetchFails(l)
  PROVE  GcpInv'
<1> DEFINE doc == IF onFile(l) = NoDoc THEN NoDoc ELSE onFile(l).doc
<1>1. gcpRun[l].at = "fetch" /\ LoadOver(l, doc) /\ UNCHANGED <<gcpAsk, gcpFile, gcpAnswer>> BY DEF FetchFails
<1>2. doc # NoDoc => Admits(item(l)) /\ doc = Own(item(l)) BY <1>1, ItemLoads, OnFileOwn
<1> HIDE DEF doc
<1>3. /\ (gcpRun \in [GcpCalls -> Runs])' /\ (\A m \in GcpCalls : RunRight(m, gcpRun[m]))'
      /\ DOMAIN gcpMem' = Directory
      /\ \A it \in Directory : gcpMem'[it] # NoDoc => Admits(it) /\ gcpMem'[it] = Own(it)
  BY <1>1, <1>2, LoadOverRight
<1>4. StoresOK' BY <1>1, <1>3 DEF GcpInv, StoresOK
<1> QED BY <1>1, <1>3, <1>4, AnswersStay DEF GcpInv, GcpTypeOK

LEMMA FetchDocKeeps ==
  ASSUME GcpInv, NEW l \in GcpCalls, FetchDoc(l)
  PROVE  GcpInv'
<1> DEFINE it == item(l)
           new == [doc |-> Own(it), fresh |-> TRUE]
<1>1. gcpRun[l].at = "fetch" /\ UNCHANGED <<gcpAsk, gcpAnswer>> BY DEF FetchDoc
<1>2. it \in Directory /\ Stem(it) \in Stems BY <1>1, ItemLoads DEF Stems
<1>3. PICK doc : /\ LoadOver(l, doc) /\ (doc # NoDoc => Admits(it) /\ doc = Own(it))
                 /\ \/ Admits(it) /\ gcpFile' = [gcpFile EXCEPT ![Stem(it)] = new]
                    \/ UNCHANGED gcpFile
  BY DEF FetchDoc, Own, Admits
<1>4. new.doc = Own(it) OBVIOUS
<1>5. /\ (gcpRun \in [GcpCalls -> Runs])' /\ (\A m \in GcpCalls : RunRight(m, gcpRun[m]))'
      /\ DOMAIN gcpMem' = Directory
      /\ \A i \in Directory : gcpMem'[i] # NoDoc => Admits(i) /\ gcpMem'[i] = Own(i)
  BY <1>1, <1>3, LoadOverRight
<1> HIDE DEF it, new
<1>6. DOMAIN gcpFile = Stems BY DEF GcpInv, GcpTypeOK
<1>7. DOMAIN gcpFile' = Stems /\ \A s \in Stems : gcpFile'[s] = gcpFile[s] \/ (gcpFile'[s] = new /\ Admits(it))
  BY <1>3, <1>6
<1>8. \A s \in Stems : gcpFile'[s] # NoDoc => \E i \in Directory : Admits(i) /\ gcpFile'[s].doc = Own(i)
  BY <1>2, <1>4, <1>7 DEF GcpInv, StoresOK
<1>9. StoresOK' BY <1>5, <1>8 DEF StoresOK
<1> QED BY <1>1, <1>5, <1>7, <1>9, AnswersStay DEF GcpInv, GcpTypeOK

LEMMA PickKeeps ==
  ASSUME GcpInv, NEW l \in GcpCalls, GcpPick(l)
  PROVE  GcpInv'
<1> DEFINE run == gcpRun[l]
           q == sought(l, run)
           r == pickMethod(run.docs, q.operation)
<1>1. /\ run.at = "load" /\ run.todo = {} /\ Lookup(l, r)
      /\ UNCHANGED <<gcpAsk, gcpFile, gcpMem, gcpAnswer>>
  BY DEF GcpPick
<1>2. Loading(q, run) BY <1>1 DEF GcpInv, RunRight
<1>3. PICK api \in apiOf(q) :
        /\ apiOf(q) = {api} /\ run.docs = {Own(it) : it \in selectVersions(api, q.model)}
        /\ \A it \in selectVersions(api, q.model) : Admits(it)
  BY <1>1, <1>2 DEF Loading
<1>4. Len(q.operation) \in Nat \ {0} BY SoughtParts DEF GcpInv
<1>5. r \in Results /\ Right(q, r)
  <2> HIDE DEF q
  <2> QED BY <1>3, <1>4, PickRight
<1>6. (gcpRun \in [GcpCalls -> Runs])' /\ (\A m \in GcpCalls : RunRight(m, gcpRun[m]))'
  BY <1>1, <1>5, LookupRight
<1> QED BY <1>1, <1>6, AnswersStay, StoresStay DEF GcpInv, GcpTypeOK

LEMMA AnswerKeeps ==
  ASSUME GcpInv, NEW l \in GcpCalls, GcpConclude(l)
  PROVE  GcpInv'
<1> DEFINE run == gcpRun[l]
           r == run.result
           q == sought(l, run)
           ask == gcpAsk[l]
<1>1. run.at = "looked up" /\ UNCHANGED <<gcpAsk, gcpFile, gcpMem>> BY DEF GcpConclude
<1>2. run \in Runs /\ r \in Results /\ run.first \in Results /\ RunRight(l, run)
  BY DEF GcpInv, GcpTypeOK, Runs
<1>3. Right(q, r) BY <1>1, <1>2 DEF RunRight
<1>4. StoresOK' /\ (DOMAIN gcpFile = Stems)' /\ (DOMAIN gcpMem = Directory)' BY <1>1, StoresStay
<1>5. CASE run.first = Unanswered /\ r.outcome = "not found" /\ Len(ask.operation) > 1
  <2> DEFINE start == [Idle EXCEPT !.first = r]
  <2>1. Set(l, Select(l, start)) /\ UNCHANGED gcpAnswer BY <1>5 DEF GcpConclude
  <2>2. start \in Runs /\ start.todo = {} /\ start.docs = {} /\ start.first = r
    BY <1>2, IdleRight DEF Runs
  <2>3. r.didYouMean = <<>> BY <1>3 DEF Right
  <2> HIDE DEF start
  <2>4. Select(l, start) \in Runs /\ RunRight(l, Select(l, start))
    BY <1>5, <2>2, <2>3, SelectRight DEF GcpInv
  <2>5. (gcpRun \in [GcpCalls -> Runs])' /\ (\A m \in GcpCalls : RunRight(m, gcpRun[m]))'
    BY <1>1, <2>1, <2>4, SetRight
  <2> QED BY <1>1, <1>4, <2>1, <2>5, AnswersStay DEF GcpInv, GcpTypeOK
<1>6. CASE ~(run.first = Unanswered /\ r.outcome = "not found" /\ Len(ask.operation) > 1)
  <2> DEFINE a == IF run.first = Unanswered THEN r ELSE [run.first EXCEPT !.didYouMean = r.id]
  <2>1. Set(l, Idle) /\ gcpAnswer' = [gcpAnswer EXCEPT ![l] = a] BY <1>6 DEF GcpConclude
  <2>2. (gcpRun \in [GcpCalls -> Runs])' /\ (\A m \in GcpCalls : RunRight(m, gcpRun[m]))'
    BY <1>1, <2>1, IdleRight, SetRight
  <2>3. a \in Results /\ Says(ask, a)
    <3>1. CASE run.first = Unanswered
      <4>1. a = r /\ q = ask BY <3>1, SoughtParts DEF GcpInv
      <4>2. Right(ask, r) BY <1>3, <4>1
      <4> HIDE DEF ask, r
      <4>3. Says(ask, r) BY <4>2 DEF Right, Says, Own
      <4> QED BY <1>2, <4>1, <4>3
    <3>2. CASE run.first # Unanswered
      <4> DEFINE id == Last(ask.operation)
                 last == [ask EXCEPT !.operation = <<id>>]
      <4>1. q = last /\ Last(q.operation) = id BY <3>2, SoughtParts DEF GcpInv
      <4>2. a = [run.first EXCEPT !.didYouMean = r.id] BY <3>2
      <4>3. a \in Results /\ a.outcome = run.first.outcome /\ a.didYouMean = r.id
        BY <1>2, <4>2 DEF Results
      <4>4. a.outcome = "not found" /\ Len(ask.operation) > 1 BY <1>2, <3>2, <4>3 DEF RunRight
      <4>5. a.didYouMean # <<>> => \E d \in Defined(last, id) : d[2] = a.didYouMean
        <5> SUFFICES ASSUME r.id # <<>> PROVE \E d \in Defined(last, id) : d[2] = r.id
          BY <4>3
        <5>1. r.outcome = "found" BY <1>3 DEF Right
        <5>2. \E d \in Defined(q, Last(q.operation)) : r.id = d[2]
          <6> HIDE DEF q, r
          <6> QED BY <1>3, <5>1 DEF Right
        <5> HIDE DEF last, id, q
        <5> QED BY <4>1, <5>2
      <4>6. Len(ask.operation) # 1
        <5>1. Len(ask.operation) \in Nat \ {0} BY SoughtParts DEF GcpInv
        <5> QED BY <4>4, <5>1, OneOrMore, Zenon
      <4> HIDE DEF a
      <4> QED BY <4>3, <4>4, <4>5, <4>6 DEF Says
    <3> QED BY <3>1, <3>2
  <2> HIDE DEF a
  <2>4. gcpAnswer \in [GcpCalls -> Results] /\ \A m \in GcpCalls : Says(gcpAsk[m], gcpAnswer[m])
    BY DEF GcpInv, GcpTypeOK, AnswerOfItsDocument
  <2>5. gcpAnswer' \in [GcpCalls -> Results] /\ \A m \in GcpCalls : gcpAnswer'[m] = IF m = l THEN a ELSE gcpAnswer[m]
    BY <2>1, <2>3, <2>4
  <2>6. AnswerOfItsDocument' BY <1>1, <2>3, <2>4, <2>5 DEF AnswerOfItsDocument
  <2> QED BY <1>1, <1>4, <2>2, <2>5, <2>6 DEF GcpInv, GcpTypeOK
<1> QED BY <1>5, <1>6

LEMMA GcpStep == GcpInv /\ [GcpNext]_gcpVars => GcpInv'
<1> SUFFICES ASSUME GcpInv, [GcpNext]_gcpVars PROVE GcpInv'
  OBVIOUS
<1>1. CASE UNCHANGED gcpVars
  <2>1. UNCHANGED <<gcpAsk, gcpFile, gcpMem, gcpRun, gcpAnswer>> BY <1>1 DEF gcpVars
  <2>2. (\A m \in GcpCalls : RunRight(m, gcpRun[m]))' BY <2>1 DEF GcpInv, RunRight, sought
  <2> QED BY <2>1, <2>2, AnswersStay, StoresStay DEF GcpInv, GcpTypeOK
<1>2. CASE GcpNext
  BY <1>2, ReferenceKeeps, DocCacheKeeps, ReadDocKeeps, FetchFailsKeeps, FetchDocKeeps, PickKeeps, AnswerKeeps
     DEF GcpNext
<1> QED BY <1>1, <1>2

(* However lookups interleave and whatever files share a stem, an answer   *)
(* comes from the document of the entry it is about, and says of the       *)
(* operation what the documents searched say (Docs.lookup, admitDoc).      *)
THEOREM AnswersFromItsDocument == GcpSpec => []AnswerOfItsDocument
<1>1. GcpInv => AnswerOfItsDocument BY DEF GcpInv
<1> QED BY <1>1, GcpStart, GcpStep, PTL DEF GcpSpec
=============================================================================
