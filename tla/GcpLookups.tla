----------------------------- MODULE GcpLookups -----------------------------
(***************************************************************************)
(* api_reference lookups of the gcp connector: gcp.Docs, a directory of    *)
(* APIs and one cache per API and version, in memory and in a file.  The   *)
(* file's stem joins name and version with a dot, so that two entries may  *)
(* share a file; each cache admits only its own document from it.          *)
(*                                                                         *)
(* A name or a version is the sequence of its dotted parts, a method id    *)
(* the pair of its API and the rest, an operation the ids between its      *)
(* slashes.  What a file's age decides is in the file; how payload and age *)
(* are written is Catalogs' subject.                                       *)
(***************************************************************************)
EXTENDS Naturals, SequencesExt

CONSTANTS
  GcpCalls,     \* concurrent lookups
  GcpQueries,   \* what each asks: the functions that occur
  Directory,    \* the entries of the Discovery directory: [name, version]
  Documents,    \* what is at the URL of each entry
  VersionOrder, \* the versions of the form vN in ascending order
  UnsafeParts,  \* names and versions that are no safe part of a file name
  Folded,       \* spellings another spelling folds to
  NoDoc

(* The directory names each version of an API once; a label of the form vN *)
(* has one place in the order.                                             *)
ASSUME DirectoryAssumption ==
  \A a, b \in Directory : a.name = b.name /\ a.version = b.version => a = b
ASSUME VersionOrderAssumption == VersionOrder \in Seq(Range(VersionOrder)) /\ IsInjective(VersionOrder)
ASSUME QueriesAssumption ==
  \A f \in GcpQueries :
    f \in [GcpCalls -> [service : Seq(STRING), model : Seq(STRING), operation : Seq(Seq(STRING)) \ {<<>>}]]

VARIABLES
  gcpAsk,    \* what each lookup asks
  gcpFile,   \* the file of each stem: a document and whether it is fresh, or NoDoc
  gcpMem,    \* Docs.docs: the document each cache has loaded, or NoDoc
  gcpLock,   \* TTLCache.mu of each cache
  gcpRun,    \* of each lookup: where it is, what it still loads, what it has, its result, the first one
  gcpAnswer  \* what each lookup answered

gcpVars == <<gcpAsk, gcpFile, gcpMem, gcpLock, gcpRun, gcpAnswer>>

Stem(it) == it.name \o it.version
Stems == {Stem(it) : it \in Directory}
foldPart(s) == IF s \in DOMAIN Folded THEN Folded[s] ELSE s
fold(name) == [i \in DOMAIN name |-> foldPart(name[i])]

(* The methods of a document and of the resources in it. *)
distillResource(r) == r.methods \cup UNION {sub.methods : sub \in r.resources}
DistillDoc(raw) == [name |-> raw.name, version |-> raw.version, methods |-> distillResource(raw)]

(* The document is the one the entry names. *)
admitDoc_Any(it, doc) == doc # NoDoc

admitDoc(it, doc) == doc # NoDoc /\ doc.name = it.name /\ doc.version = it.version
-----------------------------------------------------------------------------
(* The API names a name may stand for: itself, or the ones it folds to. *)
resolveAPI(name) ==
  LET names == {it.name : it \in Directory}
  IN IF name \in names THEN {name} ELSE {n \in names : fold(n) = fold(name)}

(* The service, where the directory has it or does not have the prefix. *)
apiOf(q) ==
  LET prefix == IF Len(q.operation) = 1 THEN resolveAPI(<<q.operation[1][1]>>) ELSE {}
      service == resolveAPI(q.service)
  IN IF q.service # <<>> /\ (Cardinality(service) = 1 \/ Cardinality(prefix) # 1) THEN service ELSE prefix

itemsOf(api) == {it \in Directory : it.name = api}
compareVersions(a, b) ==
  \E i, j \in DOMAIN VersionOrder : VersionOrder[i] = a.version /\ VersionOrder[j] = b.version /\ i < j
(* Exactly the model, or every version of the form vN. *)
selectVersions(api, model) ==
  {it \in itemsOf(api) : IF model # <<>> THEN it.version = model ELSE it.version \in Range(VersionOrder)}
lowest(items) == CHOOSE it \in items : \A other \in items : ~compareVersions(other, it)
several(S) == \E a, b \in S : a # b

Result(outcome, doc, id) == [outcome |-> outcome, doc |-> doc, id |-> id, didYouMean |-> <<>>]
NotFound == Result("not found", NoDoc, <<>>)
Ambiguous == Result("ambiguous", NoDoc, <<>>)
NotAvailable == Result("unavailable", NoDoc, <<>>)
Unanswered == Result("none", NoDoc, <<>>)

(* An exact match in any document outranks one that folds. *)
pickMethod(docs, operation) ==
  LET id == operation[1]
      defines == {h \in docs \X UNION {d.methods : d \in docs} : h[2] \in h[1].methods}
      exact == {h \in defines : h[2] = id}
      folded == {h \in defines : fold(h[2]) = fold(id)}
      hits == IF exact # {} THEN exact ELSE folded
      hit == CHOOSE h \in hits : TRUE
  IN IF Len(operation) > 1 \/ hits = {} THEN NotFound
     ELSE IF several(hits) THEN Ambiguous ELSE Result("found", hit[1], hit[2])
-----------------------------------------------------------------------------
Idle == [at |-> "idle", todo |-> {}, docs |-> {}, result |-> Unanswered, first |-> Unanswered]

(* What a run looks up: the query, or what follows its last slash. *)
sought(l, run) == IF run.first = Unanswered THEN gcpAsk[l] ELSE [gcpAsk[l] EXCEPT !.operation = <<Last(@)>>]

(* A lookup of an operation in the directory begins, or ends with r. *)
Select(l, run) ==
  LET q == sought(l, run)
      apis == apiOf(q)
      search == selectVersions(CHOOSE a \in apis : TRUE, q.model)
  IN IF several(apis) THEN [run EXCEPT !.at = "looked up", !.result = Ambiguous]
     ELSE IF apis = {} \/ search = {} THEN [run EXCEPT !.at = "looked up", !.result = NotFound]
     ELSE [run EXCEPT !.at = "load", !.todo = search]

Set(l, run) == gcpRun' = [gcpRun EXCEPT ![l] = run]
Lookup(l, r) == Set(l, [gcpRun[l] EXCEPT !.at = "looked up", !.todo = {}, !.docs = {}, !.result = r])
item(l) == lowest(gcpRun[l].todo)

(* Reference: the directory is there, or the lookup is unavailable. *)
GcpReference(l) ==
  /\ gcpRun[l].at = "idle" /\ gcpAnswer[l] = Unanswered
  /\ \/ Set(l, Select(l, Idle)) /\ UNCHANGED gcpAnswer
     \/ gcpAnswer' = [gcpAnswer EXCEPT ![l] = NotAvailable] /\ UNCHANGED gcpRun
  /\ UNCHANGED <<gcpAsk, gcpFile, gcpMem, gcpLock>>

safePart(it) == it.name \notin UnsafeParts /\ it.version \notin UnsafeParts

(* The cache gives the document, or nil: then nothing more is loaded. *)
Take(l, doc) ==
  IF doc = NoDoc THEN Lookup(l, NotAvailable)
  ELSE Set(l, [gcpRun[l] EXCEPT !.at = "load", !.todo = @ \ {item(l)}, !.docs = @ \cup {doc}])

(* Get: the document is loaded, or this lookup loads it. *)
docCache(l) ==
  /\ gcpRun[l].at = "load" /\ gcpRun[l].todo # {}
  /\ IF ~safePart(item(l)) THEN Lookup(l, NotAvailable) /\ UNCHANGED gcpLock
     ELSE /\ gcpLock[item(l)] = NoDoc
          /\ \/ gcpMem[item(l)] # NoDoc /\ Take(l, gcpMem[item(l)]) /\ UNCHANGED gcpLock
             \/ /\ gcpMem[item(l)] = NoDoc
                /\ gcpLock' = [gcpLock EXCEPT ![item(l)] = l] /\ Set(l, [gcpRun[l] EXCEPT !.at = "disk"])
  /\ UNCHANGED <<gcpAsk, gcpFile, gcpMem, gcpAnswer>>

onFile(l) == IF gcpFile[Stem(item(l))] # NoDoc /\ admitDoc(item(l), gcpFile[Stem(item(l))].doc)
             THEN gcpFile[Stem(item(l))] ELSE NoDoc

(* The load is over: a document is kept, and the cache unlocked. *)
LoadOver(l, doc) ==
  /\ gcpMem' = [gcpMem EXCEPT ![item(l)] = doc] /\ gcpLock' = [gcpLock EXCEPT ![item(l)] = NoDoc]
  /\ Take(l, doc)

ReadDoc(l) ==
  /\ gcpRun[l].at = "disk"
  /\ IF onFile(l) # NoDoc /\ onFile(l).fresh THEN LoadOver(l, onFile(l).doc)
     ELSE Set(l, [gcpRun[l] EXCEPT !.at = "fetch"]) /\ UNCHANGED <<gcpMem, gcpLock>>
  /\ UNCHANGED <<gcpAsk, gcpFile, gcpAnswer>>

(* The download fails: what is on disk now, however old. *)
FetchFails(l) ==
  /\ gcpRun[l].at = "fetch"
  /\ LoadOver(l, IF onFile(l) = NoDoc THEN NoDoc ELSE onFile(l).doc)
  /\ UNCHANGED <<gcpAsk, gcpFile, gcpAnswer>>

(* It succeeds: a document that is not admitted is dropped, another one is *)
(* given although its file may not be written.                             *)
FetchDoc(l) ==
  LET it == item(l)
      doc == DistillDoc(Documents[it])
  IN /\ gcpRun[l].at = "fetch"
     /\ IF ~admitDoc(it, doc) THEN LoadOver(l, NoDoc) /\ UNCHANGED gcpFile
        ELSE /\ LoadOver(l, doc)
             /\ \/ gcpFile' = [gcpFile EXCEPT ![Stem(it)] = [doc |-> doc, fresh |-> TRUE]]
                \/ UNCHANGED gcpFile
     /\ UNCHANGED <<gcpAsk, gcpAnswer>>

(* Every document is there. *)
GcpPick(l) ==
  /\ gcpRun[l].at = "load" /\ gcpRun[l].todo = {}
  /\ Lookup(l, pickMethod(gcpRun[l].docs, sought(l, gcpRun[l]).operation))
  /\ UNCHANGED <<gcpAsk, gcpFile, gcpMem, gcpLock, gcpAnswer>>

(* A lookup that found nothing looks up what follows the last slash, for   *)
(* the name to suggest and not for an answer.                              *)
GcpConclude(l) ==
  LET run == gcpRun[l]
      r == run.result
  IN /\ run.at = "looked up"
     /\ IF run.first = Unanswered /\ r.outcome = "not found" /\ Len(gcpAsk[l].operation) > 1
        THEN Set(l, Select(l, [Idle EXCEPT !.first = r])) /\ UNCHANGED gcpAnswer
        ELSE /\ Set(l, Idle)
             /\ gcpAnswer' = [gcpAnswer EXCEPT ![l] = IF run.first = Unanswered THEN r
                                                      ELSE [run.first EXCEPT !.didYouMean = r.id]]
     /\ UNCHANGED <<gcpAsk, gcpFile, gcpMem, gcpLock>>

(* An earlier process left no file, or one. *)
NoFiles == [s \in Stems |-> NoDoc]
LeftFiles ==
  {[NoFiles EXCEPT ![Stem(it)] = [doc |-> DistillDoc(Documents[it]), fresh |-> f]] :
     it \in {i \in Directory : admitDoc(i, DistillDoc(Documents[i]))}, f \in BOOLEAN}

GcpInit ==
  /\ gcpAsk \in GcpQueries /\ gcpFile \in {NoFiles} \cup LeftFiles
  /\ gcpMem = [it \in Directory |-> NoDoc] /\ gcpLock = [it \in Directory |-> NoDoc]
  /\ gcpRun = [l \in GcpCalls |-> Idle] /\ gcpAnswer = [l \in GcpCalls |-> Unanswered]

GcpNext ==
  \E l \in GcpCalls : \/ GcpReference(l) \/ docCache(l) \/ ReadDoc(l) \/ FetchFails(l) \/ FetchDoc(l)
                      \/ GcpPick(l) \/ GcpConclude(l)
-----------------------------------------------------------------------------
(* What the directory's documents really define of an operation: the       *)
(* entries of the API a query names, in the versions it covers, with every *)
(* method that has the id up to case.                                      *)
Defined(q, id) ==
  {d \in Directory \X UNION {distillResource(Documents[it]) : it \in Directory} :
     /\ {d[1].name} = apiOf(q)
     /\ IF q.model = <<>> THEN d[1].version \in Range(VersionOrder) ELSE d[1].version = q.model
     /\ Documents[d[1]].name = d[1].name /\ Documents[d[1]].version = d[1].version
     /\ d[2] \in distillResource(Documents[d[1]]) /\ fold(d[2]) = fold(id)}

(* What r may say of q: what it found is defined in the document it names  *)
(* and by no other version that would have been searched, what it did not  *)
(* find is defined nowhere, and the name it suggests is one that a lookup  *)
(* finds.                                                                  *)
Says(q, r) ==
  LET id == Last(q.operation)
      last == [q EXCEPT !.operation = <<id>>]
  IN /\ r.outcome = "found" =>
          /\ Len(q.operation) = 1
          /\ \E d \in Defined(q, id) :
               /\ r.doc = DistillDoc(Documents[d[1]]) /\ r.id = d[2]
               /\ \A e \in Defined(q, id) \ {d} : d[2] = id /\ e[2] # id
     /\ r.outcome = "not found" /\ Len(q.operation) = 1 => Defined(q, id) = {}
     /\ r.didYouMean # <<>> => \E d \in Defined(last, id) : d[2] = r.didYouMean

(* A lookup answers from the document of the entry it is about, whatever   *)
(* file that shares a stem with another's, or another URL, held (the map   *)
(* key of docCache and admitDoc).                                          *)
AnswerOfItsDocument == \A l \in GcpCalls : Says(gcpAsk[l], gcpAnswer[l])
=============================================================================
