---------------------------- MODULE SheDB_proofs ----------------------------
(***************************************************************************)
(* Proofs about SheDB, for any documents, views and definitions and any    *)
(* bounds: the state is well typed; the worker's definitions and, if       *)
(* clients leave them alone, its documents are those of the main thread    *)
(* once its messages are read; docs.json is a debounced file; and settled  *)
(* views and publications are current.                                     *)
(***************************************************************************)
EXTENDS SheDB, SequenceTheorems, FiniteSetTheorems, TLAPS

-----------------------------------------------------------------------------
(* Lemmas *)

\* A run sees a body or nothing for every document it looks at.
LEMMA MapReduceType ==
    ASSUME NEW def \in Defs, NEW ds \in [Ids -> MaybeDoc]
    PROVE  MapReduce(def, ds) \in Results
<1> DEFINE S == def.filter \cup def.reads
<1>1. S \in SUBSET Ids
  BY ConstantsOK DEF Def
<1>2. \A i \in S : BodyOf(ds[i]) \in Body \cup {NoDoc}
  BY <1>1 DEF BodyOf, MaybeDoc, Doc
<1>3. MapReduce(def, ds) \in [S -> Body \cup {NoDoc}]
  BY <1>2 DEF MapReduce
<1> QED
  BY <1>1, <1>3 DEF Results

LEMMA EmptyResultType == EmptyResult \in Results
<1>1. EmptyResult \in [{} -> Body \cup {NoDoc}]
  BY DEF EmptyResult
<1>2. {} \in SUBSET Ids
  OBVIOUS
<1> QED
  BY <1>1, <1>2 DEF Results

LEMMA FailureType == Failure \in Out
  BY EmptyResultType DEF Failure, Out

\* What a run posts is a result or an error.
LEMMA OutcomeType ==
    ASSUME NEW def \in Defs, NEW ds \in [Ids -> MaybeDoc]
    PROVE  Outcome(def, ds) \in Out
<1>1. CASE def.kind \in {"array", "mutates"}
  BY <1>1, MapReduceType DEF Outcome, Out
<1>2. CASE def.kind = "object"
  BY <1>2, EmptyResultType DEF Outcome, Out
<1>3. CASE def.kind \notin {"array", "mutates", "object"}
  BY <1>3, EmptyResultType DEF Outcome, Out
<1> QED
  BY <1>1, <1>2, <1>3

\* A view's next revision is a natural number.
LEMMA ViewRevType ==
    ASSUME NEW vs \in [ViewIds -> View \cup {NoView}], NEW v \in ViewIds
    PROVE  ViewRev(vs, v) \in Nat \cup {-1} /\ ViewRev(vs, v) + 1 \in Nat
  BY DEF ViewRev, View

\* Queueing views keeps the queue and the view at hand among the views.
LEMMA ScheduleType ==
    ASSUME NEW queue \in SUBSET ViewIds, NEW cur \in ViewIds \cup {NoView}, Schedule(queue, cur)
    PROVE  wqueue' \subseteq ViewIds /\ wcur' \in ViewIds \cup {NoView}
  BY DEF Schedule

LEMMA PostType ==
    ASSUME TypeOK, NEW ms \in Seq(Message), Post(ms)
    PROVE  inbox' \in Seq(Message) /\ worker' = worker /\ outbox' = outbox
  BY DEF TypeOK, Post

LEMMA OneMessage ==
    ASSUME NEW m \in Message
    PROVE  <<m>> \in Seq(Message) /\ Len(<<m>>) = 1 /\ <<m>>[1] = m
  OBVIOUS

\* The errors of definitions that do not compile are messages to main.
LEMMA FailuresType ==
    ASSUME NEW S \in SUBSET ViewIds, NEW order \in Orders(S)
    PROVE  [k \in DOMAIN order |-> [id |-> order[k], out |-> Failure]] \in Seq(ViewMessage)
<1> DEFINE n == Cardinality(S)
<1>1. n \in Nat
  BY ConstantsOK, FS_Subset, FS_CardinalityType
<1>2. order \in [1 .. n -> S]
  BY DEF Orders
<1>3. [k \in DOMAIN order |-> [id |-> order[k], out |-> Failure]] \in [1 .. n -> ViewMessage]
  BY <1>2, FailureType DEF ViewMessage
<1> QED
  BY <1>1, <1>3

\* A view run leaves documents.
LEMMA MutatedType ==
    ASSUME NEW def, NEW ds \in [Ids -> MaybeDoc], NEW new \in Mutated(def, ds)
    PROVE  new \in [Ids -> MaybeDoc]
<1>1. CASE def.kind # "mutates"
  BY <1>1 DEF Mutated
<1>2. CASE def.kind = "mutates"
  <2>1. PICK x \in Vals :
          new = [i \in Ids |-> IF i \in def.filter /\ ds[i] # NoDoc
                               THEN [ds[i] EXCEPT !.body = [p \in Props |-> x]]
                               ELSE ds[i]]
    BY <1>2 DEF Mutated
  <2>2. [p \in Props |-> x] \in Body
    BY DEF Body
  <2>3. ASSUME NEW i \in Ids, ds[i] # NoDoc
        PROVE  [ds[i] EXCEPT !.body = [p \in Props |-> x]] \in MaybeDoc
    BY <2>2, <2>3 DEF MaybeDoc, Doc
  <2> QED
    BY <2>1, <2>3
<1> QED
  BY <1>1, <1>2

\* The bodies that set, extend and prop store.
LEMMA MergeType ==
    ASSUME NEW old \in Body, NEW part \in Body
    PROVE  Merge(old, part) \in Body
  BY DEF Merge, Body

LEMMA EmptyBodyType == EmptyBody \in Body
  BY DEF EmptyBody, Body

LEMMA QueryMsgType ==
    ASSUME NEW v \in ViewIds, NEW def \in MaybeDef
    PROVE  QueryMsg(v, def) \in Message
  BY DEF QueryMsg, Message

LEMMA DocMsgType ==
    ASSUME NEW i \in Ids, NEW d \in MaybeDoc
    PROVE  DocMsg(i, d) \in Message
  BY DEF DocMsg, Message

LEMMA InitMsgType ==
    ASSUME NEW ds \in [Ids -> MaybeDoc], NEW qs \in [ViewIds -> MaybeDef]
    PROVE  InitMsg(ds, qs) \in Message
  BY DEF InitMsg, Message

\* The messages to the worker are told apart by their type.
LEMMA MessageTypes ==
    ASSUME NEW m \in Message
    PROVE  /\ m.type = "init" => m.docs \in [Ids -> MaybeDoc] /\ m.queries \in [ViewIds -> MaybeDef]
           /\ m.type = "doc" => m.id \in Ids /\ m.doc \in MaybeDoc
           /\ m.type = "query" => m.id \in ViewIds /\ m.def \in MaybeDef
  BY DEF Message

-----------------------------------------------------------------------------
(* Type correctness *)

\* TypeOK by variable, as the proofs below use it.
MainOK ==
    /\ docs \in [Ids -> MaybeDoc]
    /\ rev \in Nat
    /\ queries \in [ViewIds -> MaybeDef]
    /\ views \in [ViewIds -> View \cup {NoView}]
    /\ {docsTimer, viewsTimer, saveFailed} \subseteq BOOLEAN
DiskOK == disk \in FileState /\ diskViews \in [ViewIds -> View \cup {NoView}]
ChanOK ==
    /\ worker \in {"up", "dying", "null"}
    /\ inbox \in Seq(Message)
    /\ outbox \in Seq(ViewMessage)
WorkerOK ==
    /\ wdocs \in [Ids -> MaybeDoc]
    /\ wqueries \in [ViewIds -> MaybeDef]
    /\ wqueue \subseteq ViewIds
    /\ wcur \in ViewIds \cup {NoView}
PubOK == published \in [ViewIds -> Results \cup {NoView}]
CountOK == {viewOps, crashes, restarts} \subseteq Nat

LEMMA TypeParts ==
    /\ TypeOK <=> MainOK /\ DiskOK /\ ChanOK /\ WorkerOK /\ PubOK /\ CountOK
    /\ TypeOK' <=> MainOK' /\ DiskOK' /\ ChanOK' /\ WorkerOK' /\ PubOK' /\ CountOK'
<1>1. Memory \in FileState <=> docs \in [Ids -> MaybeDoc] /\ rev \in Nat /\ queries \in [ViewIds -> MaybeDef]
  BY DEF Memory, FileState
<1>2. Memory' \in FileState <=> docs' \in [Ids -> MaybeDoc] /\ rev' \in Nat /\ queries' \in [ViewIds -> MaybeDef]
  BY DEF Memory, FileState
<1> QED
  BY <1>1, <1>2, Zenon DEF TypeOK, MainOK, DiskOK, ChanOK, WorkerOK, PubOK, CountOK

\* The main thread changes a document and posts it.
LEMMA CommitType ==
    ASSUME TypeOK, NEW i \in Ids, NEW body \in Body, Commit(i, body)
    PROVE  TypeOK'
<1> USE TypeParts
<1>1. OldRev(i) + 1 \in Nat
  BY DEF OldRev, MainOK, MaybeDoc, Doc
<1>2. [body |-> body, rev |-> OldRev(i) + 1] \in MaybeDoc
  BY <1>1 DEF MaybeDoc, Doc
<1>3. docs' \in [Ids -> MaybeDoc] /\ docs'[i] \in MaybeDoc
  BY <1>2 DEF Commit, MainOK
<1>4. MainOK'
  BY <1>3 DEF Commit, MainOK
<1>5. ChanOK'
  <2>1. <<DocMsg(i, docs'[i])>> \in Seq(Message)
    BY <1>3, DocMsgType, OneMessage
  <2>2. Post(<<DocMsg(i, docs'[i])>>)
    BY DEF Commit
  <2> QED
    BY <2>1, <2>2, PostType DEF ChanOK
<1> QED
  BY <1>4, <1>5 DEF Commit, diskVars, workerVars, boundVars, DiskOK, WorkerOK, PubOK, CountOK

LEMMA DocRequestType == TypeOK /\ DocRequest => TypeOK'
<1> SUFFICES ASSUME TypeOK, DocRequest PROVE TypeOK'
  OBVIOUS
<1> USE TypeParts
<1>1. PICK i \in Ids :
        \/ \E b \in Payloads : Set(i, b)
        \/ \E b \in Partials : Extend(i, b) \/ ExtendNothing(i, b)
        \/ Del(i)
        \/ \E p \in Props, val \in Vals \cup {NoVal} : Prop(i, p, val)
  BY DEF DocRequest
<1>2. docs[i] \in MaybeDoc
  BY DEF MainOK
<1>3. docs[i] # NoDoc => docs[i].body \in Body
  BY <1>2 DEF MaybeDoc, Doc
<1>4. CASE \E b \in Payloads : Set(i, b)
  BY <1>4, CommitType, ConstantsOK DEF Set
<1>5. CASE \E b \in Partials : Extend(i, b)
  <2>1. PICK b \in Partials : Extend(i, b)
    BY <1>5
  <2> DEFINE old == IF docs[i] = NoDoc THEN EmptyBody ELSE docs[i].body
  <2>2. Merge(old, b) \in Body
    BY <1>3, MergeType, EmptyBodyType, ConstantsOK
  <2> QED
    BY <2>1, <2>2, CommitType DEF Extend
<1>6. CASE \E b \in Partials : ExtendNothing(i, b)
  <2>1. [body |-> EmptyBody, rev |-> -1] \in MaybeDoc
    BY EmptyBodyType DEF MaybeDoc, Doc
  <2>2. MainOK'
    BY <1>6, <2>1 DEF ExtendNothing, MainOK
  <2> QED
    BY <1>6, <2>2 DEF ExtendNothing, diskVars, workerVars, chanVars, boundVars,
                      DiskOK, ChanOK, WorkerOK, PubOK, CountOK
<1>7. CASE Del(i)
  <2> DEFINE again == OnDelete[i]
             doc == IF again = NoDoc THEN NoDoc ELSE [body |-> again, rev |-> 0]
             ms == IF again = NoDoc THEN <<DocMsg(i, NoDoc)>>
                   ELSE <<DocMsg(i, doc), DocMsg(i, NoDoc)>>
  <2>1. doc \in MaybeDoc /\ NoDoc \in MaybeDoc
    BY ConstantsOK DEF MaybeDoc, Doc
  <2>2. MainOK'
    BY <1>7, <2>1 DEF Del, MainOK
  <2>3. ms \in Seq(Message)
    <3>1. DocMsg(i, doc) \in Message /\ DocMsg(i, NoDoc) \in Message
      BY <2>1, DocMsgType
    <3> QED
      BY <3>1
  <2>4. ChanOK'
    BY <1>7, <2>3, PostType DEF Del, ChanOK
  <2> QED
    BY <1>7, <2>2, <2>4 DEF Del, diskVars, workerVars, boundVars, DiskOK, WorkerOK, PubOK, CountOK
<1>8. CASE \E p \in Props, val \in Vals \cup {NoVal} : Prop(i, p, val)
  <2>1. PICK p \in Props, val \in Vals \cup {NoVal} : Prop(i, p, val)
    BY <1>8
  <2>2. [docs[i].body EXCEPT ![p] = val] \in Body
    BY <2>1, <1>3 DEF Prop, Body
  <2> QED
    BY <2>1, <2>2, CommitType DEF Prop
<1> QED
  BY <1>1, <1>4, <1>5, <1>6, <1>7, <1>8

LEMMA ViewRequestType == TypeOK /\ ViewRequest => TypeOK'
<1> SUFFICES ASSUME TypeOK, ViewRequest PROVE TypeOK'
  OBVIOUS
<1> USE TypeParts
<1>1. PICK v \in ViewIds : (\E def \in Defs : Define(v, def) \/ DefineBad(v, def)) \/ Undefine(v)
  BY DEF ViewRequest
<1>2. ViewRev(views, v) + 1 \in Nat
  BY ViewRevType DEF MainOK
<1>3. CASE \E def \in Defs : Define(v, def)
  <2>1. PICK def \in Defs : Define(v, def)
    BY <1>3
  <2>2. def \in MaybeDef
    BY DEF MaybeDef
  <2>3. MainOK'
    BY <2>1, <2>2 DEF Define, MainOK
  <2>4. ChanOK'
    <3>1. <<QueryMsg(v, def)>> \in Seq(Message)
      BY <2>2, QueryMsgType, OneMessage
    <3> QED
      BY <2>1, <3>1, PostType DEF Define, ChanOK
  <2>5. PubOK'
    BY <2>1 DEF Define, PubOK, MainOK, View, Out
  <2>6. CountOK'
    BY <2>1 DEF Define, CountOK
  <2> QED
    BY <2>1, <2>3, <2>4, <2>5, <2>6 DEF Define, diskVars, workerVars, DiskOK, WorkerOK
<1>4. CASE \E def \in Defs : DefineBad(v, def)
  <2>1. PICK def \in Defs : DefineBad(v, def)
    BY <1>4
  <2>2. [rev |-> ViewRev(views, v) + 1, out |-> Failure] \in View
    BY <1>2, FailureType DEF View
  <2>3. MainOK'
    BY <2>1, <2>2 DEF DefineBad, MainOK, MaybeDef
  <2>4. CountOK'
    BY <2>1 DEF DefineBad, CountOK
  <2> QED
    BY <2>1, <2>3, <2>4 DEF DefineBad, diskVars, workerVars, chanVars, DiskOK, WorkerOK, ChanOK, PubOK
<1>5. CASE Undefine(v)
  <2>1. MainOK'
    BY <1>5 DEF Undefine, MainOK, MaybeDef
  <2>2. ChanOK'
    <3>1. <<QueryMsg(v, NoDef)>> \in Seq(Message)
      BY QueryMsgType, OneMessage DEF MaybeDef
    <3> QED
      BY <1>5, <3>1, PostType DEF Undefine, ChanOK
  <2>3. CountOK'
    BY <1>5 DEF Undefine, CountOK
  <2> QED
    BY <1>5, <2>1, <2>2, <2>3 DEF Undefine, diskVars, workerVars, DiskOK, WorkerOK, PubOK
<1> QED
  BY <1>1, <1>3, <1>4, <1>5

LEMMA WorkerReceiveType == TypeOK /\ WorkerReceive => TypeOK'
<1> SUFFICES ASSUME TypeOK, WorkerReceive PROVE TypeOK'
  OBVIOUS
<1> USE TypeParts
<1> DEFINE m == Head(inbox)
<1>1. inbox \in Seq(Message) /\ inbox # <<>>
  BY DEF WorkerReceive, ChanOK
<1>2. m \in Message /\ inbox' \in Seq(Message)
  BY <1>1 DEF WorkerReceive
<1>3. WorkerOK' /\ outbox' \in Seq(ViewMessage)
  <2>1. CASE WorkerInit
    <3> DEFINE bad == {v \in ViewIds : m.queries[v] # NoDef /\ ~Compiles(m.queries[v])}
               good == {v \in ViewIds : m.queries[v] # NoDef /\ Compiles(m.queries[v])}
    <3>1. m.docs \in [Ids -> MaybeDoc] /\ m.queries \in [ViewIds -> MaybeDef]
      BY <1>2, <2>1, MessageTypes DEF WorkerInit
    <3>2. wqueue' \subseteq ViewIds /\ wcur' \in ViewIds \cup {NoView}
      <4>1. Schedule(good, wcur)
        BY <2>1 DEF WorkerInit
      <4>2. good \in SUBSET ViewIds /\ wcur \in ViewIds \cup {NoView}
        BY DEF WorkerOK
      <4> HIDE DEF good
      <4> QED
        BY <4>1, <4>2, ScheduleType
    <3>3. wdocs' \in [Ids -> MaybeDoc] /\ wqueries' \in [ViewIds -> MaybeDef]
      BY <2>1, <3>1 DEF WorkerInit, MaybeDef
    <3>4. outbox' \in Seq(ViewMessage)
      <4>1. PICK order \in Orders(bad) :
              outbox' = outbox \o [k \in DOMAIN order |-> [id |-> order[k], out |-> Failure]]
        BY <2>1 DEF WorkerInit
      <4>2. bad \in SUBSET ViewIds /\ outbox \in Seq(ViewMessage)
        BY DEF ChanOK
      <4> HIDE DEF bad
      <4>3. [k \in DOMAIN order |-> [id |-> order[k], out |-> Failure]] \in Seq(ViewMessage)
        BY <4>2, FailuresType
      <4> QED
        BY <4>1, <4>2, <4>3, ConcatProperties
    <3> QED
      BY <3>2, <3>3, <3>4 DEF WorkerOK
  <2>2. CASE WorkerDoc
    <3>1. m.id \in Ids /\ m.doc \in MaybeDoc
      BY <1>2, <2>2, MessageTypes DEF WorkerDoc, ReplaceDoc
    <3>2. Schedule(wqueue \cup Matching(m.id), wcur)
      BY <2>2 DEF WorkerDoc, ReplaceDoc
    <3>3. wqueue \cup Matching(m.id) \in SUBSET ViewIds /\ wcur \in ViewIds \cup {NoView}
      BY DEF WorkerOK, Matching
    <3>4. wqueue' \subseteq ViewIds /\ wcur' \in ViewIds \cup {NoView}
      BY <3>2, <3>3, ScheduleType
    <3> QED
      BY <2>2, <3>1, <3>4 DEF WorkerDoc, ReplaceDoc, WorkerOK, ChanOK
  <2>3. CASE WorkerQuery
    <3>1. m.id \in ViewIds /\ m.def \in MaybeDef
      BY <1>2, <2>3, MessageTypes DEF WorkerQuery
    <3>2. wqueries' \in [ViewIds -> MaybeDef] /\ wdocs' = wdocs
      BY <2>3, <3>1 DEF WorkerQuery, WorkerOK
    <3>3. CASE m.def = NoDef
      <4>1. [id |-> m.id, out |-> Deleted] \in ViewMessage
        BY <3>1 DEF ViewMessage
      <4>2. /\ wqueue' = wqueue \ {m.id} /\ wcur' = wcur
            /\ outbox' = Append(outbox, [id |-> m.id, out |-> Deleted])
        BY <2>3, <3>3 DEF WorkerQuery
      <4> QED
        BY <3>2, <4>1, <4>2 DEF WorkerOK, ChanOK
    <3>4. CASE m.def # NoDef
      <4>1. Schedule(wqueue \cup {m.id}, wcur) /\ outbox' = outbox
        BY <2>3, <3>4 DEF WorkerQuery
      <4>2. wqueue \cup {m.id} \in SUBSET ViewIds /\ wcur \in ViewIds \cup {NoView}
        BY <3>1 DEF WorkerOK
      <4> QED
        BY <3>2, <4>1, <4>2, ScheduleType DEF WorkerOK, ChanOK
    <3> QED
      BY <3>3, <3>4
  <2> QED
    BY <2>1, <2>2, <2>3 DEF WorkerReceive
<1> QED
  BY <1>2, <1>3 DEF WorkerReceive, mainVars, diskVars, boundVars, MainOK, DiskOK, ChanOK, PubOK, CountOK

LEMMA WorkerRunType ==
    ASSUME TypeOK, NEW v \in ViewIds, WorkerRun(v)
    PROVE  TypeOK'
<1> USE TypeParts
<1>1. wdocs' \in [Ids -> MaybeDoc] /\ outbox' \in Seq(ViewMessage)
  <2>1. CASE wqueries[v] = NoDef
    BY <2>1 DEF WorkerRun, WorkerOK, ChanOK
  <2>2. CASE wqueries[v] # NoDef
    <3>1. PICK ds \in Mutated(wqueries[v], wdocs) :
            wdocs' = ds /\ outbox' = Append(outbox, [id |-> v, out |-> Outcome(wqueries[v], ds)])
      BY <2>2 DEF WorkerRun
    <3>2. wqueries[v] \in Defs
      BY <2>2 DEF WorkerOK, MaybeDef
    <3>3. ds \in [Ids -> MaybeDoc]
      BY <3>1, MutatedType DEF WorkerOK
    <3>4. [id |-> v, out |-> Outcome(wqueries[v], ds)] \in ViewMessage
      BY <3>2, <3>3, OutcomeType DEF ViewMessage
    <3> QED
      BY <3>1, <3>3, <3>4 DEF ChanOK
  <2> QED
    BY <2>1, <2>2
<1>2. wqueue' \subseteq ViewIds /\ wcur' \in ViewIds \cup {NoView}
  <2>1. Schedule(wqueue, NoView)
    BY DEF WorkerRun
  <2> QED
    BY <2>1, ScheduleType DEF WorkerOK
<1> QED
  BY <1>1, <1>2 DEF WorkerRun, mainVars, diskVars, boundVars, MainOK, DiskOK, ChanOK, WorkerOK, PubOK, CountOK

LEMMA MainReceiveType == TypeOK /\ MainReceive => TypeOK'
<1> SUFFICES ASSUME TypeOK, MainReceive PROVE TypeOK'
  OBVIOUS
<1> USE TypeParts
<1> DEFINE m == Head(outbox)
<1>1. m \in ViewMessage /\ outbox' \in Seq(ViewMessage)
  BY DEF MainReceive, ChanOK
<1>2. m.id \in ViewIds /\ m.out \in Out \cup {Deleted}
  BY <1>1 DEF ViewMessage
<1>3. m.out.kind \in {"result", "error"} => m.out \in Out
  BY <1>2 DEF Deleted
<1>4. ViewRev(views, m.id) \in Nat \cup {-1} /\ ViewRev(views, m.id) + 1 \in Nat
  BY <1>2, ViewRevType DEF MainOK
<1>5. views' \in [ViewIds -> View \cup {NoView}]
  <2>1. CASE views' = views
    BY <2>1 DEF MainOK
  <2>2. CASE /\ m.out \in Out
             /\ \E r \in Nat \cup {-1} : views' = [views EXCEPT ![m.id] = [rev |-> r, out |-> m.out]]
    <3>1. PICK r \in Nat \cup {-1} : views' = [views EXCEPT ![m.id] = [rev |-> r, out |-> m.out]]
      BY <2>2
    <3>2. [rev |-> r, out |-> m.out] \in View
      BY <2>2 DEF View
    <3> QED
      BY <3>1, <3>2 DEF MainOK
  <2> QED
    BY <1>2, <1>3, <1>4, <2>1, <2>2 DEF MainReceive
<1>6. {viewsTimer'} \subseteq BOOLEAN
  BY Zenon DEF MainReceive, MainOK
<1>7. PubOK'
  <2>1. m.out \in Out => m.out.result \in Results
    BY DEF Out
  <2> QED
    BY <1>2, <1>3, <2>1 DEF MainReceive, PubOK
<1>8. MainOK'
  BY <1>5, <1>6 DEF MainReceive, MainOK
<1> QED
  BY <1>1, <1>7, <1>8 DEF MainReceive, diskVars, workerVars, boundVars, DiskOK, ChanOK, WorkerOK, CountOK

LEMMA SaveType == TypeOK /\ (SaveDocs \/ SaveDocsFails \/ SaveViews) => TypeOK'
<1> SUFFICES ASSUME TypeOK, SaveDocs \/ SaveDocsFails \/ SaveViews PROVE TypeOK'
  OBVIOUS
<1> USE TypeParts
<1>1. MainOK'
  BY DEF SaveDocs, SaveDocsFails, SaveViews, MainOK
<1>2. DiskOK'
  <2>1. Memory \in FileState
    BY DEF TypeOK
  <2> QED
    BY <2>1 DEF SaveDocs, SaveDocsFails, SaveViews, diskVars, DiskOK, MainOK
<1> QED
  BY <1>1, <1>2 DEF SaveDocs, SaveDocsFails, SaveViews, workerVars, chanVars, boundVars,
                    ChanOK, WorkerOK, PubOK, CountOK

\* An empty replica, as a worker has it before its first message.
LEMMA EmptyReplica ==
    NoDocs \in [Ids -> MaybeDoc] /\ NoDefs \in [ViewIds -> MaybeDef]
  BY DEF NoDocs, NoDefs, MaybeDoc, MaybeDef

LEMMA CrashType == TypeOK /\ (WorkerCrash \/ WorkerExit \/ Respawn) => TypeOK'
<1> SUFFICES ASSUME TypeOK, WorkerCrash \/ WorkerExit \/ Respawn PROVE TypeOK'
  OBVIOUS
<1> USE TypeParts
<1>1. CASE WorkerCrash
  <2>1. WorkerOK' /\ ChanOK'
    BY <1>1, EmptyReplica DEF WorkerCrash, WorkerOK, ChanOK
  <2>2. CountOK'
    BY <1>1 DEF WorkerCrash, CountOK
  <2> QED
    BY <1>1, <2>1, <2>2 DEF WorkerCrash, mainVars, diskVars, MainOK, DiskOK, PubOK
<1>2. CASE WorkerExit
  BY <1>2 DEF WorkerExit, mainVars, diskVars, workerVars, boundVars,
              MainOK, DiskOK, ChanOK, WorkerOK, PubOK, CountOK
<1>3. CASE Respawn
  <2>1. <<InitMsg(docs, queries)>> \in Seq(Message)
    BY InitMsgType, OneMessage DEF MainOK
  <2>2. ChanOK'
    BY <1>3, <2>1 DEF Respawn, RespawnWith, ChanOK
  <2> QED
    BY <1>3, <2>2 DEF Respawn, RespawnWith, mainVars, diskVars, workerVars, boundVars,
                      MainOK, DiskOK, WorkerOK, PubOK, CountOK
<1> QED
  BY <1>1, <1>2, <1>3

LEMMA RestartType == TypeOK /\ Restart => TypeOK'
<1> SUFFICES ASSUME TypeOK, Restart PROVE TypeOK'
  OBVIOUS
<1> USE TypeParts
<1>1. /\ disk.docs \in [Ids -> MaybeDoc] /\ disk.rev \in Nat
      /\ disk.queries \in [ViewIds -> MaybeDef]
  BY DEF DiskOK, FileState
<1>2. LoadViews(disk.queries, diskViews) \in [ViewIds -> View \cup {NoView}]
  <2>1. ASSUME NEW v \in ViewIds
        PROVE  [rev |-> ViewRev(diskViews, v) + 1, out |-> Failure] \in View
    BY ViewRevType, FailureType DEF DiskOK, View
  <2> QED
    BY <2>1 DEF LoadViews, DiskOK
<1>3. MainOK'
  BY <1>1, <1>2 DEF Restart, RestartWith, MainOK
<1>4. ChanOK'
  <2>1. <<InitMsg(disk.docs, disk.queries)>> \in Seq(Message)
    BY <1>1, InitMsgType, OneMessage
  <2> QED
    BY <2>1 DEF Restart, RestartWith, ChanOK
<1>5. WorkerOK'
  BY EmptyReplica DEF Restart, RestartWith, WorkerOK
<1>6. CountOK'
  BY DEF Restart, RestartWith, CountOK
<1> QED
  BY <1>3, <1>4, <1>5, <1>6 DEF Restart, RestartWith, diskVars, DiskOK, PubOK

LEMMA InitTypeOK == Init => TypeOK
<1> SUFFICES ASSUME Init PROVE TypeOK
  OBVIOUS
<1> USE TypeParts, EmptyReplica
<1>1. <<InitMsg(NoDocs, NoDefs)>> \in Seq(Message)
  BY InitMsgType, OneMessage
<1>2. MainOK /\ WorkerOK
  BY DEF Init, MainOK, WorkerOK
<1>3. DiskOK
  BY DEF Init, DiskOK, FileState
<1> QED
  BY <1>1, <1>2, <1>3 DEF Init, ChanOK, PubOK, CountOK

LEMMA NextTypeOK == TypeOK /\ [Next]_vars => TypeOK'
<1> SUFFICES ASSUME TypeOK, [Next]_vars PROVE TypeOK'
  OBVIOUS
<1>1. CASE UNCHANGED vars
  BY <1>1 DEF vars, mainVars, diskVars, workerVars, chanVars, boundVars, TypeOK, Memory
<1>2. CASE WorkerStep
  BY <1>2, WorkerReceiveType, WorkerRunType DEF WorkerStep
<1> QED
  BY <1>1, <1>2, DocRequestType, ViewRequestType, MainReceiveType, SaveType, CrashType,
     RestartType DEF Next

\* Every variable of the store, its worker and its files keeps its type, for any
\* documents, views, definitions and bounds.
THEOREM TypeCorrect == Spec => []TypeOK
  BY InitTypeOK, NextTypeOK, PTL DEF Spec

-----------------------------------------------------------------------------
(* The inbox *)

\* What is posted to a living worker waits behind what waits already.
LEMMA Posted ==
    ASSUME TypeOK, worker = "up", NEW ms \in Seq(Message), Post(ms)
    PROVE  /\ Len(inbox') = Len(inbox) + Len(ms)
           /\ DOMAIN inbox = 1 .. Len(inbox) /\ DOMAIN inbox' = 1 .. Len(inbox')
           /\ Len(inbox) \in Nat /\ Len(ms) \in Nat
           /\ \A k \in 1 .. Len(inbox) : inbox'[k] = inbox[k]
           /\ \A k \in 1 .. Len(ms) : inbox'[Len(inbox) + k] = ms[k]
<1>1. inbox \in Seq(Message) /\ inbox' = inbox \o ms
  BY DEF TypeOK, Post
<1> QED
  BY <1>1

\* Reading the inbox moves every message one place ahead.
LEMMA Received ==
    ASSUME TypeOK, WorkerReceive
    PROVE  /\ Len(inbox) \in Nat \ {0} /\ Len(inbox') = Len(inbox) - 1
           /\ DOMAIN inbox = 1 .. Len(inbox) /\ DOMAIN inbox' = 1 .. Len(inbox) - 1
           /\ Head(inbox) = inbox[1] /\ inbox[1] \in Message
           /\ \A k \in 1 .. Len(inbox) - 1 : inbox'[k] = inbox[k + 1]
<1>1. inbox \in Seq(Message) /\ inbox # <<>> /\ inbox' = Tail(inbox)
  BY DEF TypeOK, WorkerReceive
<1> QED
  BY <1>1

\* A worker that was just started has one message to read.
LEMMA OneWaits ==
    ASSUME NEW ds, NEW qs
    PROVE  /\ DOMAIN <<InitMsg(ds, qs)>> = {1}
           /\ <<InitMsg(ds, qs)>>[1].type = "init"
           /\ <<InitMsg(ds, qs)>>[1].docs = ds /\ <<InitMsg(ds, qs)>>[1].queries = qs
  BY DEF InitMsg

\* What a request about documents posts, if anything, is about documents.
OnlyDocs(ms) == \A k \in 1 .. Len(ms) : ms[k].type = "doc"

LEMMA OneDoc ==
    ASSUME NEW i \in Ids, NEW d \in MaybeDoc
    PROVE  <<DocMsg(i, d)>> \in Seq(Message) /\ OnlyDocs(<<DocMsg(i, d)>>)
<1>1. DocMsg(i, d) \in Message /\ DocMsg(i, d).type = "doc"
  BY DocMsgType DEF DocMsg
<1> QED
  BY <1>1, OneMessage DEF OnlyDocs

\* set, extend and prop post the document they have changed.
LEMMA CommitPosts ==
    ASSUME TypeOK, NEW i \in Ids, NEW body \in Body, Commit(i, body)
    PROVE  docs'[i] \in MaybeDoc /\ docs' = [docs EXCEPT ![i] = docs'[i]]
           /\ Post(<<DocMsg(i, docs'[i])>>)
           /\ UNCHANGED <<queries, wqueries, wdocs>>
<1>1. docs \in [Ids -> MaybeDoc] /\ docs' \in [Ids -> MaybeDoc]
  BY CommitType, TypeParts DEF MainOK
<1> QED
  BY <1>1 DEF Commit, workerVars

\* A request about documents commits a change, creates an untold document, or
\* deletes one.
LEMMA DocRequestCases ==
    ASSUME TypeOK, DocRequest
    PROVE  \E i \in Ids :
             \/ \E body \in Body : Commit(i, body)
             \/ \E b \in Partials : ExtendNothing(i, b)
             \/ Del(i)
<1>1. PICK i \in Ids :
        \/ \E b \in Payloads : Set(i, b)
        \/ \E b \in Partials : Extend(i, b) \/ ExtendNothing(i, b)
        \/ Del(i)
        \/ \E p \in Props, val \in Vals \cup {NoVal} : Prop(i, p, val)
  BY DEF DocRequest
<1>2. docs[i] # NoDoc => docs[i].body \in Body
  BY TypeParts DEF MainOK, MaybeDoc, Doc
<1>3. CASE \E b \in Payloads : Set(i, b)
  BY <1>3, ConstantsOK DEF Set
<1>4. CASE \E b \in Partials : Extend(i, b)
  <2>1. PICK b \in Partials : Extend(i, b)
    BY <1>4
  <2> DEFINE old == IF docs[i] = NoDoc THEN EmptyBody ELSE docs[i].body
  <2>2. Merge(old, b) \in Body
    BY <1>2, MergeType, EmptyBodyType, ConstantsOK
  <2> QED
    BY <2>1, <2>2 DEF Extend
<1>5. CASE \E p \in Props, val \in Vals \cup {NoVal} : Prop(i, p, val)
  <2>1. PICK p \in Props, val \in Vals \cup {NoVal} : Prop(i, p, val)
    BY <1>5
  <2>2. [docs[i].body EXCEPT ![p] = val] \in Body
    BY <2>1, <1>2 DEF Prop, Body
  <2> QED
    BY <2>1, <2>2 DEF Prop
<1> QED
  BY <1>1, <1>3, <1>4, <1>5

-----------------------------------------------------------------------------
(* View definitions *)

\* Messages about other things keep a definition in sync.
LEMMA OthersPosted ==
    ASSUME TypeOK, worker = "up", NEW ms \in Seq(Message), Post(ms), NEW v \in ViewIds,
           \A k \in 1 .. Len(ms) : ~TouchesView(ms[k], v),
           queries'[v] = queries[v], wqueries' = wqueries, DefSynced(v)
    PROVE  DefSynced(v)'
<1>1. \A k \in DOMAIN inbox' : TouchesView(inbox'[k], v) => k \in DOMAIN inbox
  <2>1. ASSUME NEW k \in DOMAIN inbox', k \notin DOMAIN inbox
        PROVE  ~TouchesView(inbox'[k], v)
    <3>1. k - Len(inbox) \in 1 .. Len(ms) /\ k = Len(inbox) + (k - Len(inbox))
      BY <2>1, Posted
    <3>2. inbox'[k] = ms[k - Len(inbox)]
      BY <3>1, Posted
    <3> QED
      BY <3>1, <3>2
  <2> QED
    BY <2>1
<1>2. \A k \in DOMAIN inbox : k \in DOMAIN inbox' /\ inbox'[k] = inbox[k]
  BY Posted
<1>3. \A k \in DOMAIN inbox' : LastViewMsg(k, v)' => k \in DOMAIN inbox /\ LastViewMsg(k, v)
  BY <1>1, <1>2 DEF LastViewMsg
<1>4. \A k \in DOMAIN inbox' : LastViewMsg(k, v)' => DefIn(inbox'[k], v) = queries'[v]
  BY <1>2, <1>3 DEF DefSynced
<1>5. (\A k \in DOMAIN inbox' : ~TouchesView(inbox'[k], v)) => wqueries'[v] = queries'[v]
  BY <1>2 DEF DefSynced
<1> QED
  BY <1>4, <1>5 DEF DefSynced

\* The message about a definition brings it in sync.
LEMMA DefPosted ==
    ASSUME TypeOK, worker = "up", NEW v \in ViewIds, NEW def \in MaybeDef,
           Post(<<QueryMsg(v, def)>>), queries'[v] = def
    PROVE  DefSynced(v)'
<1> DEFINE ms == <<QueryMsg(v, def)>>
           n == Len(inbox) + 1
<1>1. ms \in Seq(Message) /\ Len(ms) = 1 /\ ms[1] = QueryMsg(v, def) /\ Post(ms)
  BY QueryMsgType, OneMessage
<1> HIDE DEF ms
<1>2. Len(inbox) \in Nat /\ DOMAIN inbox' = 1 .. n /\ inbox'[n] = ms[1]
  <2>1. /\ Len(inbox') = Len(inbox) + Len(ms)
        /\ DOMAIN inbox' = 1 .. Len(inbox')
        /\ Len(inbox) \in Nat
        /\ \A k \in 1 .. Len(ms) : inbox'[Len(inbox) + k] = ms[k]
    BY <1>1, Posted
  <2> QED
    BY <1>1, <2>1
<1>3. n \in DOMAIN inbox' /\ inbox'[n] = QueryMsg(v, def) /\ \A k \in DOMAIN inbox' : k <= n
  BY <1>1, <1>2
<1>4. TouchesView(inbox'[n], v) /\ DefIn(inbox'[n], v) = def
  BY <1>3 DEF TouchesView, DefIn, QueryMsg
<1>5. \A k \in DOMAIN inbox' : LastViewMsg(k, v)' => k = n
  BY <1>2, <1>3, <1>4 DEF LastViewMsg
<1> QED
  BY <1>3, <1>4, <1>5 DEF DefSynced

\* A message that is read has its effect on the worker's definition.
LEMMA DefReceived ==
    ASSUME TypeOK, WorkerReceive, NEW v \in ViewIds, Sent(v), DefSynced(v)
    PROVE  DefSynced(v)'
<1> DEFINE m == Head(inbox)
<1>1. queries' = queries
  BY DEF WorkerReceive, mainVars
<1>2. \A k \in DOMAIN inbox' : LastViewMsg(k, v)' => k + 1 \in DOMAIN inbox /\ LastViewMsg(k + 1, v)
  <2> SUFFICES ASSUME NEW k \in DOMAIN inbox', LastViewMsg(k, v)'
               PROVE  k + 1 \in DOMAIN inbox /\ LastViewMsg(k + 1, v)
    OBVIOUS
  <2>1. k + 1 \in DOMAIN inbox /\ TouchesView(inbox[k + 1], v)
    BY Received DEF LastViewMsg
  <2>2. ASSUME NEW j \in DOMAIN inbox, TouchesView(inbox[j], v) PROVE j <= k + 1
    <3>1. CASE j = 1
      BY <3>1, Received
    <3>2. CASE j # 1
      <4>1. j - 1 \in DOMAIN inbox' /\ inbox'[j - 1] = inbox[j]
        BY <3>2, Received
      <4>2. j - 1 <= k
        BY <4>1, <2>2 DEF LastViewMsg
      <4> QED
        BY <4>2, Received
    <3> QED
      BY <3>1, <3>2
  <2> QED
    BY <2>1, <2>2 DEF LastViewMsg
<1>3. \A k \in DOMAIN inbox' : LastViewMsg(k, v)' => DefIn(inbox'[k], v) = queries'[v]
  BY <1>1, <1>2, Received DEF DefSynced
<1>4. ASSUME \A k \in DOMAIN inbox' : ~TouchesView(inbox'[k], v)
      PROVE  wqueries'[v] = queries'[v]
  <2>1. \A j \in DOMAIN inbox : j # 1 => ~TouchesView(inbox[j], v)
    <3> SUFFICES ASSUME NEW j \in DOMAIN inbox, j # 1 PROVE ~TouchesView(inbox[j], v)
      OBVIOUS
    <3>1. j - 1 \in DOMAIN inbox' /\ inbox'[j - 1] = inbox[j]
      BY Received
    <3> QED
      BY <3>1, <1>4
  <2>2. m = inbox[1] /\ 1 \in DOMAIN inbox /\ m \in Message
    BY Received
  <2>3. CASE TouchesView(m, v)
    <3>1. LastViewMsg(1, v)
      BY <2>1, <2>2, <2>3 DEF LastViewMsg
    <3>2. DefIn(m, v) = queries[v]
      BY <3>1, <2>2 DEF DefSynced
    <3>3. CASE WorkerInit
      BY <3>2, <3>3, <1>1 DEF WorkerInit, DefIn, Sent
    <3>4. CASE WorkerDoc
      BY <2>3, <3>4 DEF WorkerDoc, ReplaceDoc, TouchesView
    <3>5. CASE WorkerQuery
      BY <2>3, <3>2, <3>5, <1>1 DEF WorkerQuery, DefIn, TouchesView, TypeOK
    <3> QED
      BY <3>3, <3>4, <3>5 DEF WorkerReceive
  <2>4. CASE ~TouchesView(m, v)
    <3>1. wqueries[v] = queries[v]
      BY <2>1, <2>2, <2>4 DEF DefSynced
    <3>2. wqueries'[v] = wqueries[v]
      BY <2>4 DEF WorkerReceive, WorkerInit, WorkerDoc, ReplaceDoc, WorkerQuery, TouchesView, TypeOK
    <3> QED
      BY <3>1, <3>2, <1>1
  <2> QED
    BY <2>3, <2>4
<1> QED
  BY <1>3, <1>4 DEF DefSynced

\* A started worker gets all definitions in its first message.
LEMMA DefsSentAtStart ==
    ASSUME NEW ds, NEW qs, inbox' = <<InitMsg(ds, qs)>>, queries' = qs, NEW v \in ViewIds
    PROVE  DefSynced(v)'
<1>1. DOMAIN inbox' = {1} /\ inbox'[1].type = "init" /\ inbox'[1].queries = qs
  BY OneWaits
<1> QED
  BY <1>1 DEF DefSynced, LastViewMsg, TouchesView, DefIn

LEMMA NextDefsInSync == TypeOK /\ DefsInSync /\ [Next]_vars => DefsInSync'
<1> SUFFICES ASSUME TypeOK, DefsInSync, [Next]_vars, worker' = "up",
                    NEW v \in ViewIds, Sent(v)'
             PROVE  DefSynced(v)'
  BY DEF DefsInSync
<1>1. ASSUME UNCHANGED <<worker, inbox, queries, wqueries>>
      PROVE  DefSynced(v)'
  BY <1>1 DEF DefsInSync, DefSynced, LastViewMsg, Sent
<1>2. ASSUME worker = "up", queries'[v] = queries[v], wqueries' = wqueries,
             NEW ms \in Seq(Message), Post(ms), \A k \in 1 .. Len(ms) : ~TouchesView(ms[k], v)
      PROVE  DefSynced(v)'
  BY <1>2, OthersPosted DEF DefsInSync, Sent
<1>3. CASE DocRequest
  <2>1. PICK i \in Ids :
          \/ \E body \in Body : Commit(i, body)
          \/ \E b \in Partials : ExtendNothing(i, b)
          \/ Del(i)
    BY <1>3, DocRequestCases
  <2>2. ASSUME worker = "up", queries' = queries, wqueries' = wqueries,
               NEW ms \in Seq(Message), Post(ms), OnlyDocs(ms)
        PROVE  DefSynced(v)'
    <3>1. \A k \in 1 .. Len(ms) : ~TouchesView(ms[k], v)
      BY <2>2 DEF OnlyDocs, TouchesView
    <3> QED
      BY <1>2, <2>2, <3>1
  <2>3. CASE \E body \in Body : Commit(i, body)
    BY <2>2, <2>3, CommitPosts, OneDoc DEF Post
  <2>4. CASE \E b \in Partials : ExtendNothing(i, b)
    BY <1>1, <2>4 DEF ExtendNothing, chanVars, workerVars
  <2>5. CASE Del(i)
    <3> DEFINE again == OnDelete[i]
               doc == IF again = NoDoc THEN NoDoc ELSE [body |-> again, rev |-> 0]
               two == <<DocMsg(i, doc), DocMsg(i, NoDoc)>>
    <3>1. doc \in MaybeDoc /\ NoDoc \in MaybeDoc
      BY ConstantsOK DEF MaybeDoc, Doc
    <3>2. two \in Seq(Message) /\ OnlyDocs(two)
      <4>1. DocMsg(i, doc) \in Message /\ DocMsg(i, NoDoc) \in Message
        BY <3>1, DocMsgType
      <4>2. DocMsg(i, doc).type = "doc" /\ DocMsg(i, NoDoc).type = "doc"
        BY DEF DocMsg
      <4> QED
        BY <4>1, <4>2 DEF OnlyDocs
    <3>3. <<DocMsg(i, NoDoc)>> \in Seq(Message) /\ OnlyDocs(<<DocMsg(i, NoDoc)>>)
      BY <3>1, OneDoc
    <3>4. Post(two) \/ Post(<<DocMsg(i, NoDoc)>>)
      BY <2>5 DEF Del
    <3>5. UNCHANGED <<queries, wqueries, worker>>
      BY <2>5, <3>4 DEF Del, Post, workerVars
    <3> QED
      BY <2>2, <3>2, <3>3, <3>4, <3>5
  <2> QED
    BY <2>1, <2>3, <2>4, <2>5
<1>4. CASE ViewRequest
  <2>1. PICK u \in ViewIds : (\E def \in Defs : Define(u, def) \/ DefineBad(u, def)) \/ Undefine(u)
    BY <1>4 DEF ViewRequest
  <2>2. ASSUME worker = "up", NEW def \in MaybeDef, Post(<<QueryMsg(u, def)>>),
               queries' = [queries EXCEPT ![u] = def], wqueries' = wqueries
        PROVE  DefSynced(v)'
    <3>1. CASE u = v
      <4>1. queries'[v] = def
        BY <2>2, <3>1, TypeParts DEF MainOK
      <4> QED
        BY <2>2, <3>1, <4>1, DefPosted
    <3>2. CASE u # v
      <4>1. <<QueryMsg(u, def)>> \in Seq(Message)
            /\ Len(<<QueryMsg(u, def)>>) = 1 /\ <<QueryMsg(u, def)>>[1] = QueryMsg(u, def)
        BY <2>2, QueryMsgType, OneMessage
      <4>2. ~TouchesView(QueryMsg(u, def), v)
        BY <3>2 DEF TouchesView, QueryMsg
      <4>3. \A k \in 1 .. Len(<<QueryMsg(u, def)>>) : ~TouchesView(<<QueryMsg(u, def)>>[k], v)
        BY <4>1, <4>2
      <4>4. queries'[v] = queries[v]
        BY <2>2, <3>2, TypeParts DEF MainOK
      <4> QED
        BY <1>2, <2>2, <4>1, <4>3, <4>4
    <3> QED
      BY <3>1, <3>2
  <2>3. CASE \E def \in Defs : Define(u, def)
    BY <2>2, <2>3 DEF Define, Post, workerVars, MaybeDef
  <2>4. CASE \E def \in Defs : DefineBad(u, def)
    <3>1. PICK def \in Defs : DefineBad(u, def)
      BY <2>4
    <3>2. queries' = [queries EXCEPT ![u] = def] /\ UNCHANGED <<worker, inbox, wqueries>>
      BY <3>1 DEF DefineBad, chanVars, workerVars
    <3>3. queries \in [ViewIds -> MaybeDef]
      BY TypeParts DEF MainOK
    <3>4. u # v
      <4>1. def # NoDef /\ ~Compiles(def)
        BY <3>1, ConstantsOK DEF DefineBad
      <4> QED
        BY <3>2, <3>3, <4>1 DEF Sent
    <3>5. queries'[v] = queries[v]
      BY <3>2, <3>3, <3>4
    <3> QED
      BY <3>2, <3>5 DEF DefsInSync, DefSynced, LastViewMsg, Sent
  <2>5. CASE Undefine(u)
    BY <2>2, <2>5 DEF Undefine, Post, workerVars, MaybeDef
  <2> QED
    BY <2>1, <2>3, <2>4, <2>5
<1>5. CASE WorkerReceive
  <2>1. worker = "up" /\ Sent(v)
    BY <1>5 DEF WorkerReceive, mainVars, Sent
  <2> QED
    BY <1>5, <2>1, DefReceived DEF DefsInSync
<1>6. CASE \E u \in ViewIds : WorkerRun(u)
  BY <1>1, <1>6 DEF WorkerRun, mainVars
<1>7. CASE MainReceive
  BY <1>1, <1>7 DEF MainReceive, workerVars
<1>8. CASE SaveDocs \/ SaveDocsFails \/ SaveViews
  BY <1>1, <1>8 DEF SaveDocs, SaveDocsFails, SaveViews, workerVars, chanVars
<1>9. CASE WorkerCrash \/ WorkerExit
  BY <1>9 DEF WorkerCrash, WorkerExit
<1>10. CASE Respawn
  BY <1>10, DefsSentAtStart DEF Respawn, RespawnWith, mainVars
<1>11. CASE Restart
  BY <1>11, DefsSentAtStart DEF Restart, RestartWith
<1>12. CASE UNCHANGED vars
  BY <1>1, <1>12 DEF vars, mainVars, chanVars, workerVars
<1> QED
  BY <1>3, <1>4, <1>5, <1>6, <1>7, <1>8, <1>9, <1>10, <1>11, <1>12 DEF Next, WorkerStep

LEMMA InitDefsInSync == Init => DefsInSync
<1> SUFFICES ASSUME Init, NEW v \in ViewIds PROVE DefSynced(v)
  BY DEF DefsInSync
<1>1. DOMAIN inbox = {1} /\ inbox[1].type = "init" /\ inbox[1].queries = queries
  BY OneWaits DEF Init
<1> QED
  BY <1>1 DEF DefSynced, LastViewMsg, TouchesView, DefIn

\* The worker's definitions are the store's once it has read its messages, for
\* any number of views, crashes and restarts.
THEOREM DefsKept == Spec => []DefsInSync
  BY InitTypeOK, NextTypeOK, InitDefsInSync, NextDefsInSync, PTL DEF Spec

-----------------------------------------------------------------------------
(* Documents *)

\* Messages about other things keep a document in sync.
LEMMA OtherDocsPosted ==
    ASSUME TypeOK, worker = "up", NEW ms \in Seq(Message), Post(ms), NEW i \in Ids,
           \A k \in 1 .. Len(ms) : ~TouchesDoc(ms[k], i),
           docs'[i] = docs[i], wdocs' = wdocs, DocSynced(i)
    PROVE  DocSynced(i)'
<1>1. \A k \in DOMAIN inbox' : TouchesDoc(inbox'[k], i) => k \in DOMAIN inbox
  <2>1. ASSUME NEW k \in DOMAIN inbox', k \notin DOMAIN inbox
        PROVE  ~TouchesDoc(inbox'[k], i)
    <3>1. k - Len(inbox) \in 1 .. Len(ms) /\ k = Len(inbox) + (k - Len(inbox))
      BY <2>1, Posted
    <3>2. inbox'[k] = ms[k - Len(inbox)]
      BY <3>1, Posted
    <3> QED
      BY <3>1, <3>2
  <2> QED
    BY <2>1
<1>2. \A k \in DOMAIN inbox : k \in DOMAIN inbox' /\ inbox'[k] = inbox[k]
  BY Posted
<1>3. \A k \in DOMAIN inbox' : LastDocMsg(k, i)' => k \in DOMAIN inbox /\ LastDocMsg(k, i)
  BY <1>1, <1>2 DEF LastDocMsg
<1>4. \A k \in DOMAIN inbox' : LastDocMsg(k, i)' => Agree(DocIn(inbox'[k], i), docs'[i])
  BY <1>2, <1>3 DEF DocSynced
<1>5. (\A k \in DOMAIN inbox' : ~TouchesDoc(inbox'[k], i)) => Agree(wdocs'[i], docs'[i])
  BY <1>2 DEF DocSynced
<1> QED
  BY <1>4, <1>5 DEF DocSynced

\* The patch of a document brings it in sync.
LEMMA DocPosted ==
    ASSUME TypeOK, worker = "up", NEW i \in Ids, NEW d \in MaybeDoc,
           Post(<<DocMsg(i, d)>>), docs'[i] = d
    PROVE  DocSynced(i)'
<1> DEFINE ms == <<DocMsg(i, d)>>
           n == Len(inbox) + 1
<1>1. ms \in Seq(Message) /\ Len(ms) = 1 /\ ms[1] = DocMsg(i, d) /\ Post(ms)
  BY DocMsgType, OneMessage
<1> HIDE DEF ms
<1>2. Len(inbox) \in Nat /\ DOMAIN inbox' = 1 .. n /\ inbox'[n] = ms[1]
  <2>1. /\ Len(inbox') = Len(inbox) + Len(ms)
        /\ DOMAIN inbox' = 1 .. Len(inbox')
        /\ Len(inbox) \in Nat
        /\ \A k \in 1 .. Len(ms) : inbox'[Len(inbox) + k] = ms[k]
    BY <1>1, Posted
  <2> QED
    BY <1>1, <2>1
<1>3. n \in DOMAIN inbox' /\ inbox'[n] = DocMsg(i, d) /\ \A k \in DOMAIN inbox' : k <= n
  BY <1>1, <1>2
<1>4. TouchesDoc(inbox'[n], i) /\ DocIn(inbox'[n], i) = d
  BY <1>3 DEF TouchesDoc, DocIn, DocMsg
<1>5. \A k \in DOMAIN inbox' : LastDocMsg(k, i)' => k = n
  BY <1>2, <1>3, <1>4 DEF LastDocMsg
<1> QED
  BY <1>3, <1>4, <1>5 DEF DocSynced, Agree

\* A message that is read has its effect on the replica.
LEMMA DocReceived ==
    ASSUME TypeOK, WorkerReceive, NEW i \in Ids, DocSynced(i)
    PROVE  DocSynced(i)'
<1> DEFINE m == Head(inbox)
<1>1. docs' = docs
  BY DEF WorkerReceive, mainVars
<1>2. \A k \in DOMAIN inbox' : LastDocMsg(k, i)' => k + 1 \in DOMAIN inbox /\ LastDocMsg(k + 1, i)
  <2> SUFFICES ASSUME NEW k \in DOMAIN inbox', LastDocMsg(k, i)'
               PROVE  k + 1 \in DOMAIN inbox /\ LastDocMsg(k + 1, i)
    OBVIOUS
  <2>1. k + 1 \in DOMAIN inbox /\ TouchesDoc(inbox[k + 1], i)
    BY Received DEF LastDocMsg
  <2>2. ASSUME NEW j \in DOMAIN inbox, TouchesDoc(inbox[j], i) PROVE j <= k + 1
    <3>1. CASE j = 1
      BY <3>1, Received
    <3>2. CASE j # 1
      <4>1. j - 1 \in DOMAIN inbox' /\ inbox'[j - 1] = inbox[j]
        BY <3>2, Received
      <4>2. j - 1 <= k
        BY <4>1, <2>2 DEF LastDocMsg
      <4> QED
        BY <4>2, Received
    <3> QED
      BY <3>1, <3>2
  <2> QED
    BY <2>1, <2>2 DEF LastDocMsg
<1>3. \A k \in DOMAIN inbox' : LastDocMsg(k, i)' => Agree(DocIn(inbox'[k], i), docs'[i])
  BY <1>1, <1>2, Received DEF DocSynced
<1>4. ASSUME \A k \in DOMAIN inbox' : ~TouchesDoc(inbox'[k], i)
      PROVE  Agree(wdocs'[i], docs'[i])
  <2>1. \A j \in DOMAIN inbox : j # 1 => ~TouchesDoc(inbox[j], i)
    <3> SUFFICES ASSUME NEW j \in DOMAIN inbox, j # 1 PROVE ~TouchesDoc(inbox[j], i)
      OBVIOUS
    <3>1. j - 1 \in DOMAIN inbox' /\ inbox'[j - 1] = inbox[j]
      BY Received
    <3> QED
      BY <3>1, <1>4
  <2>2. m = inbox[1] /\ 1 \in DOMAIN inbox /\ m \in Message
    BY Received
  <2>3. CASE TouchesDoc(m, i)
    <3>1. LastDocMsg(1, i)
      BY <2>1, <2>2, <2>3 DEF LastDocMsg
    <3>2. Agree(DocIn(m, i), docs[i])
      BY <3>1, <2>2 DEF DocSynced
    <3>3. wdocs'[i] = DocIn(m, i)
      <4>1. CASE WorkerInit
        BY <4>1 DEF WorkerInit, DocIn
      <4>2. CASE WorkerDoc
        BY <2>3, <4>2, TypeParts DEF WorkerDoc, ReplaceDoc, TouchesDoc, DocIn, WorkerOK
      <4>3. CASE WorkerQuery
        BY <2>3, <4>3 DEF WorkerQuery, TouchesDoc
      <4> QED
        BY <4>1, <4>2, <4>3 DEF WorkerReceive
    <3> QED
      BY <3>2, <3>3, <1>1
  <2>4. CASE ~TouchesDoc(m, i)
    <3>1. Agree(wdocs[i], docs[i])
      BY <2>1, <2>2, <2>4 DEF DocSynced
    <3>2. wdocs'[i] = wdocs[i]
      BY <2>4, TypeParts DEF WorkerReceive, WorkerInit, WorkerDoc, ReplaceDoc, WorkerQuery,
                             TouchesDoc, WorkerOK
    <3> QED
      BY <3>1, <3>2, <1>1
  <2> QED
    BY <2>3, <2>4
<1> QED
  BY <1>3, <1>4 DEF DocSynced

\* A started worker gets all documents in its first message.
LEMMA DocsSentAtStart ==
    ASSUME NEW ds, NEW qs, inbox' = <<InitMsg(ds, qs)>>, docs' = ds, NEW i \in Ids
    PROVE  DocSynced(i)'
<1>1. DOMAIN inbox' = {1} /\ inbox'[1].type = "init" /\ inbox'[1].docs = ds
  BY OneWaits
<1> QED
  BY <1>1 DEF DocSynced, LastDocMsg, TouchesDoc, DocIn, Agree

\* The one document extend tells nobody of agrees with none.
LEMMA Untold ==
    ASSUME TypeOK, NEW u \in Ids, NEW b \in Partials, ExtendNothing(u, b), NEW i \in Ids,
           DocSynced(i)
    PROVE  DocSynced(i)'
<1>1. \A x : Agree(x, docs[i]) => Agree(x, docs'[i])
  <2>1. docs' = [docs EXCEPT ![u] = [body |-> EmptyBody, rev |-> -1]] /\ docs[u] = NoDoc
    BY DEF ExtendNothing
  <2>2. CASE i # u
    BY <2>1, <2>2, TypeParts DEF MainOK
  <2>3. CASE i = u
    <3>1. docs'[i] = [body |-> EmptyBody, rev |-> -1]
      BY <2>1, <2>3, TypeParts DEF MainOK
    <3>2. docs'[i] \in Doc
      BY <3>1, EmptyBodyType DEF Doc
    <3>3. Phantom(docs'[i])
      BY <3>1, <3>2, ConstantsOK DEF Phantom
    <3>4. \A x : Agree(x, docs[i]) => x = NoDoc
      BY <2>1, <2>3 DEF Agree
    <3> QED
      BY <3>3, <3>4 DEF Agree
  <2> QED
    BY <2>2, <2>3
<1>2. UNCHANGED <<inbox, wdocs>>
  BY DEF ExtendNothing, chanVars, workerVars
<1> QED
  BY <1>1, <1>2 DEF DocSynced, LastDocMsg

\* What the replica needs of the clients: no listener sets a document again
\* while it is being deleted, and no map function writes into what it reads.
NoRecreation == \A i \in Ids : OnDelete[i] = NoDoc
NoMutation == \A def \in Defs : def.kind # "mutates"

LEMMA NextReplicaInSync ==
    ASSUME NoRecreation, NoMutation
    PROVE  TypeOK /\ ReplicaInSync /\ [Next]_vars => ReplicaInSync'
<1> SUFFICES ASSUME TypeOK, ReplicaInSync, [Next]_vars, worker' = "up", NEW i \in Ids
             PROVE  DocSynced(i)'
  BY DEF ReplicaInSync
<1>1. ASSUME UNCHANGED <<worker, inbox, docs, wdocs>>
      PROVE  DocSynced(i)'
  BY <1>1 DEF ReplicaInSync, DocSynced, LastDocMsg
<1>2. CASE DocRequest
  <2>1. worker = "up"
    BY <1>2, DocRequestCases DEF Commit, Del, ExtendNothing, chanVars, Post
  <2>2. ASSUME NEW u \in Ids, NEW d \in MaybeDoc, docs' = [docs EXCEPT ![u] = d],
               wdocs' = wdocs, Post(<<DocMsg(u, d)>>)
        PROVE  DocSynced(i)'
    <3>1. docs \in [Ids -> MaybeDoc]
      BY TypeParts DEF MainOK
    <3>2. CASE u = i
      BY <2>1, <2>2, <3>1, <3>2, DocPosted
    <3>3. CASE u # i
      <4> DEFINE ms == <<DocMsg(u, d)>>
      <4>1. ms \in Seq(Message) /\ Len(ms) = 1 /\ ms[1] = DocMsg(u, d) /\ Post(ms)
        BY <2>2, DocMsgType, OneMessage
      <4> HIDE DEF ms
      <4>2. \A k \in 1 .. Len(ms) : ~TouchesDoc(ms[k], i)
        BY <3>3, <4>1 DEF TouchesDoc, DocMsg
      <4>3. docs'[i] = docs[i]
        BY <2>2, <3>1, <3>3
      <4> QED
        BY <2>1, <2>2, <4>1, <4>2, <4>3, OtherDocsPosted DEF ReplicaInSync
    <3> QED
      BY <3>2, <3>3
  <2>3. PICK u \in Ids :
          \/ \E body \in Body : Commit(u, body)
          \/ \E b \in Partials : ExtendNothing(u, b)
          \/ Del(u)
    BY <1>2, DocRequestCases
  <2>4. CASE \E body \in Body : Commit(u, body)
    BY <2>2, <2>4, CommitPosts
  <2>5. CASE \E b \in Partials : ExtendNothing(u, b)
    BY <2>1, <2>5, Untold DEF ReplicaInSync
  <2>6. CASE Del(u)
    <3>1. OnDelete[u] = NoDoc
      BY DEF NoRecreation
    <3>2. docs' = [docs EXCEPT ![u] = NoDoc] /\ Post(<<DocMsg(u, NoDoc)>>) /\ wdocs' = wdocs
      BY <2>6, <3>1 DEF Del, workerVars
    <3> QED
      BY <2>2, <3>2 DEF MaybeDoc
  <2> QED
    BY <2>3, <2>4, <2>5, <2>6
<1>3. CASE ViewRequest
  <2>1. PICK u \in ViewIds : (\E def \in Defs : Define(u, def) \/ DefineBad(u, def)) \/ Undefine(u)
    BY <1>3 DEF ViewRequest
  <2>2. ASSUME NEW def \in MaybeDef, Post(<<QueryMsg(u, def)>>), UNCHANGED <<docs, wdocs>>
        PROVE  DocSynced(i)'
    <3> DEFINE ms == <<QueryMsg(u, def)>>
    <3>1. ms \in Seq(Message) /\ Len(ms) = 1 /\ ms[1] = QueryMsg(u, def) /\ Post(ms)
      BY <2>2, QueryMsgType, OneMessage
    <3> HIDE DEF ms
    <3>2. \A k \in 1 .. Len(ms) : ~TouchesDoc(ms[k], i)
      BY <3>1 DEF TouchesDoc, QueryMsg
    <3>3. worker = "up"
      BY <2>2 DEF Post
    <3> QED
      BY <2>2, <3>1, <3>2, <3>3, OtherDocsPosted DEF ReplicaInSync
  <2>3. CASE \E def \in Defs : Define(u, def)
    BY <2>2, <2>3 DEF Define, workerVars, MaybeDef
  <2>4. CASE \E def \in Defs : DefineBad(u, def)
    BY <1>1, <2>4 DEF DefineBad, chanVars, workerVars
  <2>5. CASE Undefine(u)
    BY <2>2, <2>5 DEF Undefine, workerVars, MaybeDef
  <2> QED
    BY <2>1, <2>3, <2>4, <2>5
<1>4. CASE WorkerReceive
  <2>1. worker = "up"
    BY <1>4 DEF WorkerReceive
  <2> QED
    BY <1>4, <2>1, DocReceived DEF ReplicaInSync
<1>5. CASE \E u \in ViewIds : WorkerRun(u)
  <2>1. PICK u \in ViewIds : WorkerRun(u)
    BY <1>5
  <2>2. wqueries[u] \in MaybeDef
    BY TypeParts DEF WorkerOK
  <2>3. wqueries[u] # NoDef => Mutated(wqueries[u], wdocs) = {wdocs}
    BY <2>2 DEF NoMutation, Mutated, MaybeDef
  <2>4. UNCHANGED <<worker, inbox, docs, wdocs>>
    BY <2>1, <2>3 DEF WorkerRun, mainVars
  <2> QED
    BY <1>1, <2>4
<1>6. CASE MainReceive
  BY <1>1, <1>6 DEF MainReceive, workerVars
<1>7. CASE SaveDocs \/ SaveDocsFails \/ SaveViews
  BY <1>1, <1>7 DEF SaveDocs, SaveDocsFails, SaveViews, workerVars, chanVars
<1>8. CASE WorkerCrash \/ WorkerExit
  BY <1>8 DEF WorkerCrash, WorkerExit
<1>9. CASE Respawn
  BY <1>9, DocsSentAtStart DEF Respawn, RespawnWith, mainVars
<1>10. CASE Restart
  BY <1>10, DocsSentAtStart DEF Restart, RestartWith
<1>11. CASE UNCHANGED vars
  BY <1>1, <1>11 DEF vars, mainVars, chanVars, workerVars
<1> QED
  BY <1>2, <1>3, <1>4, <1>5, <1>6, <1>7, <1>8, <1>9, <1>10, <1>11 DEF Next, WorkerStep

LEMMA InitReplicaInSync == Init => ReplicaInSync
<1> SUFFICES ASSUME Init, NEW i \in Ids PROVE DocSynced(i)
  BY DEF ReplicaInSync
<1>1. DOMAIN inbox = {1} /\ inbox[1].type = "init" /\ inbox[1].docs = docs
  BY OneWaits DEF Init
<1> QED
  BY <1>1 DEF DocSynced, LastDocMsg, TouchesDoc, DocIn, Agree

\* The worker's replica is the store's documents once it has read its messages,
\* for any number of documents, requests, crashes and restarts, if no listener
\* and no map function interferes.
THEOREM ReplicaKept ==
    ASSUME NoRecreation, NoMutation
    PROVE  Spec => []ReplicaInSync
  BY InitTypeOK, NextTypeOK, InitReplicaInSync, NextReplicaInSync, PTL DEF Spec

-----------------------------------------------------------------------------
(* The documents file *)

\* What a step of sheDB is to its documents file.
FileStep == [DocsFile!Next]_(DocsFile!vars)

\* The documents and definitions that need not be saved: one extend created
\* from nothing, and one that does not compile.
LEMMA TouchNothing ==
    ASSUME TypeOK, NEW i \in Ids, NEW b \in Partials, ExtendNothing(i, b),
           Lossless(Memory, disk)
    PROVE  Lossless(Memory', disk)
<1>1. /\ docs' = [docs EXCEPT ![i] = [body |-> EmptyBody, rev |-> -1]]
      /\ docs[i] = NoDoc /\ docs \in [Ids -> MaybeDoc]
      /\ UNCHANGED <<rev, queries>>
  BY TypeParts DEF ExtendNothing, MainOK
<1>2. Phantom(docs'[i])
  <2>1. docs'[i] = [body |-> EmptyBody, rev |-> -1]
    BY <1>1
  <2>2. docs'[i] \in Doc
    BY <2>1, EmptyBodyType DEF Doc
  <2> QED
    BY <2>1, <2>2, ConstantsOK DEF Phantom
<1>3. \A u \in Ids : u # i => docs'[u] = docs[u]
  BY <1>1
<1> QED
  BY <1>1, <1>2, <1>3 DEF Lossless, Memory

LEMMA TouchBad ==
    ASSUME TypeOK, NEW v \in ViewIds, NEW def \in Defs, DefineBad(v, def),
           Lossless(Memory, disk)
    PROVE  Lossless(Memory', disk)
<1>1. /\ queries' = [queries EXCEPT ![v] = def]
      /\ queries \in [ViewIds -> MaybeDef]
      /\ UNCHANGED <<rev, docs>>
      /\ def # NoDef /\ ~Compiles(def)
  BY TypeParts, ConstantsOK DEF DefineBad, MainOK
<1> QED
  BY <1>1 DEF Lossless, Memory

LEMMA NextFile == TypeOK /\ [Next]_vars => FileStep
<1> SUFFICES ASSUME TypeOK, [Next]_vars PROVE FileStep
  OBVIOUS
<1>1. Memory' \in FileState
  BY NextTypeOK DEF TypeOK
<1>2. ASSUME UNCHANGED <<docs, rev, queries, disk, docsTimer, saveFailed>>
      PROVE  FileStep
  BY <1>2 DEF FileStep, DocsFile!vars, Memory
<1>3. ASSUME docsTimer', UNCHANGED <<disk, saveFailed>>
      PROVE  FileStep
  BY <1>1, <1>3 DEF FileStep, DocsFile!Next, DocsFile!Change
<1>4. ASSUME Lossless(Memory, disk) => Lossless(Memory', disk),
             UNCHANGED <<disk, docsTimer, saveFailed>>
      PROVE  FileStep
  BY <1>1, <1>4 DEF FileStep, DocsFile!Next, DocsFile!Touch
<1>5. CASE DocRequest
  <2>1. PICK i \in Ids :
          \/ \E body \in Body : Commit(i, body)
          \/ \E b \in Partials : ExtendNothing(i, b)
          \/ Del(i)
    BY <1>5, DocRequestCases
  <2>2. CASE \E body \in Body : Commit(i, body)
    BY <1>3, <2>2 DEF Commit, diskVars
  <2>3. CASE \E b \in Partials : ExtendNothing(i, b)
    BY <1>4, <2>3, TouchNothing DEF ExtendNothing, diskVars
  <2>4. CASE Del(i)
    BY <1>3, <2>4 DEF Del, diskVars
  <2> QED
    BY <2>1, <2>2, <2>3, <2>4
<1>6. CASE ViewRequest
  <2>1. PICK v \in ViewIds : (\E def \in Defs : Define(v, def) \/ DefineBad(v, def)) \/ Undefine(v)
    BY <1>6 DEF ViewRequest
  <2>2. CASE \E def \in Defs : Define(v, def)
    BY <1>3, <2>2 DEF Define, diskVars
  <2>3. CASE \E def \in Defs : DefineBad(v, def)
    BY <1>4, <2>3, TouchBad DEF DefineBad, diskVars
  <2>4. CASE Undefine(v)
    BY <1>3, <2>4 DEF Undefine, diskVars
  <2> QED
    BY <2>1, <2>2, <2>3, <2>4
<1>7. CASE SaveDocs
  BY <1>7 DEF SaveDocs, FileStep, DocsFile!Next, DocsFile!Save, Memory
<1>8. CASE SaveDocsFails
  BY <1>8 DEF SaveDocsFails, diskVars, FileStep, DocsFile!Next, DocsFile!SaveFails, Memory
<1>9. CASE Restart
  BY <1>9 DEF Restart, RestartWith, diskVars, FileStep, DocsFile!Next, DocsFile!Restart,
              Memory, TypeOK, FileState
<1>10. CASE \/ WorkerReceive \/ (\E v \in ViewIds : WorkerRun(v)) \/ MainReceive \/ SaveViews
            \/ WorkerCrash \/ WorkerExit \/ Respawn \/ UNCHANGED vars
  BY <1>2, <1>10 DEF WorkerReceive, WorkerRun, MainReceive, SaveViews, WorkerCrash, WorkerExit,
                     Respawn, RespawnWith, vars, mainVars, diskVars
<1> QED
  BY <1>5, <1>6, <1>7, <1>8, <1>9, <1>10 DEF Next, WorkerStep

LEMMA InitFile == Init => DocsFile!Init
<1> SUFFICES ASSUME Init PROVE DocsFile!Init
  OBVIOUS
<1>1. Memory \in FileState
  BY InitTypeOK DEF TypeOK
<1> QED
  BY <1>1 DEF Init, DocsFile!Init, Memory

\* docs.json is a debounced file: it holds a complete past state of documents and
\* definitions, a change arms the save, a failed save leaves the old file (_save and
\* _load in shedb-core.js).
THEOREM FileImplemented == Spec => ImplementsDocsFile
<1>1. Init /\ [][Next]_vars => []TypeOK
  BY TypeCorrect DEF Spec
<1> QED
  BY <1>1, InitFile, NextFile, PTL DEF Spec, ImplementsDocsFile, DocsFile!Spec, FileStep

LEMMA LosslessSelf == ASSUME NEW m PROVE Lossless(m, m)
  BY DEF Lossless

\* In every step of the debounced file what is not saved is pending or failed.
LEMMA NextSaved == DocsSaved /\ FileStep => DocsSaved'
  BY LosslessSelf DEF DocsSaved, FileStep, DocsFile!NothingLost, DocsFile!Next, DocsFile!Change,
     DocsFile!Touch, DocsFile!Save, DocsFile!SaveFails, DocsFile!Restart, DocsFile!vars

\* Documents and definitions are on disk unless a save is pending or has failed
\* (every request arms _save).
THEOREM NothingUnsaved == Spec => []DocsSaved
<1>1. Init => DocsSaved
  BY InitFile, LosslessSelf DEF DocsFile!Init, DocsSaved, DocsFile!NothingLost
<1> QED
  BY <1>1, NextSaved, NextFile, InitTypeOK, NextTypeOK, PTL DEF Spec

-----------------------------------------------------------------------------
(* Views *)

\* k is the place of the last result of v on its way to the main thread.
LastResult(k, v) == outbox[k].id = v /\ \A j \in DOMAIN outbox : outbox[j].id = v => j <= k

\* Once main has read what the worker posted it shows o for v.
WillShow(v, o) ==
    /\ \A k \in DOMAIN outbox : LastResult(k, v) => outbox[k].out = o
    /\ (\A k \in DOMAIN outbox : outbox[k].id # v) => views[v] # NoView /\ views[v].out = o

\* A message that makes the worker run v.
Awaited(m, v) == TouchesView(m, v) \/ (m.type = "doc" /\ m.id \in wqueries[v].filter)

\* v is neither waiting nor about to be.
AtRest(v) ==
    /\ \A k \in DOMAIN inbox : ~Awaited(inbox[k], v)
    /\ v \notin wqueue /\ wcur # v

\* A view at rest will show what its definition makes of the replica.
Shown(v) ==
    worker = "up" /\ queries[v] = wqueries[v] /\ Selective(wqueries[v]) /\ AtRest(v)
        => WillShow(v, Outcome(wqueries[v], wdocs))
AllShown == \A v \in ViewIds : Shown(v)

\* No view is lost from the queue.
LEMMA Queued ==
    ASSUME NEW queue \in SUBSET ViewIds, NEW cur \in ViewIds \cup {NoView}, Schedule(queue, cur),
           NEW v \in ViewIds
    PROVE  (v \in queue \/ cur = v) <=> (v \in wqueue' \/ wcur' = v)
<1>1. NoView \notin ViewIds
  BY ConstantsOK
<1>2. CASE cur # NoView \/ queue = {}
  BY <1>1, <1>2 DEF Schedule
<1>3. CASE ~(cur # NoView \/ queue = {})
  BY <1>1, <1>3 DEF Schedule
<1> QED
  BY <1>2, <1>3

\* A message about another view changes nothing for this one, a result of this one
\* is what it will show.
LEMMA ResultPosted ==
    ASSUME TypeOK, NEW m \in ViewMessage, NEW v \in ViewIds, NEW o,
           outbox' = Append(outbox, m), views'[v] = views[v],
           m.id = v => m.out = o,
           m.id # v => WillShow(v, o)
    PROVE  WillShow(v, o)'
<1> DEFINE n == Len(outbox)
<1>1. /\ outbox \in Seq(ViewMessage) /\ n \in Nat
      /\ DOMAIN outbox = 1 .. n /\ DOMAIN outbox' = 1 .. n + 1
      /\ outbox'[n + 1] = m /\ \A k \in 1 .. n : outbox'[k] = outbox[k]
  BY DEF TypeOK
<1> HIDE DEF n
<1>2. CASE m.id = v
  <2>1. \A k \in DOMAIN outbox' : LastResult(k, v)' => k = n + 1
    BY <1>1, <1>2 DEF LastResult
  <2>2. \A k \in DOMAIN outbox' : LastResult(k, v)' => outbox'[k].out = o
    BY <1>1, <1>2, <2>1
  <2>3. n + 1 \in DOMAIN outbox' /\ outbox'[n + 1].id = v
    BY <1>1, <1>2
  <2> QED
    BY <2>2, <2>3 DEF WillShow
<1>3. CASE m.id # v
  <2>1. ASSUME NEW k \in DOMAIN outbox', LastResult(k, v)'
        PROVE  outbox'[k].out = o
    <3>1. k \in DOMAIN outbox /\ outbox[k].id = v /\ outbox'[k] = outbox[k]
      BY <1>1, <1>3, <2>1 DEF LastResult
    <3>2. \A j \in DOMAIN outbox : outbox[j].id = v => j <= k
      BY <1>1, <2>1 DEF LastResult
    <3> QED
      BY <1>3, <3>1, <3>2 DEF WillShow, LastResult
  <2>2. ASSUME \A k \in DOMAIN outbox' : outbox'[k].id # v
        PROVE  views'[v] # NoView /\ views'[v].out = o
    BY <1>1, <1>3, <2>2 DEF WillShow
  <2> QED
    BY <2>1, <2>2 DEF WillShow
<1> QED
  BY <1>2, <1>3

\* What main shows after it has read a result or an error is that.
LEMMA ResultShown ==
    ASSUME TypeOK, MainReceive, NEW v \in ViewIds, NEW o,
           o.kind \in {"result", "error"}, WillShow(v, o)
    PROVE  WillShow(v, o)'
<1> DEFINE n == Len(outbox)
           m == Head(outbox)
<1>1. /\ n \in Nat \ {0} /\ m = outbox[1] /\ m \in ViewMessage
      /\ DOMAIN outbox = 1 .. n /\ DOMAIN outbox' = 1 .. n - 1
      /\ \A k \in 1 .. n - 1 : outbox'[k] = outbox[k + 1]
  BY DEF TypeOK, MainReceive
<1>2. views \in [ViewIds -> View \cup {NoView}] /\ m.id \in ViewIds
  BY <1>1, TypeParts DEF MainOK, ViewMessage
<1>3. m.id # v => views'[v] = views[v]
  BY <1>2 DEF MainReceive
<1>4. m.id = v /\ m.out.kind \in {"result", "error"} => views'[v] # NoView /\ views'[v].out = m.out
  <2> SUFFICES ASSUME m.id = v, m.out.kind \in {"result", "error"}
               PROVE  views'[v] # NoView /\ views'[v].out = m.out
    OBVIOUS
  <2>1. views'[v] = views[v] \/ \E r : views'[v] = [rev |-> r, out |-> m.out]
    BY <1>2 DEF MainReceive
  <2>2. views' \in [ViewIds -> View \cup {NoView}]
    BY MainReceiveType, TypeParts DEF MainOK
  <2>3. CASE m.out.kind = "error"
    <3>1. views'[v] = [rev |-> ViewRev(views, v), out |-> m.out]
      BY <1>2, <2>3 DEF MainReceive
    <3>2. ViewRev(views, v) \in Nat \cup {-1} /\ m.out \in Out
      BY <1>1, <1>2, <2>3, ViewRevType DEF ViewMessage, Deleted
    <3>3. views'[v] \in View
      BY <3>1, <3>2 DEF View
    <3> QED
      BY <3>1, <3>3, ConstantsOK
  <2>4. CASE m.out.kind = "result"
    <3>1. CASE views[v] = NoView \/ views[v].out # m.out
      <4>1. views'[v] = [rev |-> ViewRev(views, v) + 1, out |-> m.out]
        BY <1>2, <2>4, <3>1 DEF MainReceive
      <4>2. ViewRev(views, v) + 1 \in Nat /\ m.out \in Out
        BY <1>1, <1>2, <2>4, ViewRevType DEF ViewMessage, Deleted
      <4>3. views'[v] \in View
        BY <4>1, <4>2 DEF View
      <4> QED
        BY <4>1, <4>3, ConstantsOK
    <3>2. CASE ~(views[v] = NoView \/ views[v].out # m.out)
      BY <1>2, <2>4, <3>2 DEF MainReceive
    <3> QED
      BY <3>1, <3>2
  <2> QED
    BY <2>3, <2>4
<1> HIDE DEF n, m
<1>5. ASSUME NEW k \in DOMAIN outbox', LastResult(k, v)'
      PROVE  outbox'[k].out = o
  <2>1. k + 1 \in DOMAIN outbox /\ outbox'[k] = outbox[k + 1] /\ outbox[k + 1].id = v
    BY <1>1, <1>5 DEF LastResult
  <2>2. ASSUME NEW j \in DOMAIN outbox, outbox[j].id = v PROVE j <= k + 1
    <3>1. CASE j = 1
      BY <3>1, <1>1
    <3>2. CASE j # 1
      <4>1. j - 1 \in DOMAIN outbox' /\ outbox'[j - 1].id = v
        BY <1>1, <2>2, <3>2
      <4>2. j - 1 <= k
        BY <4>1, <1>5 DEF LastResult
      <4> QED
        BY <4>2, <1>1
    <3> QED
      BY <3>1, <3>2
  <2>3. LastResult(k + 1, v)
    BY <2>1, <2>2 DEF LastResult
  <2> QED
    BY <2>1, <2>3 DEF WillShow
<1>6. ASSUME \A k \in DOMAIN outbox' : outbox'[k].id # v
      PROVE  views'[v] # NoView /\ views'[v].out = o
  <2>1. ASSUME NEW j \in DOMAIN outbox, j # 1 PROVE outbox[j].id # v
    <3>1. j - 1 \in DOMAIN outbox' /\ outbox'[j - 1] = outbox[j]
      BY <1>1, <2>1
    <3> QED
      BY <3>1, <1>6
  <2>2. CASE m.id = v
    <3>1. LastResult(1, v) /\ 1 \in DOMAIN outbox
      BY <1>1, <2>1, <2>2 DEF LastResult
    <3>2. m.out = o
      BY <1>1, <3>1 DEF WillShow
    <3> QED
      BY <1>4, <2>2, <3>2
  <2>3. CASE m.id # v
    <3>1. \A k \in DOMAIN outbox : outbox[k].id # v
      BY <1>1, <2>1, <2>3
    <3> QED
      BY <1>3, <2>3, <3>1 DEF WillShow
  <2> QED
    BY <2>2, <2>3
<1> QED
  BY <1>5, <1>6 DEF WillShow

\* What is posted leaves a view at rest only if it is not about it.
LEMMA RestPosted ==
    ASSUME TypeOK, NEW v \in ViewIds, worker = "up", NEW ms \in Seq(Message), Post(ms),
           UNCHANGED <<wqueries, wqueue, wcur>>, AtRest(v)'
    PROVE  AtRest(v) /\ \A k \in 1 .. Len(ms) : ~TouchesView(ms[k], v)
<1>0. /\ Len(inbox') = Len(inbox) + Len(ms)
      /\ DOMAIN inbox = 1 .. Len(inbox) /\ DOMAIN inbox' = 1 .. Len(inbox')
      /\ Len(inbox) \in Nat /\ Len(ms) \in Nat
      /\ \A k \in 1 .. Len(inbox) : inbox'[k] = inbox[k]
      /\ \A k \in 1 .. Len(ms) : inbox'[Len(inbox) + k] = ms[k]
  BY Posted
<1>1. \A k \in DOMAIN inbox : k \in DOMAIN inbox' /\ inbox'[k] = inbox[k]
  BY <1>0
<1>2. \A k \in 1 .. Len(ms) : Len(inbox) + k \in DOMAIN inbox' /\ inbox'[Len(inbox) + k] = ms[k]
  BY <1>0
<1>3. \A k \in DOMAIN inbox' : ~TouchesView(inbox'[k], v)
  BY DEF AtRest, Awaited
<1>4. \A k \in DOMAIN inbox : ~Awaited(inbox[k], v)
  BY <1>1 DEF AtRest, Awaited
<1> QED
  BY <1>2, <1>3, <1>4 DEF AtRest

\* A view whose definition main has, or will have, is at rest after a message only if
\* it was before.
LEMMA ShownReceived ==
    ASSUME TypeOK, WorkerReceive, NEW v \in ViewIds, Shown(v)
    PROVE  Shown(v)'
<1> SUFFICES ASSUME queries'[v] = wqueries'[v], Selective(wqueries'[v]), AtRest(v)'
             PROVE  WillShow(v, Outcome(wqueries[v], wdocs))'
  BY DEF Shown, Selective
<1> DEFINE m == Head(inbox)
<1>1. /\ worker = "up" /\ UNCHANGED <<queries, views>>
      /\ wqueue \in SUBSET ViewIds /\ wcur \in ViewIds \cup {NoView}
      /\ wdocs \in [Ids -> MaybeDoc] /\ wqueries \in [ViewIds -> MaybeDef]
  BY TypeParts DEF WorkerReceive, mainVars, WorkerOK
<1>2. m \in Message /\ m = inbox[1] /\ 1 \in DOMAIN inbox
  BY Received
<1>3. v \notin wqueue' /\ wcur' # v /\ wqueries'[v] # NoDef
      /\ wqueries'[v].reads \subseteq wqueries'[v].filter /\ wqueries'[v].kind \in {"array", "throws"}
  BY DEF AtRest, Selective
<1>4. ASSUME wqueries'[v] = wqueries[v], ~Awaited(m, v), v \notin wqueue, wcur # v
      PROVE  AtRest(v)
  <2> SUFFICES ASSUME NEW j \in DOMAIN inbox PROVE ~Awaited(inbox[j], v)
    BY <1>4 DEF AtRest
  <2>1. CASE j = 1
    BY <1>2, <1>4, <2>1
  <2>2. CASE j # 1
    <3>1. j - 1 \in DOMAIN inbox' /\ inbox'[j - 1] = inbox[j]
      BY <2>2, Received
    <3>2. \A k \in DOMAIN inbox' :
             ~(TouchesView(inbox'[k], v) \/ (inbox'[k].type = "doc" /\ inbox'[k].id \in wqueries'[v].filter))
      BY DEF AtRest, Awaited
    <3> QED
      BY <1>4, <3>1, <3>2 DEF Awaited
  <2> QED
    BY <2>1, <2>2
<1>5. CASE WorkerInit
  <2> DEFINE good == {w \in ViewIds : m.queries[w] # NoDef /\ Compiles(m.queries[w])}
  <2>1. wqueries'[v] = (IF v \in good THEN m.queries[v] ELSE NoDef) /\ Schedule(good, wcur)
    BY <1>5 DEF WorkerInit
  <2>2. v \in good
    BY <1>3, <2>1
  <2>3. good \in SUBSET ViewIds
    OBVIOUS
  <2> HIDE DEF good
  <2>4. v \in wqueue' \/ wcur' = v
    BY <1>1, <2>1, <2>2, <2>3, Queued
  <2> QED
    BY <1>3, <2>4
<1>6. CASE WorkerDoc
  <2>1. /\ m.type = "doc" /\ wdocs' = [wdocs EXCEPT ![m.id] = m.doc]
        /\ Schedule(wqueue \cup Matching(m.id), wcur)
        /\ UNCHANGED <<wqueries, outbox>>
    BY <1>6 DEF WorkerDoc, ReplaceDoc
  <2>2. Matching(m.id) \in SUBSET ViewIds
    BY DEF Matching
  <2>3. wqueue \cup Matching(m.id) \in SUBSET ViewIds
    BY <1>1, <2>2
  <2>4. v \notin wqueue /\ v \notin Matching(m.id) /\ wcur # v
    BY <1>1, <1>3, <2>1, <2>3, Queued
  <2>5. m.id \notin wqueries[v].filter
    BY <1>3, <2>1, <2>4 DEF Matching
  <2>6. ~Awaited(m, v)
    BY <2>1, <2>5 DEF Awaited, TouchesView
  <2>7. WillShow(v, Outcome(wqueries[v], wdocs))
    BY <1>1, <1>4, <2>1, <2>4, <2>6 DEF Shown
  <2>8. MapReduce(wqueries[v], wdocs') = MapReduce(wqueries[v], wdocs)
    <3>1. \A i \in wqueries[v].filter \cup wqueries[v].reads : wdocs'[i] = wdocs[i]
      <4>1. wqueries[v] \in Def
        BY <1>1, <1>3, <2>1, ConstantsOK DEF MaybeDef
      <4>2. \A i \in wqueries[v].filter \cup wqueries[v].reads : i \in Ids /\ i # m.id
        BY <1>3, <2>1, <2>5, <4>1 DEF Def
      <4> QED
        BY <1>1, <2>1, <4>2
    <3> QED
      BY <3>1 DEF MapReduce
  <2>9. Outcome(wqueries'[v], wdocs') = Outcome(wqueries[v], wdocs)
    BY <2>1, <2>8 DEF Outcome
  <2> QED
    BY <1>1, <2>1, <2>7, <2>9 DEF WillShow, LastResult
<1>7. CASE WorkerQuery
  <2>1. m.type = "query" /\ wqueries' = [wqueries EXCEPT ![m.id] = m.def] /\ wdocs' = wdocs
    BY <1>7 DEF WorkerQuery
  <2>2. m.id \in ViewIds
    BY <1>2, <2>1, MessageTypes
  <2>3. m.id # v
    <3> SUFFICES ASSUME m.id = v PROVE FALSE
      OBVIOUS
    <3>1. m.def # NoDef
      BY <1>1, <1>3, <2>1
    <3>2. Schedule(wqueue \cup {v}, wcur)
      BY <1>7, <3>1 DEF WorkerQuery
    <3>3. wqueue \cup {v} \in SUBSET ViewIds
      BY <1>1
    <3> QED
      BY <1>1, <1>3, <3>2, <3>3, Queued
  <2>4. wqueries'[v] = wqueries[v]
    BY <1>1, <2>1, <2>3
  <2>5. v \notin wqueue /\ wcur # v
    <3>1. CASE m.def = NoDef
      BY <1>3, <1>7, <2>3, <3>1 DEF WorkerQuery
    <3>2. CASE m.def # NoDef
      <4>1. Schedule(wqueue \cup {m.id}, wcur)
        BY <1>7, <3>2 DEF WorkerQuery
      <4>2. wqueue \cup {m.id} \in SUBSET ViewIds
        BY <1>1, <2>2
      <4> QED
        BY <1>1, <1>3, <4>1, <4>2, Queued
    <3> QED
      BY <3>1, <3>2
  <2>6. ~Awaited(m, v)
    BY <2>1, <2>3 DEF Awaited, TouchesView
  <2>7. WillShow(v, Outcome(wqueries[v], wdocs))
    BY <1>1, <1>4, <2>4, <2>5, <2>6 DEF Shown
  <2>8. CASE m.def = NoDef
    <3>1. outbox' = Append(outbox, [id |-> m.id, out |-> Deleted])
      BY <1>7, <2>8 DEF WorkerQuery
    <3>2. [id |-> m.id, out |-> Deleted] \in ViewMessage
      BY <2>2 DEF ViewMessage
    <3>3. PICK o : o = Outcome(wqueries[v], wdocs)
      OBVIOUS
    <3>4. WillShow(v, o)'
      BY <1>1, <2>3, <2>7, <3>1, <3>2, <3>3, ResultPosted
    <3> QED
      BY <2>1, <2>4, <3>3, <3>4 DEF WillShow
  <2>9. CASE m.def # NoDef
    <3>1. outbox' = outbox
      BY <1>7, <2>9 DEF WorkerQuery
    <3> QED
      BY <1>1, <2>1, <2>4, <2>7, <3>1 DEF WillShow, LastResult
  <2> QED
    BY <2>8, <2>9
<1> QED
  BY <1>5, <1>6, <1>7 DEF WorkerReceive

\* A run posts what the view will show, and nothing about others.
LEMMA ShownRun ==
    ASSUME NoMutation, TypeOK, NEW u \in ViewIds, WorkerRun(u), NEW v \in ViewIds, Shown(v)
    PROVE  Shown(v)'
<1> SUFFICES ASSUME queries'[v] = wqueries'[v], Selective(wqueries'[v]), AtRest(v)'
             PROVE  WillShow(v, Outcome(wqueries[v], wdocs))'
  BY DEF Shown, Selective
<1>1. /\ worker = "up" /\ wcur = u /\ Schedule(wqueue, NoView)
      /\ UNCHANGED <<queries, views, inbox, wqueries>>
      /\ wqueue \in SUBSET ViewIds /\ NoView \in ViewIds \cup {NoView}
      /\ wdocs \in [Ids -> MaybeDoc] /\ wqueries \in [ViewIds -> MaybeDef]
  BY TypeParts DEF WorkerRun, mainVars, WorkerOK
<1>2. wqueries[u] # NoDef => Mutated(wqueries[u], wdocs) = {wdocs}
  BY <1>1 DEF NoMutation, Mutated, MaybeDef
<1>3. /\ wdocs' = wdocs
      /\ wqueries[u] # NoDef => outbox' = Append(outbox, [id |-> u, out |-> Outcome(wqueries[u], wdocs)])
      /\ wqueries[u] = NoDef => outbox' = outbox
  BY <1>2 DEF WorkerRun
<1>4. PICK o : o = Outcome(wqueries[v], wdocs)
  OBVIOUS
<1>5. u # v => WillShow(v, o)
  <2> SUFFICES ASSUME u # v PROVE WillShow(v, o)
    OBVIOUS
  <2>1. v \notin wqueue
    BY <1>1, Queued DEF AtRest
  <2>2. AtRest(v)
    BY <1>1, <2>1 DEF AtRest, Awaited
  <2> QED
    BY <1>1, <1>4, <2>2 DEF Shown
<1>6. CASE wqueries[u] # NoDef
  <2>1. [id |-> u, out |-> Outcome(wqueries[u], wdocs)] \in ViewMessage
    BY <1>1, <1>6, OutcomeType DEF ViewMessage, MaybeDef
  <2>2. WillShow(v, o)'
    BY <1>1, <1>3, <1>4, <1>5, <1>6, <2>1, ResultPosted
  <2> QED
    BY <1>1, <1>3, <1>4, <2>2 DEF WillShow
<1>7. CASE wqueries[u] = NoDef
  <2>1. u # v
    BY <1>1, <1>7 DEF Selective
  <2> QED
    BY <1>1, <1>3, <1>4, <1>5, <1>7, <2>1 DEF WillShow, LastResult
<1> QED
  BY <1>6, <1>7

\* A step that leaves a view's definition, replica and results alone.
LEMMA ShownKept ==
    ASSUME NEW v \in ViewIds, Shown(v), worker' = "up" => worker = "up",
           UNCHANGED <<wqueries, wqueue, wcur, wdocs, outbox>>,
           AtRest(v)' => AtRest(v) /\ queries'[v] = queries[v] /\ views'[v] = views[v]
    PROVE  Shown(v)'
<1> SUFFICES ASSUME worker' = "up", queries'[v] = wqueries'[v], Selective(wqueries'[v]), AtRest(v)'
             PROVE  WillShow(v, Outcome(wqueries[v], wdocs))'
  BY DEF Shown, Selective
<1>1. WillShow(v, Outcome(wqueries[v], wdocs))
  BY DEF Shown
<1> QED
  BY <1>1 DEF WillShow, LastResult

LEMMA ShownPosted ==
    ASSUME TypeOK, NEW v \in ViewIds, Shown(v), NEW ms \in Seq(Message), Post(ms),
           UNCHANGED <<wqueries, wqueue, wcur, wdocs>>,
           \/ queries'[v] = queries[v] /\ views'[v] = views[v]
           \/ \E k \in 1 .. Len(ms) : TouchesView(ms[k], v)
    PROVE  Shown(v)'
<1>1. worker' = worker /\ outbox' = outbox
  BY DEF Post
<1>2. CASE worker = "up"
  BY <1>1, <1>2, RestPosted, ShownKept
<1>3. CASE worker # "up"
  BY <1>1, <1>3 DEF Shown
<1> QED
  BY <1>2, <1>3

\* A worker that has just been started is sent every definition.
LEMMA ShownAtStart ==
    ASSUME NEW ds, NEW qs, inbox' = <<InitMsg(ds, qs)>>, NEW v \in ViewIds
    PROVE  Shown(v)'
<1>1. DOMAIN inbox' = {1} /\ inbox'[1].type = "init"
  BY OneWaits
<1>2. TouchesView(inbox'[1], v)
  BY <1>1 DEF TouchesView
<1>3. ~AtRest(v)'
  BY <1>1, <1>2 DEF AtRest, Awaited
<1> QED
  BY <1>3 DEF Shown

LEMMA NextShown ==
    ASSUME NoMutation
    PROVE  TypeOK /\ AllShown /\ [Next]_vars => AllShown'
<1> SUFFICES ASSUME TypeOK, AllShown, [Next]_vars, NEW v \in ViewIds
             PROVE  Shown(v)'
  BY DEF AllShown
<1> Shown(v)
  BY DEF AllShown
<1>1. ASSUME UNCHANGED <<inbox, wqueries, wqueue, wcur, wdocs, outbox>>,
             worker' = "up" => worker = "up",
             queries'[v] = queries[v], views'[v] = views[v]
      PROVE  Shown(v)'
  <2>1. AtRest(v)' => AtRest(v)
    BY <1>1 DEF AtRest, Awaited
  <2> QED
    BY <1>1, <2>1, ShownKept
<1>2. CASE DocRequest
  <2>1. PICK i \in Ids :
          \/ \E body \in Body : Commit(i, body)
          \/ \E b \in Partials : ExtendNothing(i, b)
          \/ Del(i)
    BY <1>2, DocRequestCases
  <2>2. CASE \E body \in Body : Commit(i, body)
    <3>1. PICK body \in Body : Commit(i, body)
      BY <2>2
    <3>2. <<DocMsg(i, docs'[i])>> \in Seq(Message) /\ Post(<<DocMsg(i, docs'[i])>>)
      BY <3>1, CommitPosts, OneDoc
    <3> QED
      BY <3>1, <3>2, ShownPosted DEF Commit, workerVars
  <2>3. CASE \E b \in Partials : ExtendNothing(i, b)
    BY <1>1, <2>3 DEF ExtendNothing, chanVars, workerVars
  <2>4. CASE Del(i)
    <3> DEFINE again == OnDelete[i]
               doc == IF again = NoDoc THEN NoDoc ELSE [body |-> again, rev |-> 0]
               ms == IF again = NoDoc THEN <<DocMsg(i, NoDoc)>>
                     ELSE <<DocMsg(i, doc), DocMsg(i, NoDoc)>>
    <3>1. doc \in MaybeDoc /\ NoDoc \in MaybeDoc
      BY ConstantsOK DEF MaybeDoc, Doc
    <3>2. ms \in Seq(Message)
      <4>1. DocMsg(i, doc) \in Message /\ DocMsg(i, NoDoc) \in Message
        BY <3>1, DocMsgType
      <4> QED
        BY <4>1
    <3>3. Post(ms) /\ UNCHANGED <<queries, views, wqueries, wqueue, wcur, wdocs>>
      BY <2>4 DEF Del, workerVars
    <3> HIDE DEF ms
    <3> QED
      BY <3>2, <3>3, ShownPosted
  <2> QED
    BY <2>1, <2>2, <2>3, <2>4
<1>3. CASE ViewRequest
  <2>1. PICK u \in ViewIds : (\E def \in Defs : Define(u, def) \/ DefineBad(u, def)) \/ Undefine(u)
    BY <1>3 DEF ViewRequest
  <2>2. queries \in [ViewIds -> MaybeDef] /\ views \in [ViewIds -> View \cup {NoView}]
    BY TypeParts DEF MainOK
  <2>3. ASSUME NEW def \in MaybeDef, Post(<<QueryMsg(u, def)>>),
               u # v => queries'[v] = queries[v] /\ views'[v] = views[v],
               UNCHANGED <<wqueries, wqueue, wcur, wdocs>>
        PROVE  Shown(v)'
    <3>1. PICK ms \in Seq(Message) : ms = <<QueryMsg(u, def)>>
      BY QueryMsgType, OneMessage
    <3>2. Len(ms) = 1 /\ ms[1] = QueryMsg(u, def) /\ Post(ms)
      BY <2>3, <3>1, QueryMsgType, OneMessage
    <3>3. u = v => \E k \in 1 .. Len(ms) : TouchesView(ms[k], v)
      BY <3>2 DEF TouchesView, QueryMsg
    <3> QED
      BY <2>3, <3>2, <3>3, ShownPosted
  <2>4. CASE \E def \in Defs : Define(u, def)
    BY <2>2, <2>3, <2>4 DEF Define, workerVars, MaybeDef
  <2>5. CASE \E def \in Defs : DefineBad(u, def)
    <3>1. PICK def \in Defs : DefineBad(u, def)
      BY <2>5
    <3>2. UNCHANGED <<worker, inbox, outbox, wqueries, wqueue, wcur, wdocs>>
      BY <3>1 DEF DefineBad, chanVars, workerVars
    <3>3. CASE u # v
      BY <1>1, <2>2, <3>1, <3>2, <3>3 DEF DefineBad
    <3>4. CASE u = v
      <4>1. queries'[v] = def /\ def.kind = "syntax"
        BY <2>2, <3>1, <3>4 DEF DefineBad, Compiles
      <4> QED
        BY <4>1 DEF Shown, Selective
    <3> QED
      BY <3>3, <3>4
  <2>6. CASE Undefine(u)
    BY <2>2, <2>3, <2>6 DEF Undefine, workerVars, MaybeDef
  <2> QED
    BY <2>1, <2>4, <2>5, <2>6
<1>4. CASE WorkerReceive
  BY <1>4, ShownReceived
<1>5. CASE \E u \in ViewIds : WorkerRun(u)
  BY <1>5, ShownRun
<1>6. CASE MainReceive
  <2>1. UNCHANGED <<worker, inbox, queries, wqueries, wqueue, wcur, wdocs>>
    BY <1>6 DEF MainReceive, workerVars
  <2> SUFFICES ASSUME worker = "up", queries[v] = wqueries[v], Selective(wqueries[v]), AtRest(v)
               PROVE  WillShow(v, Outcome(wqueries[v], wdocs))'
    BY <2>1 DEF Shown, AtRest, Awaited
  <2>2. PICK o : o = Outcome(wqueries[v], wdocs)
    OBVIOUS
  <2>3. o.kind \in {"result", "error"}
    BY <2>2 DEF Selective, Outcome
  <2>4. WillShow(v, o)
    BY <2>2 DEF Shown
  <2>5. WillShow(v, o)'
    BY <1>6, <2>3, <2>4, ResultShown
  <2> QED
    BY <2>1, <2>2, <2>5 DEF WillShow
<1>7. CASE SaveDocs \/ SaveDocsFails \/ SaveViews
  BY <1>1, <1>7 DEF SaveDocs, SaveDocsFails, SaveViews, workerVars, chanVars
<1>8. CASE WorkerCrash \/ WorkerExit
  BY <1>8 DEF WorkerCrash, WorkerExit, Shown
<1>9. CASE Respawn
  BY <1>9, ShownAtStart DEF Respawn, RespawnWith
<1>10. CASE Restart
  BY <1>10, ShownAtStart DEF Restart, RestartWith
<1>11. CASE UNCHANGED vars
  BY <1>1, <1>11 DEF vars, mainVars, chanVars, workerVars
<1> QED
  BY <1>2, <1>3, <1>4, <1>5, <1>6, <1>7, <1>8, <1>9, <1>10, <1>11 DEF Next, WorkerStep

LEMMA InitShown == Init => AllShown
<1> SUFFICES ASSUME Init, NEW v \in ViewIds PROVE ~AtRest(v)
  BY DEF AllShown, Shown
<1>1. DOMAIN inbox = {1} /\ inbox[1].type = "init"
  BY OneWaits DEF Init
<1> QED
  BY <1>1 DEF AtRest, Awaited, TouchesView

\* When both threads are quiet a view shows what its definition makes of the
\* documents.
LEMMA QuietShown ==
    ASSUME TypeOK, DefsInSync, AllShown, Quiet, NEW v \in ViewIds, Selective(queries[v])
    PROVE  views[v] # NoView /\ views[v].out = Outcome(queries[v], wdocs)
<1>1. inbox = <<>> /\ outbox = <<>> /\ DOMAIN inbox = {} /\ DOMAIN outbox = {}
  BY DEF Quiet
<1>2. Sent(v)
  BY DEF Sent, Selective, Compiles
<1>3. wqueries[v] = queries[v]
  BY <1>1, <1>2 DEF DefsInSync, DefSynced, Quiet
<1>4. AtRest(v)
  BY <1>1, ConstantsOK DEF Quiet, AtRest
<1>5. WillShow(v, Outcome(wqueries[v], wdocs))
  BY <1>3, <1>4 DEF AllShown, Shown, Quiet
<1> QED
  BY <1>1, <1>3, <1>5 DEF WillShow

LEMMA QuietReplica ==
    ASSUME TypeOK, ReplicaInSync, Quiet
    PROVE  wdocs \in Visible
<1>1. inbox = <<>> /\ DOMAIN inbox = {}
  BY DEF Quiet
<1>2. \A i \in Ids : Agree(wdocs[i], docs[i])
  BY <1>1 DEF ReplicaInSync, DocSynced, Quiet
<1> DEFINE P == {i \in Ids : Phantom(docs[i]) /\ wdocs[i] # docs[i]}
<1>3. P \in SUBSET {i \in Ids : Phantom(docs[i])}
  OBVIOUS
<1>4. wdocs \in [Ids -> MaybeDoc]
  BY TypeParts DEF WorkerOK
<1>5. wdocs = [i \in Ids |-> IF i \in P THEN NoDoc ELSE docs[i]]
  BY <1>2, <1>4 DEF Agree
<1> QED
  BY <1>3, <1>5 DEF Visible

\* Whatever raced, crashed or came late: when both threads have settled every view
\* shows the result of its present definition over the present documents, if no
\* listener and no map function interferes (the worker's queue, enqueue and
\* scheduleNext, and the 'message' handlers of both threads).
THEOREM ViewsKept ==
    ASSUME NoRecreation, NoMutation
    PROVE  Spec => []ViewsCurrent
<1>1. TypeOK /\ DefsInSync /\ ReplicaInSync /\ AllShown => ViewsCurrent
  BY QuietShown, QuietReplica DEF ViewsCurrent, Current
<1> QED
  BY <1>1, InitTypeOK, NextTypeOK, InitDefsInSync, NextDefsInSync, InitReplicaInSync,
     NextReplicaInSync, InitShown, NextShown, PTL DEF Spec

-----------------------------------------------------------------------------
(* Publications *)

\* What main holds for a view whose result is to be published is published.
Announced(v) ==
    queries[v] # NoDef /\ queries[v].pub /\ views[v] # NoView /\ views[v].out.kind = "result"
        => published[v] = views[v].out.result
AllAnnounced == \A v \in ViewIds : Announced(v)

\* A restart may load older results than the published ones: without any.
LEMMA NextAnnounced ==
    ASSUME MaxRestarts = 0
    PROVE  TypeOK /\ AllAnnounced /\ [Next]_vars => AllAnnounced'
<1> SUFFICES ASSUME TypeOK, AllAnnounced, [Next]_vars, NEW v \in ViewIds
             PROVE  Announced(v)'
  BY DEF AllAnnounced
<1>1. /\ Announced(v)
      /\ queries \in [ViewIds -> MaybeDef] /\ views \in [ViewIds -> View \cup {NoView}]
      /\ published \in [ViewIds -> Results \cup {NoView}]
  BY TypeParts DEF AllAnnounced, MainOK, PubOK
<1>2. ASSUME queries'[v] = queries[v], views'[v] = views[v], published'[v] = published[v]
      PROVE  Announced(v)'
  BY <1>1, <1>2 DEF Announced
<1>3. CASE DocRequest
  BY <1>2, <1>3, DocRequestCases DEF Commit, ExtendNothing, Del
<1>4. CASE ViewRequest
  <2>1. PICK u \in ViewIds : (\E def \in Defs : Define(u, def) \/ DefineBad(u, def)) \/ Undefine(u)
    BY <1>4 DEF ViewRequest
  <2>2. CASE \E def \in Defs : Define(u, def)
    <3>1. PICK def \in Defs : Define(u, def)
      BY <2>2
    <3>2. CASE u # v
      BY <1>1, <1>2, <3>1, <3>2 DEF Define
    <3>3. CASE u = v
      <4>1. queries'[v] = def /\ views' = views
        BY <1>1, <3>1, <3>3 DEF Define
      <4>2. def.pub /\ views[v] # NoView /\ views[v].out.kind = "result"
              => published'[v] = views[v].out.result
        BY <1>1, <3>1, <3>3 DEF Define
      <4> QED
        BY <4>1, <4>2 DEF Announced
    <3> QED
      BY <3>2, <3>3
  <2>3. CASE \E def \in Defs : DefineBad(u, def)
    <3>1. PICK def \in Defs : DefineBad(u, def)
      BY <2>3
    <3>2. CASE u # v
      BY <1>1, <1>2, <3>1, <3>2 DEF DefineBad
    <3>3. CASE u = v
      <4>1. views'[v] = [rev |-> ViewRev(views, v) + 1, out |-> Failure]
        BY <1>1, <3>1, <3>3 DEF DefineBad
      <4> QED
        BY <4>1 DEF Announced, Failure
    <3> QED
      BY <3>2, <3>3
  <2>4. CASE Undefine(u)
    <3>1. u # v => queries'[v] = queries[v] /\ views'[v] = views[v]
      BY <1>1, <2>4 DEF Undefine
    <3>2. u = v => queries'[v] = NoDef
      BY <1>1, <2>4 DEF Undefine
    <3> QED
      BY <1>2, <2>4, <3>1, <3>2 DEF Undefine, Announced
  <2> QED
    BY <2>1, <2>2, <2>3, <2>4
<1>5. CASE MainReceive
  <2> DEFINE m == Head(outbox)
             fresh == m.out.kind = "result" /\ (views[m.id] = NoView \/ views[m.id].out # m.out)
  <2>1. m \in ViewMessage /\ m.id \in ViewIds /\ queries' = queries
    <3>1. outbox \in Seq(ViewMessage) /\ outbox # <<>> /\ queries' = queries
      BY <1>5, TypeParts DEF MainReceive, ChanOK
    <3>2. m \in ViewMessage
      BY <3>1
    <3> QED
      BY <3>1, <3>2 DEF ViewMessage
  <2>2. /\ m.out.kind = "error" =>
             /\ views' = [views EXCEPT ![m.id] = [rev |-> ViewRev(views, m.id), out |-> m.out]]
             /\ published' = published
        /\ m.out.kind # "error" /\ fresh =>
             /\ views' = [views EXCEPT ![m.id] = [rev |-> ViewRev(views, m.id) + 1, out |-> m.out]]
             /\ queries[m.id] # NoDef /\ queries[m.id].pub =>
                   published' = [published EXCEPT ![m.id] = m.out.result]
             /\ \/ published' = published
                \/ published' = [published EXCEPT ![m.id] = m.out.result]
        /\ m.out.kind # "error" /\ ~fresh => views' = views /\ published' = published
    BY <1>5 DEF MainReceive
  <2> HIDE DEF m, fresh
  <2>3. CASE m.id # v
    BY <1>1, <1>2, <2>1, <2>2, <2>3
  <2>4. CASE m.id = v
    <3>1. CASE m.out.kind = "error"
      <4>1. views'[v] = [rev |-> ViewRev(views, v), out |-> m.out]
        BY <1>1, <2>2, <2>4, <3>1
      <4> QED
        BY <3>1, <4>1 DEF Announced
    <3>2. CASE m.out.kind # "error" /\ fresh
      <4>1. views'[v] = [rev |-> ViewRev(views, v) + 1, out |-> m.out]
        BY <1>1, <2>2, <2>4, <3>2
      <4>2. queries[v] # NoDef /\ queries[v].pub => published'[v] = m.out.result
        BY <1>1, <2>2, <2>4, <3>2
      <4> QED
        BY <2>1, <4>1, <4>2 DEF Announced
    <3>3. CASE m.out.kind # "error" /\ ~fresh
      BY <1>2, <2>1, <2>2, <3>3
    <3> QED
      BY <3>1, <3>2, <3>3
  <2> QED
    BY <2>3, <2>4
<1>6. CASE Restart
  <2>1. restarts \in Nat /\ restarts < MaxRestarts
    BY <1>6, TypeParts DEF Restart, RestartWith, CountOK
  <2> QED
    BY <2>1
<1>7. CASE \/ WorkerReceive \/ (\E u \in ViewIds : WorkerRun(u))
           \/ SaveDocs \/ SaveDocsFails \/ SaveViews
           \/ WorkerCrash \/ WorkerExit \/ Respawn \/ UNCHANGED vars
  BY <1>2, <1>7 DEF WorkerReceive, WorkerRun, SaveDocs, SaveDocsFails, SaveViews, WorkerCrash,
                    WorkerExit, Respawn, RespawnWith, vars, mainVars
<1> QED
  BY <1>3, <1>4, <1>5, <1>6, <1>7 DEF Next, WorkerStep

\* As long as the daemon runs, the last thing published for a view whose result is
\* to be published is its result once both threads have settled (shedb.js 'view' and
\* 'query'), if no map function writes into what it reads.
THEOREM PublishedKept ==
    ASSUME NoMutation, MaxRestarts = 0
    PROVE  Spec => []PublishedCurrent
<1>1. TypeOK /\ DefsInSync /\ AllShown /\ AllAnnounced => PublishedCurrent
  BY QuietShown DEF PublishedCurrent, AllAnnounced, Announced, Selective
<1>2. Init => AllAnnounced
  BY DEF Init, AllAnnounced, Announced, NoDefs
<1> QED
  BY <1>1, <1>2, InitTypeOK, NextTypeOK, InitDefsInSync, NextDefsInSync, InitShown, NextShown,
     NextAnnounced, PTL DEF Spec
=============================================================================
