------------------------------- MODULE SheDB -------------------------------
(***************************************************************************)
(* sheDB: the document store (src/lib/shedb-core.js), its view worker      *)
(* thread (src/lib/shedb-worker.js) and the routes into it                 *)
(* (src/web/shedb.js, src/web/shedb-api.js).                               *)
(*                                                                         *)
(* The main thread owns docs, queries and views and sends every document   *)
(* change to the worker as a patch; the worker keeps a replica, re-runs    *)
(* the views a change may affect and posts their results back.  docs.json  *)
(* and views.json are written 250 ms after the last change.  The worker    *)
(* may die and is respawned; the daemon may be killed and restarted.       *)
(***************************************************************************)
EXTENDS Integers, Sequences, FiniteSets

CONSTANTS
    Ids,        \* document ids
    ViewIds,    \* view names
    Props,      \* property names of a document
    Vals,       \* property values
    NoVal,      \* an absent property
    NoDoc,      \* an absent document
    NoDef,      \* an absent view definition
    NoView,     \* an absent view result
    Payloads,   \* bodies clients send to set
    Partials,   \* bodies clients send to extend
    Defs,       \* view definitions clients send
    OnDelete,   \* what a script's she.db.sub listener sets a deleted document to
    MaxRev,     \* bound: document changes in a behaviour
    MaxViewRev, \* bound: view changes and definitions in a behaviour
    MaxInbox,   \* bound: messages waiting for the worker
    MaxCrashes, \* bound: worker crashes
    MaxRestarts \* bound: daemon restarts

Body == [Props -> Vals \cup {NoVal}]
Doc == [body : Body, rev : Nat \cup {-1}]

(***************************************************************************)
(* A view definition is client code: what it selects (filter), what else   *)
(* its map or reduce reads through api.getDocument (reads), and how it     *)
(* ends.  "array" and "object" are what reduce returns, "throws" a runtime *)
(* error, "syntax" a compile error, "mutates" a map that assigns to this.  *)
(***************************************************************************)
Kinds == {"array", "object", "throws", "syntax", "mutates"}
Def == [filter : SUBSET Ids, reads : SUBSET Ids, kind : Kinds, pub : BOOLEAN]

(***************************************************************************)
(* What a view can show: the documents a run looked at, or an error.       *)
(***************************************************************************)
Results == UNION {[S -> Body \cup {NoDoc}] : S \in SUBSET Ids}
Out == [kind : {"result", "error"}, result : Results]
View == [rev : Nat \cup {-1}, out : Out]

ASSUME ConstantsOK ==
    /\ IsFiniteSet(ViewIds)
    /\ Payloads \subseteq Body
    /\ Partials \subseteq Body
    /\ Defs \subseteq Def
    /\ OnDelete \in [Ids -> Body \cup {NoDoc}]
    /\ NoVal \notin Vals
    /\ NoDoc \notin Doc
    /\ NoDef \notin Def
    /\ NoView \notin ViewIds /\ NoView \notin View
    /\ {MaxRev, MaxViewRev, MaxInbox, MaxCrashes, MaxRestarts} \subseteq Nat

VARIABLES
    docs,       \* main thread: this.docs
    rev,        \* main thread: this.rev, the global revision counter
    queries,    \* main thread: this.queries, the view definitions
    views,      \* main thread: this.views, the last results
    docsTimer,  \* main thread: the docs.json save is pending
    viewsTimer, \* main thread: the views.json save is pending
    saveFailed, \* the last docs.json write threw
    disk,       \* docs.json: [rev, docs, queries]
    diskViews,  \* views.json
    worker,     \* "up"; "dying": it exited, main has not seen it; "null": this._worker = null
    inbox,      \* messages main -> worker
    outbox,     \* messages worker -> main
    wdocs,      \* worker: docs
    wqueries,   \* worker: queries (the last definition that compiled)
    wqueue,     \* worker: queue, the views waiting to run
    wcur,       \* worker: the view setImmediate will run next, or NoView
    published,  \* broker: the last result published for a view
    viewOps,    \* count of view changes and definitions (bound only)
    crashes,    \* count of worker crashes (bound only)
    restarts    \* count of restarts (bound only)

mainVars == <<docs, rev, queries, views, docsTimer, viewsTimer, saveFailed>>
diskVars == <<disk, diskViews>>
workerVars == <<wdocs, wqueries, wqueue, wcur>>
chanVars == <<worker, inbox, outbox>>
boundVars == <<viewOps, crashes, restarts>>
vars == <<mainVars, diskVars, workerVars, chanVars, published, boundVars>>

-----------------------------------------------------------------------------
(* Results *)

BodyOf(d) == IF d = NoDoc THEN NoDoc ELSE d.body

\* What map and reduce compute from the documents: they see the documents the
\* filter lets through and those they ask for by id.
MapReduce(def, ds) == [i \in def.filter \cup def.reads |-> BodyOf(ds[i])]
EmptyResult == [i \in {} |-> NoDoc]

\* What the worker posts.  The result goes through Array.from, which makes an
\* empty list of an object.
Outcome(def, ds) ==
    CASE def.kind \in {"array", "mutates"} -> [kind |-> "result", result |-> MapReduce(def, ds)]
      [] def.kind = "object" -> [kind |-> "result", result |-> EmptyResult]
      [] OTHER -> [kind |-> "error", result |-> EmptyResult]

Failure == [kind |-> "error", result |-> EmptyResult]
Deleted == [kind |-> "deleted", result |-> EmptyResult]

ViewRev(vs, v) == IF vs[v] = NoView THEN -1 ELSE vs[v].rev

-----------------------------------------------------------------------------
(* Messages *)

\* The state a (re)spawned worker is sent.  Main posts the documents and then
\* one message per query in one go; a fresh worker has nothing to run between.
InitMsg(ds, qs) == [type |-> "init", docs |-> ds, queries |-> qs]
DocMsg(i, d) == [type |-> "doc", id |-> i, doc |-> d]         \* "patch"; "del" when d = NoDoc
QueryMsg(v, def) == [type |-> "query", id |-> v, def |-> def] \* "delQuery" when def = NoDef

\* postMessage: a dead worker swallows the messages; with no worker none is sent.
Post(ms) ==
    /\ Len(inbox) + Len(ms) <= MaxInbox
    /\ inbox' = IF worker = "up" THEN inbox \o ms ELSE inbox
    /\ UNCHANGED <<worker, outbox>>

-----------------------------------------------------------------------------
(* Documents *)

OldRev(i) == IF docs[i] = NoDoc THEN -1 ELSE docs[i].rev

\* The common tail of set, extend and prop when something changed.
Commit(i, body) ==
    /\ rev < MaxRev
    /\ docs' = [docs EXCEPT ![i] = [body |-> body, rev |-> OldRev(i) + 1]]
    /\ rev' = rev + 1
    /\ docsTimer' = TRUE
    /\ Post(<<DocMsg(i, docs'[i])>>)
    /\ UNCHANGED <<queries, views, viewsTimer, saveFailed, diskVars, workerVars,
                   published, boundVars>>

Set(i, body) ==
    /\ BodyOf(docs[i]) # body
    /\ Commit(i, body)

Merge(old, part) == [p \in Props |-> IF part[p] = NoVal THEN old[p] ELSE part[p]]
EmptyBody == [p \in Props |-> NoVal]

Extend(i, part) ==
    LET old == IF docs[i] = NoDoc THEN EmptyBody ELSE docs[i].body
    IN  /\ Merge(old, part) # old
        /\ Commit(i, Merge(old, part))

\* extend creates the document before it looks whether anything changed: an
\* empty partial leaves a document with _rev -1 that nobody is told of.
ExtendNothing(i, part) ==
    /\ docs[i] = NoDoc
    /\ part = EmptyBody
    /\ docs' = [docs EXCEPT ![i] = [body |-> EmptyBody, rev |-> -1]]
    /\ UNCHANGED <<rev, queries, views, docsTimer, viewsTimer, saveFailed, diskVars,
                   workerVars, chanVars, published, boundVars>>

\* del emits 'update' before it posts to the worker, and emit is a call: a
\* listener that sets the document again is through, its patch posted, when
\* del posts its own message.
Del(i) ==
    LET again == OnDelete[i]
        doc == IF again = NoDoc THEN NoDoc ELSE [body |-> again, rev |-> 0]
    IN  /\ rev' = rev + (IF again = NoDoc THEN 1 ELSE 2)
        /\ rev' <= MaxRev
        /\ docs' = [docs EXCEPT ![i] = doc]
        /\ docsTimer' = TRUE
        /\ Post(IF again = NoDoc THEN <<DocMsg(i, NoDoc)>>
                ELSE <<DocMsg(i, doc), DocMsg(i, NoDoc)>>)
        /\ UNCHANGED <<queries, views, viewsTimer, saveFailed, diskVars, workerVars,
                       published, boundVars>>

Prop(i, p, val) ==
    /\ docs[i] # NoDoc
    /\ docs[i].body[p] # val     \* "set"/"create" of a value, "del" when val = NoVal
    /\ Commit(i, [docs[i].body EXCEPT ![p] = val])

DocRequest ==
    \E i \in Ids :
        \/ \E b \in Payloads : Set(i, b)
        \/ \E b \in Partials : Extend(i, b) \/ ExtendNothing(i, b)
        \/ Del(i)
        \/ \E p \in Props, val \in Vals \cup {NoVal} : Prop(i, p, val)

-----------------------------------------------------------------------------
(* View definitions *)

Compiles(def) == def.kind # "syntax"

\* A definition that does not compile replaces the old one in memory, sets the
\* view's error, and is neither sent to the worker nor saved.
DefineBad(v, def) ==
    /\ ~Compiles(def)
    /\ viewOps < MaxViewRev
    /\ viewOps' = viewOps + 1
    /\ queries' = [queries EXCEPT ![v] = def]
    /\ views' = [views EXCEPT ![v] = [rev |-> ViewRev(views, v) + 1, out |-> Failure]]
    /\ UNCHANGED <<docs, rev, docsTimer, viewsTimer, saveFailed, diskVars, workerVars,
                   chanVars, published, crashes, restarts>>

\* Mutant: saving a definition publishes nothing and saves nothing.
MutDefine(v, def) ==
    /\ Compiles(def)
    /\ viewOps < MaxViewRev
    /\ viewOps' = viewOps + 1
    /\ queries' = [queries EXCEPT ![v] = def]
    /\ Post(<<QueryMsg(v, def)>>)
    /\ UNCHANGED <<docs, rev, views, docsTimer, viewsTimer, saveFailed, diskVars,
                   workerVars, published, crashes, restarts>>

\* Saving a definition publishes the result already at hand.
Define(v, def) ==
    /\ Compiles(def)
    /\ viewOps < MaxViewRev
    /\ viewOps' = viewOps + 1
    /\ queries' = [queries EXCEPT ![v] = def]
    /\ Post(<<QueryMsg(v, def)>>)
    /\ docsTimer' = TRUE
    /\ published' =
           IF def.pub /\ views[v] # NoView /\ views[v].out.kind = "result"
           THEN [published EXCEPT ![v] = views[v].out.result]
           ELSE published
    /\ UNCHANGED <<docs, rev, views, viewsTimer, saveFailed, diskVars, workerVars, crashes, restarts>>

Undefine(v) ==
    /\ viewOps < MaxViewRev
    /\ viewOps' = viewOps + 1
    /\ queries' = [queries EXCEPT ![v] = NoDef]
    /\ views' = [views EXCEPT ![v] = NoView]
    /\ docsTimer' = TRUE
    /\ viewsTimer' = TRUE
    /\ Post(<<QueryMsg(v, NoDef)>>)
    /\ UNCHANGED <<docs, rev, saveFailed, diskVars, workerVars, published, crashes, restarts>>

ViewRequest ==
    \E v \in ViewIds :
        \/ \E def \in Defs : Define(v, def) \/ DefineBad(v, def)
        \/ Undefine(v)

-----------------------------------------------------------------------------
(* The worker thread *)

\* enqueue + scheduleNext: the views in S are queued; if nothing is scheduled
\* one of them is.  The queue is served in insertion order; which of several
\* waiting views is next is left open here.
Schedule(queue, cur) ==
    IF cur # NoView \/ queue = {}
    THEN wqueue' = queue /\ wcur' = cur
    ELSE \E v \in queue : wcur' = v /\ wqueue' = queue \ {v}

\* Mutant: a change that comes while a view is about to run queues nothing.
MutMatching(i) ==
    {v \in ViewIds : wcur = NoView /\ wqueries[v] # NoDef /\ i \in wqueries[v].filter}
Matching(i) == {v \in ViewIds : wqueries[v] # NoDef /\ i \in wqueries[v].filter}

\* Every order in which the members of S can be sent.
Orders(S) == {s \in [1 .. Cardinality(S) -> S] : \A e \in S : \E k \in DOMAIN s : s[k] = e}

WorkerInit ==
    LET m == Head(inbox)
        bad == {v \in ViewIds : m.queries[v] # NoDef /\ ~Compiles(m.queries[v])}
        good == {v \in ViewIds : m.queries[v] # NoDef /\ Compiles(m.queries[v])}
    IN  /\ m.type = "init"
        /\ wdocs' = m.docs
        /\ wqueries' = [v \in ViewIds |-> IF v \in good THEN m.queries[v] ELSE NoDef]
        /\ Schedule(good, wcur)
        /\ \E order \in Orders(bad) :
              outbox' = outbox \o [k \in DOMAIN order |-> [id |-> order[k], out |-> Failure]]

ReplaceDoc(affected) ==
    LET m == Head(inbox)
    IN  /\ m.type = "doc"
        /\ wdocs' = [wdocs EXCEPT ![m.id] = m.doc]
        /\ Schedule(wqueue \cup affected, wcur)
        /\ UNCHANGED <<wqueries, outbox>>

\* Mutant: a deletion queues no view.
MutWorkerDoc == ReplaceDoc(IF Head(inbox).doc = NoDoc THEN {} ELSE Matching(Head(inbox).id))
WorkerDoc == ReplaceDoc(Matching(Head(inbox).id))

WorkerQuery ==
    LET m == Head(inbox)
    IN  /\ m.type = "query"
        /\ wqueries' = [wqueries EXCEPT ![m.id] = m.def]
        /\ IF m.def = NoDef
           THEN /\ wqueue' = wqueue \ {m.id}
                /\ outbox' = Append(outbox, [id |-> m.id, out |-> Deleted])
                /\ UNCHANGED wcur
           ELSE /\ Schedule(wqueue \cup {m.id}, wcur)
                /\ UNCHANGED outbox
        /\ UNCHANGED wdocs

WorkerReceive ==
    /\ worker = "up"
    /\ inbox # <<>>
    /\ WorkerInit \/ WorkerDoc \/ WorkerQuery
    /\ inbox' = Tail(inbox)
    /\ UNCHANGED <<mainVars, diskVars, worker, published, boundVars>>

\* A map function that assigns to this writes into the worker's own documents.
Mutated(def, ds) ==
    IF def.kind # "mutates" THEN {ds}
    ELSE {[i \in Ids |-> IF i \in def.filter /\ ds[i] # NoDoc
                         THEN [ds[i] EXCEPT !.body = [p \in Props |-> x]]
                         ELSE ds[i]] : x \in Vals}

\* buildAndRun
WorkerRun(v) ==
    /\ worker = "up"
    /\ wcur = v
    /\ IF wqueries[v] = NoDef
       THEN UNCHANGED <<wdocs, outbox>>
       ELSE \E ds \in Mutated(wqueries[v], wdocs) :
              /\ wdocs' = ds
              /\ outbox' = Append(outbox, [id |-> v, out |-> Outcome(wqueries[v], ds)])
    /\ Schedule(wqueue, NoView)
    /\ UNCHANGED <<mainVars, diskVars, worker, inbox, wqueries, published, boundVars>>

-----------------------------------------------------------------------------
(* Results arriving in the main thread *)

\* the worker's 'message' handler
MainReceive ==
    /\ outbox # <<>>
    /\ outbox' = Tail(outbox)
    /\ LET m == Head(outbox)
           v == m.id
           fails == m.out.kind = "error"
           fresh == m.out.kind = "result" /\ (views[v] = NoView \/ views[v].out # m.out)
       IN  /\ views' = IF fails
                       THEN [views EXCEPT ![v] = [rev |-> ViewRev(views, v), out |-> m.out]]
                       ELSE IF fresh
                       THEN [views EXCEPT ![v] = [rev |-> ViewRev(views, v) + 1, out |-> m.out]]
                       ELSE views
           /\ viewsTimer' = (viewsTimer \/ fails \/ fresh)
           /\ published' = IF fresh /\ queries[v] # NoDef /\ queries[v].pub
                           THEN [published EXCEPT ![v] = m.out.result]
                           ELSE published
    /\ UNCHANGED <<docs, rev, queries, docsTimer, saveFailed, diskVars, workerVars,
                   worker, inbox, boundVars>>

-----------------------------------------------------------------------------
(* Files *)

Memory == [rev |-> rev, docs |-> docs, queries |-> queries]

SaveDocs ==
    /\ docsTimer
    /\ disk' = Memory
    /\ docsTimer' = FALSE
    /\ saveFailed' = FALSE
    /\ UNCHANGED <<docs, rev, queries, views, viewsTimer, diskViews, workerVars, chanVars,
                   published, boundVars>>

\* Mutant: the file is written in place, so a failed write tears it.
MutSaveDocsFails ==
    /\ docsTimer
    /\ disk' = [Memory EXCEPT !.queries = disk.queries]
    /\ docsTimer' = FALSE
    /\ saveFailed' = TRUE
    /\ UNCHANGED <<docs, rev, queries, views, viewsTimer, diskViews, workerVars, chanVars,
                   published, boundVars>>

\* The write throws: the old file stays, the timer is gone, nothing retries.
SaveDocsFails ==
    /\ docsTimer
    /\ docsTimer' = FALSE
    /\ saveFailed' = TRUE
    /\ UNCHANGED <<docs, rev, queries, views, viewsTimer, diskVars, workerVars, chanVars,
                   published, boundVars>>

\* A write that throws leaves the old results in the file, and nothing retries.
SaveViews ==
    /\ viewsTimer
    /\ diskViews' = views \/ diskViews' = diskViews
    /\ viewsTimer' = FALSE
    /\ UNCHANGED <<docs, rev, queries, views, docsTimer, saveFailed, disk, workerVars,
                   chanVars, published, boundVars>>

-----------------------------------------------------------------------------
(* Crashes *)

NoDocs == [i \in Ids |-> NoDoc]
NoDefs == [v \in ViewIds |-> NoDef]

WorkerCrash ==
    /\ worker = "up"
    /\ crashes < MaxCrashes
    /\ crashes' = crashes + 1
    /\ worker' = "dying"
    /\ inbox' = <<>>
    /\ wdocs' = NoDocs
    /\ wqueries' = NoDefs
    /\ wqueue' = {}
    /\ wcur' = NoView
    /\ UNCHANGED <<mainVars, diskVars, outbox, published, viewOps, restarts>>

\* 'exit' comes after the messages the worker had posted.
WorkerExit ==
    /\ worker = "dying"
    /\ outbox = <<>>
    /\ worker' = "null"
    /\ UNCHANGED <<mainVars, diskVars, workerVars, inbox, outbox, published, boundVars>>

RespawnWith(ds, qs) ==
    /\ worker = "null"
    /\ worker' = "up"
    /\ inbox' = <<InitMsg(ds, qs)>>
    /\ UNCHANGED <<mainVars, diskVars, workerVars, outbox, published, boundVars>>

\* Mutants: a new worker is sent only the definitions, only the documents; no new
\* worker is started.
MutRespawnNoDocs == RespawnWith(NoDocs, queries)
MutRespawnNoDefs == RespawnWith(docs, NoDefs)
MutRespawnNever == FALSE /\ UNCHANGED vars

Respawn == RespawnWith(docs, queries)

\* _load: the views of definitions that no longer compile are set to the error.
LoadViews(qs, vs) ==
    [v \in ViewIds |-> IF qs[v] # NoDef /\ ~Compiles(qs[v])
                       THEN [rev |-> ViewRev(vs, v) + 1, out |-> Failure]
                       ELSE vs[v]]

\* The daemon starts again from the files; its worker is sent the definitions qs.
RestartWith(qs) ==
    /\ restarts < MaxRestarts
    /\ restarts' = restarts + 1
    /\ rev' = disk.rev
    /\ docs' = disk.docs
    /\ queries' = disk.queries
    /\ views' = LoadViews(disk.queries, diskViews)
    /\ docsTimer' = FALSE
    /\ viewsTimer' = FALSE
    /\ saveFailed' = FALSE
    /\ worker' = "up"
    /\ inbox' = <<InitMsg(disk.docs, qs)>>
    /\ outbox' = <<>>
    /\ wdocs' = NoDocs
    /\ wqueries' = NoDefs
    /\ wqueue' = {}
    /\ wcur' = NoView
    /\ UNCHANGED <<diskVars, published, viewOps, crashes>>

\* Mutant: the first spawn after a start is sent the documents only.
MutRestart == RestartWith(NoDefs)

\* The daemon stops, by a signal or a crash (gracefulShutdown does not save
\* either), and starts again.
Restart == RestartWith(disk.queries)

-----------------------------------------------------------------------------

Init ==
    /\ docs = NoDocs
    /\ rev = 0
    /\ queries = NoDefs
    /\ views = [v \in ViewIds |-> NoView]
    /\ docsTimer = FALSE
    /\ viewsTimer = FALSE
    /\ saveFailed = FALSE
    /\ disk = [rev |-> 0, docs |-> NoDocs, queries |-> NoDefs]
    /\ diskViews = [v \in ViewIds |-> NoView]
    /\ worker = "up"
    /\ inbox = <<InitMsg(NoDocs, NoDefs)>>
    /\ outbox = <<>>
    /\ wdocs = NoDocs
    /\ wqueries = NoDefs
    /\ wqueue = {}
    /\ wcur = NoView
    /\ published = [v \in ViewIds |-> NoView]
    /\ viewOps = 0
    /\ crashes = 0
    /\ restarts = 0

WorkerStep == WorkerReceive \/ \E v \in ViewIds : WorkerRun(v)

Next ==
    \/ DocRequest
    \/ ViewRequest
    \/ WorkerStep
    \/ MainReceive
    \/ SaveDocs \/ SaveDocsFails \/ SaveViews
    \/ WorkerCrash \/ WorkerExit \/ Respawn \/ Restart

Spec == Init /\ [][Next]_vars

\* The event loops of both threads keep turning, and timers fire.
Fairness ==
    /\ WF_vars(WorkerReceive)
    /\ \A v \in ViewIds : WF_vars(WorkerRun(v))
    /\ WF_vars(MainReceive)
    /\ WF_vars(SaveDocs)
    /\ WF_vars(SaveViews)
    /\ WF_vars(WorkerExit)
    /\ WF_vars(Respawn)

FairSpec == Spec /\ Fairness

-----------------------------------------------------------------------------
(* Properties *)

MaybeDoc == Doc \cup {NoDoc}
MaybeDef == Defs \cup {NoDef}
Message ==
    [type : {"init"}, docs : [Ids -> MaybeDoc], queries : [ViewIds -> MaybeDef]]
        \cup [type : {"doc"}, id : Ids, doc : MaybeDoc]
        \cup [type : {"query"}, id : ViewIds, def : MaybeDef]
ViewMessage == [id : ViewIds, out : Out \cup {Deleted}]
FileState == [rev : Nat, docs : [Ids -> MaybeDoc], queries : [ViewIds -> MaybeDef]]

\* Every variable has its type.
TypeOK ==
    /\ Memory \in FileState
    /\ views \in [ViewIds -> View \cup {NoView}]
    /\ {docsTimer, viewsTimer, saveFailed} \subseteq BOOLEAN
    /\ disk \in FileState
    /\ diskViews \in [ViewIds -> View \cup {NoView}]
    /\ worker \in {"up", "dying", "null"}
    /\ inbox \in Seq(Message)
    /\ outbox \in Seq(ViewMessage)
    /\ wdocs \in [Ids -> MaybeDoc]
    /\ wqueries \in [ViewIds -> MaybeDef]
    /\ wqueue \subseteq ViewIds
    /\ wcur \in ViewIds \cup {NoView}
    /\ published \in [ViewIds -> Results \cup {NoView}]
    /\ {viewOps, crashes, restarts} \subseteq Nat

\* A document extend created from an empty partial: in docs, told to nobody.
Phantom(d) == d # NoDoc /\ d.rev = -1

\* What the worker holds for a document is what main holds, up to phantoms.
Agree(w, d) == w = d \/ (w = NoDoc /\ Phantom(d))

TouchesDoc(m, i) == m.type = "init" \/ (m.type = "doc" /\ m.id = i)
DocIn(m, i) == IF m.type = "init" THEN m.docs[i] ELSE m.doc

\* k is the place of the last message waiting in the inbox that touches i.
LastDocMsg(k, i) ==
    /\ TouchesDoc(inbox[k], i)
    /\ \A j \in DOMAIN inbox : TouchesDoc(inbox[j], i) => j <= k

DocSynced(i) ==
    /\ \A k \in DOMAIN inbox : LastDocMsg(k, i) => Agree(DocIn(inbox[k], i), docs[i])
    /\ (\A k \in DOMAIN inbox : ~TouchesDoc(inbox[k], i)) => Agree(wdocs[i], docs[i])

\* Once the worker has read what it was sent, its replica of every document is
\* the main thread's: no set, extend, prop or del, no worker crash, respawn or
\* daemon restart ever leaves the two apart (shedb-core.js _sendPatch and
\* _sendInitialState, shedb-worker.js message handler).
ReplicaInSync == worker = "up" => \A i \in Ids : DocSynced(i)

TouchesView(m, v) == m.type = "init" \/ (m.type = "query" /\ m.id = v)
DefIn(m, v) == IF m.type = "init" THEN m.queries[v] ELSE m.def

LastViewMsg(k, v) ==
    /\ TouchesView(inbox[k], v)
    /\ \A j \in DOMAIN inbox : TouchesView(inbox[j], v) => j <= k

DefSynced(v) ==
    /\ \A k \in DOMAIN inbox : LastViewMsg(k, v) => DefIn(inbox[k], v) = queries[v]
    /\ (\A k \in DOMAIN inbox : ~TouchesView(inbox[k], v)) => wqueries[v] = queries[v]

\* A definition that does not compile is not sent: the worker goes on with the
\* one before.
Sent(v) == queries[v] = NoDef \/ Compiles(queries[v])

\* The same for the view definitions that are sent (shedb-core.js query and
\* _sendInitialState).
DefsInSync == worker = "up" => \A v \in ViewIds : Sent(v) => DefSynced(v)

\* Both threads have done everything they were asked to do.
Quiet ==
    /\ worker = "up"
    /\ inbox = <<>> /\ outbox = <<>>
    /\ wqueue = {} /\ wcur = NoView

\* The documents a client can see, with some phantoms left out.
Visible == {[i \in Ids |-> IF i \in P THEN NoDoc ELSE docs[i]] :
                P \in SUBSET {i \in Ids : Phantom(docs[i])}}

\* Definitions whose result depends on nothing but the documents they select.
Selective(def) == def # NoDef /\ def.reads \subseteq def.filter /\ def.kind \in {"array", "throws"}

Current(v) ==
    /\ views[v] # NoView
    /\ views[v].out \in {Outcome(queries[v], ds) : ds \in Visible}

\* When both threads have settled, every view shows the result of its present
\* definition over the present documents, whatever raced, crashed or came late.
ViewsCurrent == Quiet => \A v \in ViewIds : Selective(queries[v]) => Current(v)

\* When both threads have settled, the last thing published for a view whose
\* result is to be published is its result (shedb.js 'view' and 'query').
PublishedCurrent ==
    Quiet => \A v \in ViewIds :
                 /\ Selective(queries[v])
                 /\ queries[v].pub
                 /\ views[v].out.kind = "result"
                 => published[v] = views[v].out.result

(* docs.json is a debounced file of the documents and definitions. *)

Lossless(m, d) ==
    /\ m.rev = d.rev
    /\ \A i \in Ids : m.docs[i] = d.docs[i] \/ Phantom(m.docs[i])
    /\ \A v \in ViewIds :
          \/ m.queries[v] = d.queries[v]
          \/ m.queries[v] # NoDef /\ ~Compiles(m.queries[v])

DocsFile ==
    INSTANCE WriteBehind WITH
        State <- FileState, mem <- Memory, armed <- docsTimer, failed <- saveFailed

\* docs.json implements the debounced file: it always holds one complete past
\* state, a change arms the save, and a restart continues from it.
ImplementsDocsFile == DocsFile!Spec

\* Nothing saved is out of date unless a save is pending or failed.
DocsSaved == DocsFile!NothingLost

\* Once clients stop, every view becomes and stays current and every document
\* is on disk or its save failed.
Converges ==
    /\ <>[](\A v \in ViewIds : Selective(queries[v]) => Current(v))
    /\ <>[](Lossless(Memory, disk) \/ saveFailed)
=============================================================================
