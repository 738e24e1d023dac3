-------------------------- MODULE MatterBindings --------------------------
(***************************************************************************)
(* Bindings between Matter devices (src/matter/controller.js, addBinding   *)
(* and removeBinding; src/matter/bindings.js).                             *)
(*                                                                         *)
(* A binding is an entry in the source's Binding list and a grant in the   *)
(* target's Access Control list.  A request makes or takes both, one call  *)
(* to a device at a time.  Between two calls other requests run, a device  *)
(* may go away, refuse, or do as it was told while its answer is lost, and *)
(* the daemon may die.  A list is replaced as a whole, from what was read. *)
(***************************************************************************)
EXTENDS Integers, FiniteSets

CONSTANTS
    Sources,     \* <<node, endpoint>> with a Binding list
    Targets,     \* <<node, endpoint>> that can be controlled
    Clusters,    \* through these clusters
    Reqs,        \* slots for requests under way
    MaxEntries,  \* subjects an Access Control list holds besides she
    Faults,      \* what may go wrong, a subset of AllFaults
    MaxRequests, \* bound: requests in a behaviour
    MaxFaults,   \* bound: faults in a behaviour
    Idle         \* a slot without a request

\* "offline": a device goes away     "fails": a call is refused
\* "lost":    an answer is lost      "crash": the daemon dies
\* "unpair":  a device is removed    "overlap": requests meet on a device
AllFaults == {"offline", "fails", "lost", "crash", "unpair", "overlap"}

Node(p) == p[1]
Nodes == {Node(p) : p \in Sources \cup Targets}
TargetNodes == {Node(t) : t \in Targets}
Grants == {Node(s) : s \in Sources} \X Targets \X Clusters
Entries == Targets \X Clusters

Request ==
    [op : {"bind", "unbind"},
     pc : {"acl", "grant", "granted", "list", "enter", "entered", "undo",
           "drop", "dropped", "revoke", "revoked"},
     source : Sources, target : Targets, clusters : SUBSET Clusters,
     acl : SUBSET Grants, list : SUBSET Entries, changed : BOOLEAN, alone : BOOLEAN]

ASSUME BindingsOK ==
    /\ Faults \subseteq AllFaults
    /\ {MaxEntries, MaxRequests, MaxFaults} \subseteq Nat
    /\ IsFiniteSet(Sources) /\ IsFiniteSet(Targets) /\ IsFiniteSet(Clusters)
    /\ Idle \notin Request

VARIABLES
    paired,    \* controller: _server.peers
    online,    \* controller: lifecycle.isOnline
    acl,       \* device: the grants in its Access Control list
    bound,     \* device: the entries in the Binding list of an endpoint
    req,       \* the requests under way
    asked,     \* history: the grants the last settled request wanted
    unsettled, \* history: the grants whose last request had an error, a
               \* warning, no answer, or another request on its devices
    requests, faults   \* counts (bounds only)

deviceVars == <<acl, bound>>
historyVars == <<asked, unsettled>>
vars == <<paired, online, deviceVars, req, historyVars, requests, faults>>

-----------------------------------------------------------------------------
(* Lists: src/matter/bindings.js *)

Wanted(q) == {<<Node(q.source), q.target, c>> : c \in q.clusters}
Wished(q) == {<<q.target, c>> : c \in q.clusters}
Granted(g) == g \in acl[Node(g[2])]
Entered(g) == \E s \in Sources : Node(s) = g[1] /\ <<g[2], g[3]>> \in bound[s]

Subjects(list) == {g[1] : g \in list}

\* A mutant: the entry about to be added is not counted.
MutHasRoom(list, q) == Cardinality(Subjects(list)) <= MaxEntries

\* grantOperate: is there room for one more subject?
HasRoom(list, q) == Cardinality(Subjects(list \cup Wanted(q))) <= MaxEntries

\* clustersStillBound, of the one list the request has changed
StillBound(q) == {c \in Clusters : <<q.target, c>> \in q.list}
ToRevoke(q) == {<<Node(q.source), q.target, c>> : c \in q.clusters \ StillBound(q)}

-----------------------------------------------------------------------------
(* Calls to a device *)

Up(n) == n \in paired \cap online

FaultLeft(f) == f \in Faults /\ faults < MaxFaults
Fault == faults' = faults + 1

Answers(n) == Up(n) /\ UNCHANGED faults
Refuses(n) ==
    \/ ~Up(n) /\ UNCHANGED faults
    \/ Up(n) /\ FaultLeft("fails") /\ Fault
Lost(n) == Up(n) /\ FaultLeft("lost") /\ Fault

\* A call that reads; a call that has an effect.  What the request does next
\* depends on whether it is answered.
Read(n, answered, failed) ==
    \/ Answers(n) /\ answered
    \/ Refuses(n) /\ failed
Write(n, effect, noEffect, answered, failed) ==
    \/ Answers(n) /\ effect /\ answered
    \/ Lost(n) /\ effect /\ failed
    \/ Refuses(n) /\ noEffect /\ failed

-----------------------------------------------------------------------------
(* Requests *)

Pending == {r \in Reqs : req[r] # Idle}
NodesOf(q) == {Node(q.source), Node(q.target)}
Meets(q, r) == NodesOf(q) \cap NodesOf(req[r]) # {}

Blank == [op |-> "bind", pc |-> "", source |-> <<>>, target |-> <<>>, clusters |-> {},
          acl |-> {}, list |-> {}, changed |-> FALSE, alone |-> TRUE]

\* A request arrives; nothing keeps two of them off the same device.
Arrive(r, q) ==
    LET others == {x \in Pending : Meets(q, x)}
    IN  /\ req[r] = Idle
        /\ requests < MaxRequests
        /\ others # {} => "overlap" \in Faults
        /\ requests' = requests + 1
        /\ req' = [x \in Reqs |->
                IF x = r THEN [q EXCEPT !.alone = others = {}]
                ELSE IF x \in others THEN [req[x] EXCEPT !.alone = FALSE] ELSE req[x]]
        /\ unsettled' = IF others = {} THEN unsettled
                        ELSE unsettled \cup Wanted(q) \cup UNION {Wanted(req[x]) : x \in others}
        /\ UNCHANGED <<paired, online, deviceVars, asked, faults>>

Goto(r, q, pc) ==
    /\ req' = [req EXCEPT ![r] = [q EXCEPT !.pc = pc]]
    /\ UNCHANGED historyVars

\* The answer, without a warning
Done(r, q) ==
    /\ req' = [req EXCEPT ![r] = Idle]
    /\ unsettled' = IF q.alone THEN unsettled \ Wanted(q) ELSE unsettled
    /\ asked' = IF q.op = "bind" THEN asked \cup Wanted(q) ELSE asked \ Wanted(q)

\* An error, or a warning in the answer
Trouble(r, q) ==
    /\ req' = [req EXCEPT ![r] = Idle]
    /\ unsettled' = unsettled \cup Wanted(q)
    /\ UNCHANGED asked

SetAcl(q, list) == acl' = [acl EXCEPT ![Node(q.target)] = list]
SetBound(q, list) == bound' = [bound EXCEPT ![q.source] = list]

-----------------------------------------------------------------------------
(* addBinding *)

Bind(r, s, t, cs) ==
    /\ s # t /\ Up(Node(s)) /\ Up(Node(t))
    /\ Arrive(r, [Blank EXCEPT !.pc = "acl", !.source = s, !.target = t, !.clusters = cs])

\* A mutant: one of the clusters granted counts for all of them.
MutReadAcl(r, q) ==
    LET list == acl[Node(q.target)]
    IN  /\ q.op = "bind" /\ q.pc = "acl"
        /\ Read(Node(q.target),
                IF Wanted(q) \cap list # {} THEN Goto(r, q, "list")
                ELSE Goto(r, [q EXCEPT !.acl = list], "grant"),
                Trouble(r, q))
        /\ UNCHANGED deviceVars

ReadAcl(r, q) ==
    LET list == acl[Node(q.target)]
    IN  /\ q.op = "bind" /\ q.pc = "acl"
        /\ Read(Node(q.target),
                CASE Wanted(q) \subseteq list -> Goto(r, q, "list")
                  [] ~(Wanted(q) \subseteq list) /\ HasRoom(list, q) ->
                       Goto(r, [q EXCEPT !.acl = list], "grant")
                  [] OTHER -> Trouble(r, q),
                Trouble(r, q))
        /\ UNCHANGED deviceVars

Grant(r, q) ==
    /\ q.pc = "grant"
    /\ Write(Node(q.target), SetAcl(q, q.acl \cup Wanted(q)), UNCHANGED acl,
             Goto(r, q, "granted"), Trouble(r, q))
    /\ UNCHANGED bound

\* Read back; what fails up to here is not rolled back.
CheckGrant(r, q) ==
    /\ q.pc = "granted"
    /\ Read(Node(q.target),
            IF Wanted(q) \subseteq acl[Node(q.target)]
            THEN Goto(r, [q EXCEPT !.changed = TRUE], "list")
            ELSE Trouble(r, q),
            Trouble(r, q))
    /\ UNCHANGED deviceVars

\* The catch of the second half
RollBack(r, q) == IF q.changed THEN Goto(r, q, "undo") ELSE Trouble(r, q)

ReadList(r, q) ==
    /\ q.op = "bind" /\ q.pc = "list"
    /\ Read(Node(q.source),
            IF Wished(q) \subseteq bound[q.source]
            THEN Done(r, q)
            ELSE Goto(r, [q EXCEPT !.list = bound[q.source]], "enter"),
            RollBack(r, q))
    /\ UNCHANGED deviceVars

Enter(r, q) ==
    /\ q.pc = "enter"
    /\ Write(Node(q.source), SetBound(q, q.list \cup Wished(q)), UNCHANGED bound,
             Goto(r, q, "entered"), RollBack(r, q))
    /\ UNCHANGED acl

CheckEntry(r, q) ==
    /\ q.pc = "entered"
    /\ Read(Node(q.source),
            IF Wished(q) \subseteq bound[q.source] THEN Done(r, q) ELSE RollBack(r, q),
            RollBack(r, q))
    /\ UNCHANGED deviceVars

\* Its own failure is only logged.
Undo(r, q) ==
    /\ q.pc = "undo"
    /\ \/ (Answers(Node(q.target)) \/ Lost(Node(q.target))) /\ SetAcl(q, q.acl)
       \/ Refuses(Node(q.target)) /\ UNCHANGED acl
    /\ Trouble(r, q)
    /\ UNCHANGED bound

-----------------------------------------------------------------------------
(* removeBinding *)

Unbind(r, s, t, cs) ==
    /\ Up(Node(s))
    /\ Arrive(r, [Blank EXCEPT !.op = "unbind", !.pc = "list",
                               !.source = s, !.target = t, !.clusters = cs])

\* With the entries gone: is there a grant to take, and a device to take it from?
Revoking(r, q) ==
    CASE ToRevoke(q) = {} -> Done(r, q)
      [] ToRevoke(q) # {} /\ Up(Node(q.target)) -> Goto(r, q, "acl")
      [] OTHER -> Trouble(r, q)

ReadListForUnbind(r, q) ==
    LET after == [q EXCEPT !.list = bound[q.source] \ Wished(q)]
    IN  /\ q.op = "unbind" /\ q.pc = "list"
        /\ Read(Node(q.source),
                IF Wished(q) \cap bound[q.source] # {}
                THEN Goto(r, after, "drop")
                ELSE Revoking(r, after),
                Trouble(r, q))
        /\ UNCHANGED deviceVars

Drop(r, q) ==
    /\ q.pc = "drop"
    /\ Write(Node(q.source), SetBound(q, q.list), UNCHANGED bound,
             Goto(r, q, "dropped"), Trouble(r, q))
    /\ UNCHANGED acl

CheckDrop(r, q) ==
    /\ q.pc = "dropped"
    /\ Read(Node(q.source),
            IF Wished(q) \cap bound[q.source] = {} THEN Revoking(r, q) ELSE Trouble(r, q),
            Trouble(r, q))
    /\ UNCHANGED deviceVars

ReadAclForUnbind(r, q) ==
    LET list == acl[Node(q.target)]
    IN  /\ q.op = "unbind" /\ q.pc = "acl"
        /\ Read(Node(q.target),
                IF ToRevoke(q) \cap list = {}
                THEN Done(r, q)
                ELSE Goto(r, [q EXCEPT !.acl = list], "revoke"),
                Trouble(r, q))
        /\ UNCHANGED deviceVars

\* A mutant: everything granted to the source is taken.
MutRevoke(r, q) ==
    /\ q.pc = "revoke"
    /\ \/ /\ Answers(Node(q.target))
          /\ SetAcl(q, {g \in q.acl : g[1] # Node(q.source)}) /\ Goto(r, q, "revoked")
       \/ Refuses(Node(q.target)) /\ UNCHANGED acl /\ Trouble(r, q)
    /\ UNCHANGED bound

Revoke(r, q) ==
    /\ q.pc = "revoke"
    /\ Write(Node(q.target), SetAcl(q, q.acl \ ToRevoke(q)), UNCHANGED acl,
             Goto(r, q, "revoked"), Trouble(r, q))
    /\ UNCHANGED bound

\* Read back, for she's own entry only
CheckRevoke(r, q) ==
    /\ q.pc = "revoked"
    /\ Read(Node(q.target),
            Done(r, q),
            Trouble(r, q))
    /\ UNCHANGED deviceVars

-----------------------------------------------------------------------------
(* Devices and the daemon *)

GoOffline(n) ==
    /\ Up(n) /\ FaultLeft("offline") /\ Fault
    /\ online' = online \ {n}
    /\ UNCHANGED <<paired, deviceVars, req, historyVars, requests>>

ComeOnline(n) ==
    /\ n \in paired \ online
    /\ online' = online \cup {n}
    /\ UNCHANGED <<paired, deviceVars, req, historyVars, requests, faults>>

\* A device that can be reached is decommissioned and forgets the fabric; any
\* other is only forgotten.  The bindings of other devices are left alone.
Unpair(n) ==
    /\ n \in paired /\ FaultLeft("unpair") /\ Fault
    /\ paired' = paired \ {n}
    /\ \/ /\ Up(n)
          /\ acl' = [m \in TargetNodes |-> IF m = n THEN {} ELSE acl[m]]
          /\ bound' = [s \in Sources |-> IF Node(s) = n THEN {} ELSE bound[s]]
       \/ UNCHANGED deviceVars
    /\ UNCHANGED <<online, req, historyVars, requests>>

Crash ==
    /\ Pending # {} /\ FaultLeft("crash") /\ Fault
    /\ req' = [r \in Reqs |-> Idle]
    /\ unsettled' = unsettled \cup UNION {Wanted(req[r]) : r \in Pending}
    /\ UNCHANGED <<paired, online, deviceVars, asked, requests>>

-----------------------------------------------------------------------------

Init ==
    /\ paired = Nodes
    /\ online = Nodes
    /\ acl = [n \in TargetNodes |-> {}]
    /\ bound = [s \in Sources |-> {}]
    /\ req = [r \in Reqs |-> Idle]
    /\ asked = {}
    /\ unsettled = {}
    /\ requests = 0
    /\ faults = 0

BindStep(r, q) ==
    \/ ReadAcl(r, q) \/ Grant(r, q) \/ CheckGrant(r, q)
    \/ ReadList(r, q) \/ Enter(r, q) \/ CheckEntry(r, q) \/ Undo(r, q)

UnbindStep(r, q) ==
    \/ ReadListForUnbind(r, q) \/ Drop(r, q) \/ CheckDrop(r, q)
    \/ ReadAclForUnbind(r, q) \/ Revoke(r, q) \/ CheckRevoke(r, q)

RequestStep(r) ==
    /\ r \in Pending
    /\ BindStep(r, req[r]) \/ UnbindStep(r, req[r])
    /\ UNCHANGED <<paired, online, requests>>

Next ==
    \/ \E r \in Reqs, s \in Sources, t \in Targets, cs \in (SUBSET Clusters) \ {{}} :
         Bind(r, s, t, cs) \/ Unbind(r, s, t, cs)
    \/ \E r \in Reqs : RequestStep(r)
    \/ \E n \in Nodes : GoOffline(n) \/ ComeOnline(n) \/ Unpair(n)
    \/ Crash

Spec == Init /\ [][Next]_vars

-----------------------------------------------------------------------------
(* Properties *)

\* The variables have their types, and an Access Control list never holds more
\* subjects than the device has room for.
TypeOK ==
    /\ paired \subseteq Nodes /\ online \subseteq Nodes
    /\ acl \in [TargetNodes -> SUBSET Grants]
    /\ \A n \in TargetNodes : Cardinality(Subjects(acl[n])) <= MaxEntries
    /\ bound \in [Sources -> SUBSET Entries]
    /\ req \in [Reqs -> Request \cup {Idle}]
    /\ asked \subseteq Grants /\ unsettled \subseteq Grants
    /\ requests \in 0 .. MaxRequests /\ faults \in 0 .. MaxFaults

BothPaired(g) == {g[1], Node(g[2])} \subseteq paired
UnderWay(g) == \E r \in Pending : g \in Wanted(req[r])

\* An entry in a source's Binding list is granted by its target at every
\* moment, also between two calls of a request: the grant is made before the
\* entry and taken after it.  Excused are bindings whose last request was not
\* answered with a plain success, or ran together with another on its devices.
EntryGranted ==
    \A g \in Grants \ unsettled : BothPaired(g) /\ Entered(g) => Granted(g)

\* When no request on a binding is under way, both lists are as the last one
\* asked, whatever failed, was lost or was cut short before it; a success that
\* was answered is never a half.
AsAsked ==
    \A g \in Grants \ unsettled :
        BothPaired(g) /\ ~UnderWay(g) => (Granted(g) <=> g \in asked) /\ (Entered(g) <=> g \in asked)
=============================================================================
