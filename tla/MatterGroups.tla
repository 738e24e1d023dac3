--------------------------- MODULE MatterGroups ---------------------------
(***************************************************************************)
(* Matter groups (src/matter/controller.js, createGroup to                 *)
(* _removeGroupBinding; src/matter/groups.js).                             *)
(*                                                                         *)
(* A member of a group needs four things on its device: the group's key    *)
(* set, an entry that maps the group to it, the group in the endpoint's    *)
(* table, and a grant.  Key set and map belong to the device, so other     *)
(* endpoints, other groups and group bindings share them.  Requests put    *)
(* and take them call by call; other requests run in between.  What the     *)
(* daemon believes is in groups.enc.                                       *)
(***************************************************************************)
EXTENDS Integers, FiniteSets

CONSTANTS
    Members,     \* <<node, endpoint>> that may join a group
    Sources,     \* <<node, endpoint>> that may be bound to one
    Gids,        \* group ids and key set ids, 1 .. n
    Made,        \* the groups in the store when the daemon starts, 1 .. Made
    Start,       \* who may be in them then: sets of <<group, member>>
    OwnKeys,     \* may a group be made with a key set of its own?
    MaxKeys,     \* key sets a device holds, she's IPK not counted
    MaxGroups,   \* groups a device holds
    Reqs,        \* slots for requests under way
    Faults,      \* what may go wrong, a subset of AllFaults
    MaxObjects,  \* bound: groups made in a behaviour
    MaxRequests, \* bound: requests in a behaviour
    MaxFaults,   \* bound: faults in a behaviour
    Idle         \* a slot without a request

\* "offline": a device goes away, perhaps for one call
\* "lost":    an answer is lost      "crash": the daemon dies
\* "unpair":  a device is removed    "overlap": requests meet
AllFaults == {"offline", "lost", "crash", "unpair", "overlap"}

Ports == Members \cup Sources
NoPort == <<>>
Node(p) == p[1]
Nodes == {Node(p) : p \in Ports}
Objects == 1 .. MaxObjects
Keys == 0 .. MaxObjects         \* 0: none; the key made with group object k
Maps == [Gids -> Gids \cup {0}] \* groupKeyMap: group id -> key set id, 0 without
NoMember == "none"

Status == {NoMember, "pending", "ok", "error"}
Group == [id : Gids \cup {0}, ks : Gids \cup {0}, live : BOOLEAN, members : [Members -> Status]]
Set == [key : Keys, shared : BOOLEAN]
Request ==
    [op : {"add", "remove", "delete", "bind", "unbind"},
     pc : {"next", "keys", "map", "keyWrite", "mapWrite", "mapBack", "join", "acl", "grant", "granted",
           "leave", "revoke", "unmapRead", "unmap", "keyRemove", "list", "enter", "entered", "drop"},
     group : Objects, port : Ports \cup {NoPort}, todo : SUBSET Members,
     ids : SUBSET Gids, map : Maps, acl : SUBSET (Gids \X Members), list : SUBSET Gids,
     trouble : BOOLEAN, alone : BOOLEAN]

ASSUME GroupsOK ==
    /\ Gids \subseteq Nat \ {0} /\ 1 \in Gids
    /\ {Made, MaxKeys, MaxGroups, MaxObjects, MaxRequests, MaxFaults} \subseteq Nat
    /\ Made <= MaxObjects /\ 1 .. Made \subseteq Gids
    /\ Start \subseteq SUBSET ((1 .. Made) \X Members)
    /\ OwnKeys \in BOOLEAN /\ Faults \subseteq AllFaults
    /\ NoPort \notin Ports /\ Idle \notin Request

VARIABLES
    paired,    \* controller: _server.peers
    online,    \* controller: lifecycle.isOnline
    keys,      \* device: key set id -> key
    keyMap,    \* device: groupKeyMap
    table,     \* device: the groups an endpoint has joined
    acl,       \* device: the grants to groups, <<group id, endpoint>>
    bound,     \* device: the group entries of an endpoint's Binding list
    groups,    \* controller: the group objects
    sets,      \* controller: key set id -> its key, and whether groups share it
    saved,     \* groups.enc
    req,       \* the requests under way
    unsettled, \* history: <<kind, group id, port>> whose last request had an
               \* error, a problem, no answer, or another request on its device
    requests, faults   \* counts (bounds only)

deviceVars == <<keys, keyMap, table, acl, bound>>
storeVars == <<groups, sets, saved>>
vars == <<paired, online, deviceVars, storeVars, req, unsettled, requests, faults>>

-----------------------------------------------------------------------------
(* The store: src/matter/groups.js *)

\* A group object: its members have a status; it is in the store while live.
\* An object stays in the hands of requests that found it.
NewGroup(gid, ks) == [id |-> gid, ks |-> ks, live |-> TRUE, members |-> [p \in Members |-> NoMember]]
NotMade == [id |-> 0, ks |-> 0, live |-> FALSE, members |-> [p \in Members |-> NoMember]]

Live == {o \in Objects : groups[o].live}
Listed(o) == {p \in Members : groups[o].members[p] # NoMember}
Lowest(S) == CHOOSE i \in S : \A j \in S : i <= j
\* A mutant: the next number after those in use.
MutFreeGid == Cardinality(Live) + 1
FreeGid == Lowest(Gids \ {groups[o].id : o \in Live})
NoSet == [key |-> 0, shared |-> FALSE]
FreeSets == {k \in Gids : sets[k] = NoSet}
SharedSet == 1

\* _saveGroups
Save == saved' = [groups |-> groups', sets |-> sets']

SetStatus(o, p, status) == groups' = [groups EXCEPT ![o].members[p] = status]

-----------------------------------------------------------------------------
(* Calls to a device *)

Up(n) == n \in paired \cap online

FaultLeft(f) == f \in Faults /\ faults < MaxFaults
Fault == faults' = faults + 1

Answers(n) == Up(n) /\ UNCHANGED faults
Refuses(n) == ~Up(n) /\ UNCHANGED faults
Lost(n) == Up(n) /\ FaultLeft("lost") /\ Fault

\* A call that reads; a call that has an effect.  What the request does next
\* depends on whether it is answered.
Read(n, answered, failed) ==
    \/ Answers(n) /\ answered
    \/ Refuses(n) /\ failed
Write(n, effect, noEffect, answered, failed) ==
    \/ Answers(n) /\ effect /\ answered
    \/ Lost(n) /\ effect /\ failed
    \/ Refuses(n) /\ noEffect /\ failed

-----------------------------------------------------------------------------
(* Requests *)

Pending == {r \in Reqs : req[r] # Idle}
Blank == [op |-> "", pc |-> "", group |-> 0, port |-> NoPort, todo |-> {}, ids |-> {},
          map |-> [g \in Gids |-> 0], acl |-> {}, list |-> {}, trouble |-> FALSE, alone |-> TRUE]

Gid(q) == groups[q.group].id
KeySet(q) == groups[q.group].ks
PortsOf(q) == q.todo \cup (IF q.port = NoPort THEN {} ELSE {q.port})
NodesOf(q) == {Node(p) : p \in PortsOf(q)}

\* What a member is granted
Grantee(q) == <<Gid(q), q.port>>
\* An endpoint is in a group, or bound to it, or both.
Kind(q) == IF q.op \in {"bind", "unbind"} THEN "source" ELSE "member"
About(q, ports) == {<<Kind(q), Gid(q), p>> : p \in ports}
Concerns(q) == About(q, PortsOf(q))

\* Requests meet on a device, or in a group that is being deleted.
Meets(q, x) ==
    \/ NodesOf(q) \cap NodesOf(x) # {}
    \/ q.group = x.group /\ "delete" \in {q.op, x.op}

Arrive(r, q) ==
    LET others == {x \in Pending : Meets(q, req[x])}
    IN  /\ req[r] = Idle
        /\ requests < MaxRequests
        /\ others # {} => "overlap" \in Faults
        /\ requests' = requests + 1
        /\ req' = [x \in Reqs |->
                IF x = r THEN [q EXCEPT !.alone = others = {}]
                ELSE IF x \in others THEN [req[x] EXCEPT !.alone = FALSE] ELSE req[x]]
        /\ unsettled' = IF others = {} THEN unsettled
                        ELSE unsettled \cup Concerns(q) \cup UNION {Concerns(req[x]) : x \in others}
        /\ UNCHANGED <<paired, online, deviceVars, faults>>

Goto(r, q, pc) ==
    /\ req' = [req EXCEPT ![r] = [q EXCEPT !.pc = pc]]
    /\ UNCHANGED unsettled

\* A problem of a request that goes on with the next thing it has to do
Skip(r, q, pc) == Goto(r, [q EXCEPT !.trouble = TRUE], pc)

\* The answer; a problem is told in it.  Ports in "concerns" were dealt with.
Finish(r, q, trouble, concerns) ==
    /\ req' = [req EXCEPT ![r] = Idle]
    /\ unsettled' = IF q.alone /\ ~trouble THEN unsettled \ concerns ELSE unsettled \cup concerns

\* The end of an add or a group binding by an error
Fail(r, q) ==
    /\ Finish(r, q, TRUE, Concerns(q))
    /\ IF q.op = "add"
       THEN SetStatus(q.group, q.port, "error") /\ UNCHANGED sets /\ Save
       ELSE UNCHANGED storeVars

-----------------------------------------------------------------------------
(* Groups in the store *)

\* A set of its own has the lowest free id; the shared set is the one with
\* its id, whoever made that.
Create(own) ==
    /\ requests < MaxRequests
    /\ \E o \in Objects : groups[o] = NotMade
    /\ \E g \in Gids : g \notin {groups[o].id : o \in Live}
    /\ own => OwnKeys /\ FreeSets # {}
    /\ LET o == Lowest({x \in Objects : groups[x] = NotMade})
           ks == IF own THEN Lowest(FreeSets) ELSE SharedSet
       IN  /\ sets' = [sets EXCEPT ![ks] = IF @ = NoSet THEN [key |-> o, shared |-> ~own] ELSE @]
           /\ groups' = [groups EXCEPT ![o] = NewGroup(FreeGid, ks)]
    /\ Save
    /\ requests' = requests + 1
    /\ UNCHANGED <<paired, online, deviceVars, req, unsettled, faults>>

Delete(r, o) ==
    /\ o \in Live
    /\ Arrive(r, [Blank EXCEPT !.op = "delete", !.pc = "next", !.group = o, !.todo = Listed(o)])
    /\ UNCHANGED storeVars

\* The loop over the members: one that cannot be reached keeps the group.
NextMember(r, q) ==
    /\ q.pc = "next" /\ q.todo # {}
    /\ \E p \in q.todo :
         LET rest == [q EXCEPT !.todo = @ \ {p}]
         IN  IF Up(Node(p))
             THEN /\ SetStatus(q.group, p, NoMember)
                  /\ Goto(r, [rest EXCEPT !.port = p], "leave")
             ELSE /\ req' = [req EXCEPT ![r] = rest]
                  /\ unsettled' = unsettled \cup About(q, {p})
                  /\ UNCHANGED groups
    /\ UNCHANGED <<deviceVars, sets, saved, faults>>

\* What the members left behind was told member by member.
Deleted(r, q) ==
    LET others == {groups[o].ks : o \in Live \ {q.group}}
    IN  /\ q.pc = "next" /\ q.todo = {}
        /\ groups' = [groups EXCEPT ![q.group].live = FALSE]
        /\ sets' = IF ~sets[KeySet(q)].shared /\ KeySet(q) \notin others
                   THEN [sets EXCEPT ![KeySet(q)] = NoSet] ELSE sets
        /\ Save
        /\ Finish(r, q, FALSE, {})
        /\ UNCHANGED <<deviceVars, faults>>

-----------------------------------------------------------------------------
(* _ensureKeySetOnDevice: key set and map entry, for a member or a source *)

ReadKeys(r, q) ==
    LET n == Node(q.port) IN
    /\ q.pc = "keys"
    /\ Read(n,
            Goto(r, [q EXCEPT !.ids = {k \in Gids : keys[n][k] # 0}], "map")
            /\ UNCHANGED storeVars,
            Fail(r, q))
    /\ UNCHANGED deviceVars

\* The map with the group's entry
Mapped(q) == [q.map EXCEPT ![Gid(q)] = KeySet(q)]
GroupsOn(n) == UNION {table[p] : p \in {x \in Members : Node(x) = n}}

\* assertWithinLimits
WithinLimits(q, map) ==
    /\ KeySet(q) \in q.ids \/ Cardinality(q.ids) < MaxKeys
    /\ map[Gid(q)] # 0 \/ Cardinality(GroupsOn(Node(q.port))) < MaxGroups

AfterKey(q) == IF Mapped(q) # q.map THEN "mapWrite" ELSE IF q.op = "add" THEN "join" ELSE "list"

\* Map and group table are read.  A key set is looked for by its id.
ReadMap(r, q) ==
    LET n == Node(q.port)
        read == [q EXCEPT !.map = keyMap[n]]
    IN  /\ q.pc = "map"
        /\ Read(n,
                IF WithinLimits(q, keyMap[n])
                THEN /\ Goto(r, read, IF KeySet(q) \in q.ids THEN AfterKey(read) ELSE "keyWrite")
                     /\ UNCHANGED storeVars
                ELSE Fail(r, q),
                Fail(r, q))
        /\ UNCHANGED deviceVars

SetKey(q, key) == keys' = [keys EXCEPT ![Node(q.port)][KeySet(q)] = key]
SetMap(q, map) == keyMap' = [keyMap EXCEPT ![Node(q.port)] = map]
SetAcl(q, list) == acl' = [acl EXCEPT ![Node(q.port)] = list]

WriteKey(r, q) ==
    /\ q.pc = "keyWrite"
    /\ Write(Node(q.port), SetKey(q, sets[KeySet(q)].key), UNCHANGED keys,
             Goto(r, q, AfterKey(q)) /\ UNCHANGED storeVars, Fail(r, q))
    /\ UNCHANGED <<keyMap, table, acl, bound>>

WriteMap(r, q) ==
    /\ q.pc = "mapWrite"
    /\ Write(Node(q.port), SetMap(q, Mapped(q)), UNCHANGED keyMap,
             Goto(r, q, "mapBack") /\ UNCHANGED storeVars, Fail(r, q))
    /\ UNCHANGED <<keys, table, acl, bound>>

CheckMap(r, q) ==
    LET n == Node(q.port) IN
    /\ q.pc = "mapBack"
    /\ Read(n,
            IF keyMap[n][Gid(q)] = KeySet(q)
            THEN Goto(r, q, IF q.op = "add" THEN "join" ELSE "list") /\ UNCHANGED storeVars
            ELSE Fail(r, q),
            Fail(r, q))
    /\ UNCHANGED deviceVars

-----------------------------------------------------------------------------
(* addGroupMember and _provisionMember *)

\* The member is listed and saved before anything is asked of the device.
Add(r, o, p) ==
    /\ o \in Live
    /\ Node(p) \in paired
    /\ Arrive(r, [Blank EXCEPT !.op = "add", !.pc = "keys", !.group = o, !.port = p])
    /\ SetStatus(o, p, "pending")
    /\ UNCHANGED sets
    /\ Save

Join(r, q) ==
    /\ q.pc = "join"
    /\ LET joined == [table EXCEPT ![q.port] = @ \cup {Gid(q)}] IN
       \/ Answers(Node(q.port)) /\ table' = joined /\ Goto(r, q, "acl") /\ UNCHANGED storeVars
       \/ Lost(Node(q.port)) /\ table' = joined /\ Fail(r, q)
       \/ Refuses(Node(q.port)) /\ UNCHANGED table /\ Fail(r, q)
    /\ UNCHANGED <<keys, keyMap, acl, bound>>

Joined(r, q) ==
    /\ SetStatus(q.group, q.port, "ok") /\ UNCHANGED sets /\ Save
    /\ Finish(r, q, FALSE, Concerns(q))

ReadAcl(r, q) ==
    LET list == acl[Node(q.port)] IN
    /\ q.op = "add" /\ q.pc = "acl"
    /\ Read(Node(q.port),
            IF Grantee(q) \in list
            THEN Joined(r, q)
            ELSE Goto(r, [q EXCEPT !.acl = list], "grant") /\ UNCHANGED storeVars,
            Fail(r, q))
    /\ UNCHANGED deviceVars

Grant(r, q) ==
    /\ q.pc = "grant"
    /\ Write(Node(q.port), SetAcl(q, q.acl \cup {Grantee(q)}), UNCHANGED acl,
             Goto(r, q, "granted") /\ UNCHANGED storeVars, Fail(r, q))
    /\ UNCHANGED <<keys, keyMap, table, bound>>

CheckGrant(r, q) ==
    /\ q.pc = "granted"
    /\ Read(Node(q.port),
            IF Grantee(q) \in acl[Node(q.port)] THEN Joined(r, q) ELSE Fail(r, q),
            Fail(r, q))
    /\ UNCHANGED deviceVars

-----------------------------------------------------------------------------
(* removeGroupMember and _deprovisionMember: each step best effort *)

Remove(r, o, p) ==
    /\ o \in Live /\ p \in Listed(o)
    /\ Arrive(r, [Blank EXCEPT !.op = "remove", !.pc = "leave", !.group = o, !.port = p])
    /\ SetStatus(o, p, NoMember)
    /\ UNCHANGED sets
    /\ Save

\* A removal is at its end, a deletion at its next member; the answer to an
\* endpoint's removal is about that endpoint.
EndRemoval(r, q, trouble) ==
    IF q.op = "delete"
    THEN /\ req' = [req EXCEPT ![r] = [q EXCEPT !.pc = "next", !.trouble = FALSE, !.port = NoPort]]
         /\ unsettled' = IF q.alone /\ ~trouble THEN unsettled \ About(q, {q.port})
                         ELSE unsettled \cup About(q, {q.port})
    ELSE Finish(r, q, trouble, Concerns(q))

\* A device that is not there when the removal begins is not asked at all.
RemoveUnreachable(r, q) ==
    /\ q.op = "remove" /\ q.pc = "leave" /\ ~Up(Node(q.port))
    /\ EndRemoval(r, q, TRUE)
    /\ UNCHANGED <<deviceVars, storeVars, faults>>

\* A mutant: a device that does not let the endpoint leave is no problem.
MutLeave(r, q) ==
    /\ q.pc = "leave"
    /\ \/ Answers(Node(q.port)) /\ table' = [table EXCEPT ![q.port] = @ \ {Gid(q)}]
       \/ Refuses(Node(q.port)) /\ UNCHANGED table
    /\ Goto(r, q, "acl")
    /\ UNCHANGED <<keys, keyMap, acl, bound, storeVars>>

Leave(r, q) ==
    LET left == [table EXCEPT ![q.port] = @ \ {Gid(q)}] IN
    /\ q.pc = "leave"
    /\ Write(Node(q.port), table' = left, UNCHANGED table,
             Goto(r, q, "acl"), Skip(r, q, "acl"))
    /\ UNCHANGED <<keys, keyMap, acl, bound, storeVars>>

\* The map entry stays while another endpoint of the node is in the group.
StillMember(q) == \E p \in Listed(q.group) : Node(p) = Node(q.port) /\ p # q.port

AfterRevoke(r, q) ==
    IF StillMember(q) THEN EndRemoval(r, q, q.trouble) ELSE Goto(r, q, "unmapRead")

ReadAclForRevoke(r, q) ==
    LET list == acl[Node(q.port)] IN
    /\ q.op \in {"remove", "delete"} /\ q.pc = "acl"
    /\ Read(Node(q.port),
            IF Grantee(q) \in list
            THEN Goto(r, [q EXCEPT !.acl = list], "revoke")
            ELSE AfterRevoke(r, q),
            AfterRevoke(r, [q EXCEPT !.trouble = TRUE]))
    /\ UNCHANGED <<deviceVars, storeVars>>

Revoke(r, q) ==
    LET revoked == q.acl \ {Grantee(q)} IN
    /\ q.pc = "revoke"
    /\ Write(Node(q.port), SetAcl(q, revoked), UNCHANGED acl,
             AfterRevoke(r, q), AfterRevoke(r, [q EXCEPT !.trouble = TRUE]))
    /\ UNCHANGED <<keys, keyMap, table, bound, storeVars>>

-----------------------------------------------------------------------------
(* _dropKeySetOnDevice *)

Unmapped(q) == [q.map EXCEPT ![Gid(q)] = 0]
\* A mutant: the other groups of the device are forgotten.
MutKeySetInUse(q) == FALSE
KeySetInUse(q) == \E g \in Gids : Unmapped(q)[g] = KeySet(q)
AfterUnmap(r, q) == IF KeySetInUse(q) THEN EndRemoval(r, q, q.trouble) ELSE Goto(r, q, "keyRemove")

ReadMapForDrop(r, q) ==
    LET read == [q EXCEPT !.map = keyMap[Node(q.port)]] IN
    /\ q.pc = "unmapRead"
    /\ Read(Node(q.port),
            IF read.map[Gid(q)] # 0 THEN Goto(r, read, "unmap") ELSE AfterUnmap(r, read),
            EndRemoval(r, q, TRUE))
    /\ UNCHANGED <<deviceVars, storeVars>>

Unmap(r, q) ==
    /\ q.pc = "unmap"
    /\ Write(Node(q.port), SetMap(q, Unmapped(q)), UNCHANGED keyMap,
             AfterUnmap(r, q), EndRemoval(r, q, TRUE))
    /\ UNCHANGED <<keys, table, acl, bound, storeVars>>

\* A key set that cannot be removed stays, and nobody is told.
RemoveKey(r, q) ==
    /\ q.pc = "keyRemove"
    /\ \/ (Answers(Node(q.port)) \/ Lost(Node(q.port))) /\ SetKey(q, 0)
       \/ Refuses(Node(q.port)) /\ UNCHANGED keys
    /\ EndRemoval(r, q, q.trouble)
    /\ UNCHANGED <<keyMap, table, acl, bound, storeVars>>

-----------------------------------------------------------------------------
(* Group bindings *)

\* A mutant: a source needs no key set.
MutBindGroup(r, o, s) ==
    /\ o \in Live /\ Up(Node(s))
    /\ Arrive(r, [Blank EXCEPT !.op = "bind", !.pc = "list", !.group = o, !.port = s])
    /\ UNCHANGED storeVars

BindGroup(r, o, s) ==
    /\ o \in Live /\ Up(Node(s))
    /\ Arrive(r, [Blank EXCEPT !.op = "bind", !.pc = "keys", !.group = o, !.port = s])
    /\ UNCHANGED storeVars

\* By the group's number: the group itself may be gone.
UnbindGroup(r, o, s) ==
    /\ o \in Live \/ (groups[o].id # 0 /\ groups[o].id \notin {groups[x].id : x \in Live})
    /\ Up(Node(s))
    /\ Arrive(r, [Blank EXCEPT !.op = "unbind", !.pc = "list", !.group = o, !.port = s])
    /\ UNCHANGED storeVars

SetBound(q, list) == bound' = [bound EXCEPT ![q.port] = list]

ReadList(r, q) ==
    LET list == bound[q.port] IN
    /\ q.op = "bind" /\ q.pc = "list"
    /\ Read(Node(q.port),
            IF Gid(q) \in list
            THEN Finish(r, q, FALSE, Concerns(q))
            ELSE Goto(r, [q EXCEPT !.list = list \cup {Gid(q)}], "enter"),
            Finish(r, q, TRUE, Concerns(q)))
    /\ UNCHANGED <<deviceVars, storeVars>>

Enter(r, q) ==
    /\ q.pc = "enter"
    /\ Write(Node(q.port), SetBound(q, q.list), UNCHANGED bound,
             Goto(r, q, "entered"), Finish(r, q, TRUE, Concerns(q)))
    /\ UNCHANGED <<keys, keyMap, table, acl, storeVars>>

CheckEntry(r, q) ==
    /\ q.pc = "entered"
    /\ Read(Node(q.port),
            Finish(r, q, Gid(q) \notin bound[q.port], Concerns(q)),
            Finish(r, q, TRUE, Concerns(q)))
    /\ UNCHANGED <<deviceVars, storeVars>>

\* With the entry gone, the key set goes too unless the group needs it here.
AfterUnbind(r, q) ==
    LET held == {o \in Live : groups[o].id = Gid(q)}
        isMember == \E o \in held, p \in Members : p \in Listed(o) /\ Node(p) = Node(q.port)
    IN  IF Gid(q) \in q.list \/ isMember \/ held = {}
        THEN Finish(r, q, FALSE, Concerns(q))
        ELSE Goto(r, q, "unmapRead")

ReadListForUnbind(r, q) ==
    LET read == [q EXCEPT !.list = bound[q.port] \ {Gid(q)}] IN
    /\ q.op = "unbind" /\ q.pc = "list"
    /\ Read(Node(q.port),
            IF Gid(q) \in bound[q.port] THEN Goto(r, read, "drop") ELSE AfterUnbind(r, read),
            Finish(r, q, TRUE, Concerns(q)))
    /\ UNCHANGED <<deviceVars, storeVars>>

DropEntry(r, q) ==
    /\ q.pc = "drop"
    /\ Write(Node(q.port), SetBound(q, q.list), UNCHANGED bound,
             AfterUnbind(r, q), Finish(r, q, TRUE, Concerns(q)))
    /\ UNCHANGED <<keys, keyMap, table, acl, storeVars>>

-----------------------------------------------------------------------------
(* Devices and the daemon *)

GoOffline(n) ==
    /\ Up(n) /\ FaultLeft("offline") /\ Fault
    /\ online' = online \ {n}
    /\ UNCHANGED <<paired, deviceVars, storeVars, req, unsettled, requests>>

ComeOnline(n) ==
    /\ n \in paired \ online
    /\ online' = online \cup {n}
    /\ UNCHANGED <<paired, deviceVars, storeVars, req, unsettled, requests, faults>>

\* The groups keep a device that is removed among their members.
Unpair(n) ==
    /\ n \in paired /\ FaultLeft("unpair") /\ Fault
    /\ paired' = paired \ {n}
    /\ UNCHANGED <<online, deviceVars, storeVars, req, unsettled, requests>>

\* The store is read back when the daemon starts again.
Crash ==
    /\ Pending # {} /\ FaultLeft("crash") /\ Fault
    /\ req' = [r \in Reqs |-> Idle]
    /\ groups' = saved.groups
    /\ sets' = saved.sets
    /\ unsettled' = unsettled \cup (UNION {Concerns(req[r]) : r \in Pending})
                              \cup (UNION {About(req[r], Members) : r \in {x \in Pending : req[x].op = "delete"}})
    /\ UNCHANGED <<paired, online, deviceVars, saved, requests>>

-----------------------------------------------------------------------------

\* The groups there are share one key set and have their members.
InitGroups(joined) ==
    [o \in Objects |->
        IF o > Made THEN NotMade
        ELSE [NewGroup(o, SharedSet) EXCEPT
                !.members = [p \in Members |-> IF <<o, p>> \in joined THEN "ok" ELSE NoMember]]]

Init ==
    /\ paired = Nodes
    /\ online = Nodes
    /\ sets = [k \in Gids |-> IF k = SharedSet /\ Made > 0 THEN [key |-> 1, shared |-> TRUE] ELSE NoSet]
    /\ \E joined \in Start :
         LET here(n) == {x[1] : x \in {y \in joined : Node(y[2]) = n}}
         IN  /\ groups = InitGroups(joined)
             /\ keys = [n \in Nodes |-> [k \in Gids |-> IF k = SharedSet /\ here(n) # {} THEN 1 ELSE 0]]
             /\ keyMap = [n \in Nodes |-> [g \in Gids |-> IF g \in here(n) THEN SharedSet ELSE 0]]
             /\ table = [p \in Members |-> {o \in 1 .. Made : <<o, p>> \in joined}]
             /\ acl = [n \in Nodes |-> {x \in joined : Node(x[2]) = n}]
    /\ bound = [s \in Sources |-> {}]
    /\ saved = [groups |-> groups, sets |-> sets]
    /\ req = [r \in Reqs |-> Idle]
    /\ unsettled = {}
    /\ requests = 0
    /\ faults = 0

EnsureStep(r, q) == ReadKeys(r, q) \/ ReadMap(r, q) \/ WriteKey(r, q) \/ WriteMap(r, q) \/ CheckMap(r, q)
AddStep(r, q) == Join(r, q) \/ ReadAcl(r, q) \/ Grant(r, q) \/ CheckGrant(r, q)
RemoveStep(r, q) ==
    \/ NextMember(r, q) \/ Deleted(r, q) \/ RemoveUnreachable(r, q)
    \/ Leave(r, q) \/ ReadAclForRevoke(r, q) \/ Revoke(r, q)
DropStep(r, q) == ReadMapForDrop(r, q) \/ Unmap(r, q) \/ RemoveKey(r, q)
BindStep(r, q) ==
    \/ ReadList(r, q) \/ Enter(r, q) \/ CheckEntry(r, q)
    \/ ReadListForUnbind(r, q) \/ DropEntry(r, q)

RequestStep(r) ==
    /\ r \in Pending
    /\ \/ EnsureStep(r, req[r]) \/ AddStep(r, req[r]) \/ RemoveStep(r, req[r])
       \/ DropStep(r, req[r]) \/ BindStep(r, req[r])
    /\ UNCHANGED <<paired, online, requests>>

Next ==
    \/ \E own \in BOOLEAN : Create(own)
    \/ \E r \in Reqs, o \in Objects :
         \/ Delete(r, o)
         \/ \E p \in Members : Add(r, o, p) \/ Remove(r, o, p)
         \/ \E s \in Sources : BindGroup(r, o, s) \/ UnbindGroup(r, o, s)
    \/ \E r \in Reqs : RequestStep(r)
    \/ \E n \in Nodes : GoOffline(n) \/ ComeOnline(n) \/ Unpair(n)
    \/ Crash

Spec == Init /\ [][Next]_vars

-----------------------------------------------------------------------------
(* Properties *)

Settled(kind, g, p) == <<kind, g, p>> \notin unsettled /\ Node(p) \in paired
UnderWay(g, p) == \E r \in Pending : <<"member", g, p>> \in Concerns(req[r])

HasKey(o, n) ==
    /\ keyMap[n][groups[o].id] = groups[o].ks
    /\ keys[n][groups[o].ks] = sets[groups[o].ks].key

\* The variables have their types; group ids and key sets of live groups are
\* distinct and present.
TypeOK ==
    /\ paired \subseteq Nodes /\ online \subseteq Nodes
    /\ keys \in [Nodes -> [Gids -> Keys]] /\ keyMap \in [Nodes -> Maps]
    /\ table \in [Members -> SUBSET Gids] /\ bound \in [Sources -> SUBSET Gids]
    /\ acl \in [Nodes -> SUBSET (Gids \X Members)]
    /\ groups \in [Objects -> Group] /\ sets \in [Gids -> Set]
    /\ saved \in [groups : [Objects -> Group], sets : [Gids -> Set]]
    /\ req \in [Reqs -> Request \cup {Idle}]
    /\ unsettled \subseteq {"member", "source"} \X Gids \X Ports
    /\ \A o \in Live : groups[o].id # 0 /\ groups[o].ks # 0 /\ sets[groups[o].ks].key # 0
    /\ \A o, x \in Live : groups[o].id = groups[x].id => o = x

\* A member shown as "ok" has the group's map entry, its very key, the group in
\* its table and the grant: no removal of another endpoint, another group, a
\* binding or a whole group takes what it shares with this one.
MemberUsable ==
    \A o \in Live, p \in Members :
        /\ groups[o].members[p] = "ok"
        /\ Settled("member", groups[o].id, p)
        => /\ HasKey(o, Node(p))
           /\ groups[o].id \in table[p]
           /\ <<groups[o].id, p>> \in acl[Node(p)]

\* An endpoint that is in no group's list is in no group on its device either,
\* unless the answer to the last request on it said so.
NothingLeft ==
    \A g \in Gids, p \in Members :
        /\ Settled("member", g, p) /\ ~UnderWay(g, p)
        /\ \A o \in Live : groups[o].id = g => p \notin Listed(o)
        => g \notin table[p] /\ <<g, p>> \notin acl[Node(p)]

\* A source bound to a group can send to it: it has the group's key.
BoundUsable ==
    \A o \in Live, s \in Sources :
        /\ groups[o].id \in bound[s]
        /\ Settled("source", groups[o].id, s)
        => HasKey(o, Node(s))
=============================================================================
