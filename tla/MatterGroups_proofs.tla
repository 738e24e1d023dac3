------------------------- MODULE MatterGroups_proofs -------------------------
(***************************************************************************)
(* Proofs about MatterGroups, for any endpoints, groups, limits, requests  *)
(* and faults, requests that meet on a device included: the state is well  *)
(* typed; an endpoint that left all groups has left them on its device;    *)
(* and, where all groups share one key set, members and sources keep what  *)
(* they need of their device, whatever other requests take from it.        *)
(***************************************************************************)
EXTENDS MatterGroups, WellFoundedInduction, TLAPS

\* The form of a request, by its place in the code.
Providing == {"keys", "map", "keyWrite", "mapWrite", "mapBack"}
Dropping == {"unmapRead", "unmap", "keyRemove"}
Form(q) ==
  /\ q.op = "add" => q.pc \in Providing \cup {"join", "acl", "grant", "granted"}
  /\ q.op = "bind" => q.pc \in Providing \cup {"list", "enter", "entered"}
  /\ q.op = "remove" => q.pc \in Dropping \cup {"leave", "acl", "revoke"}
  /\ q.op = "delete" => q.pc \in Dropping \cup {"next", "leave", "acl", "revoke"}
  /\ q.op = "unbind" => q.pc \in Dropping \cup {"list", "drop"}
  /\ q.pc = "next" <=> q.port = NoPort
  /\ q.op # "delete" => q.todo = {}
  /\ q.op \in {"bind", "unbind"} => q.port \in Sources
  /\ q.op \in {"add", "remove", "delete"} => q.port \in Members \cup {NoPort}

OfMember(q) == q.op \in {"add", "remove", "delete"}

\* Its group has been made; what is unbound is not written back.
Whole(q) ==
  /\ Form(q) /\ Gid(q) # 0
  /\ q.op = "unbind" => Gid(q) \notin q.list

\* What the store has is what would be read back, the members' status aside.
SavedAs ==
  /\ saved.sets = sets
  /\ \A o \in Objects : /\ saved.groups[o].id = groups[o].id /\ saved.groups[o].ks = groups[o].ks
                        /\ saved.groups[o].live = groups[o].live

TInv ==
  /\ TypeOK /\ SavedAs
  /\ \A k \in Gids : sets[k] = NoSet \/ sets[k].key # 0
  /\ \A r \in Pending : Whole(req[r])

-----------------------------------------------------------------------------
(* What a step of a request may do *)

\* All groups share one key set, whose key a device has or has not.
OneKey ==
  /\ \A n \in Nodes : keys[n][SharedSet] \in {0, sets[SharedSet].key}
  /\ \A o \in Objects : groups[o].id # 0 => groups[o].ks = SharedSet /\ sets[SharedSet].key # 0
  /\ sets[SharedSet].key # 0 => sets[SharedSet].shared

KeyThere(g, n) == keyMap[n][g] = SharedSet /\ keys[n][SharedSet] = sets[SharedSet].key

\* What a request that is alone on its devices has achieved so far: in the
\* lists of the device,
OwnLists(q) ==
  /\ q.op \in {"remove", "delete"} /\ q.pc \in Dropping \cup {"acl", "revoke"} /\ ~q.trouble
       => Gid(q) \notin table[q.port]
  /\ q.op \in {"remove", "delete"} /\ q.pc \in Dropping /\ ~q.trouble
       => Grantee(q) \notin acl[Node(q.port)]
  /\ q.op = "unbind" /\ q.pc \in Dropping => Gid(q) \notin bound[q.port]
  /\ q.op = "add" /\ q.pc \in {"acl", "grant", "granted"} => Gid(q) \in table[q.port]

\* and in key set and map.
OwnKey(q) ==
  /\ q.pc = "map" => (SharedSet \in q.ids <=> keys[Node(q.port)][SharedSet] # 0)
  /\ q.pc = "keyWrite" => q.map = keyMap[Node(q.port)]
  /\ q.pc \in {"mapWrite", "mapBack"} => keys[Node(q.port)][SharedSet] = sets[SharedSet].key
  /\ q.op = "add" /\ q.pc \notin Providing => KeyThere(Gid(q), Node(q.port))
  /\ q.op = "bind" /\ q.pc \notin Providing => KeyThere(Gid(q), Node(q.port))

\* What an answer without a problem means.
Achieved(q) ==
  /\ q.op = "add" => /\ groups[q.group].members[q.port] = "ok"
                     /\ Gid(q) \in table[q.port] /\ Grantee(q) \in acl[Node(q.port)]
  /\ q.op \in {"remove", "delete"} => Gid(q) \notin table[q.port] /\ Grantee(q) \notin acl[Node(q.port)]
  /\ q.op = "unbind" => Gid(q) \notin bound[q.port]

\* It changes one list of its device, at its own entry; the rest of the list is
\* what it has read.
DevEffect(q) ==
  \/ UNCHANGED deviceVars
  \/ /\ q.pc \in {"keyWrite", "keyRemove"}
     /\ SetKey(q, IF q.pc = "keyWrite" THEN sets[KeySet(q)].key ELSE 0)
     /\ UNCHANGED <<keyMap, table, acl, bound>>
  \/ /\ q.pc \in {"mapWrite", "unmap"}
     /\ SetMap(q, IF q.pc = "mapWrite" THEN Mapped(q) ELSE Unmapped(q))
     /\ UNCHANGED <<keys, table, acl, bound>>
  \/ /\ q.pc \in {"join", "leave"}
     /\ table' = [table EXCEPT ![q.port] = IF q.pc = "join" THEN @ \cup {Gid(q)} ELSE @ \ {Gid(q)}]
     /\ UNCHANGED <<keys, keyMap, acl, bound>>
  \/ /\ q.pc \in {"grant", "revoke"}
     /\ SetAcl(q, IF q.pc = "grant" THEN q.acl \cup {Grantee(q)} ELSE q.acl \ {Grantee(q)})
     /\ UNCHANGED <<keys, keyMap, table, bound>>
  \/ /\ q.pc \in {"enter", "drop"}
     /\ SetBound(q, q.list)
     /\ UNCHANGED <<keys, keyMap, table, acl>>

StoreEffect(q) ==
  \/ UNCHANGED storeVars
  \/ /\ q.op = "add" /\ UNCHANGED sets /\ Save
     /\ \E s \in {"ok", "error"} : SetStatus(q.group, q.port, s)

Alike(q, p) ==
  /\ p.op = q.op /\ p.group = q.group /\ p.alone = q.alone
  /\ p.port = q.port /\ p.todo = q.todo

UsesMap(q) == q.pc \in {"keyWrite", "mapWrite", "unmap", "keyRemove"}

\* The request goes on as p.
Carries(q, p) ==
  /\ p.pc \in {"grant", "revoke"} => acl' = acl /\ p.acl = acl[Node(q.port)]
  /\ p.pc \in {"enter", "drop"} =>
       bound' = bound /\ \A g \in Gids \ {Gid(q)} : g \in p.list <=> g \in bound[q.port]
  /\ q.op = "unbind" => Gid(q) \notin p.list
  /\ q.pc = "enter" => p.pc = "entered"
  /\ UsesMap(p) => \/ keyMap' = keyMap /\ p.map = keyMap[Node(q.port)]
                   \/ UsesMap(q) /\ p.map = q.map
  /\ p.pc = "unmapRead" =>
       /\ OfMember(q) => ~StillMember(q)
       /\ q.op = "unbind" =>
            /\ Gid(q) \notin bound'[q.port]
            /\ \A o \in Live : groups[o].id = Gid(q) => \A m \in Listed(o) : Node(m) # Node(q.port)
  /\ p.pc \in {"unmap", "keyRemove"} => q.pc \in {"unmapRead", "unmap"}
  /\ p.pc = "keyRemove" => \A g \in Gids \ {Gid(q)} : p.map[g] # KeySet(q)
  /\ OwnLists(q) => OwnLists(p)'
  /\ OneKey /\ OwnKey(q) => OwnKey(p)'

GoesOn(r, q, p) ==
  /\ req' = [req EXCEPT ![r] = p]
  /\ UNCHANGED <<unsettled, storeVars>>
  /\ p \in Request /\ Alike(q, p) /\ Form(p) /\ Carries(q, p)

\* It is through with its port: it has ended, or is a deletion at its next member.
Ends(r, q) ==
  /\ \E p \in Request \cup {Idle} :
       /\ req' = [req EXCEPT ![r] = p]
       /\ q.op # "delete" => p = Idle
       /\ q.op = "delete" => /\ p \in Request /\ p.op = "delete" /\ p.group = q.group /\ p.alone = q.alone
                             /\ p.todo = q.todo /\ p.port = NoPort /\ p.pc = "next"
  /\ \/ unsettled' = unsettled \cup About(q, {q.port})
     \/ /\ q.alone /\ unsettled' = unsettled \ About(q, {q.port})
        /\ OwnLists(q) => Achieved(q)'
        /\ OneKey /\ OwnKey(q) /\ q.op \in {"add", "bind"} => KeyThere(Gid(q), Node(q.port))'

Act(r, q) ==
  /\ q.pc # "next" /\ DevEffect(q) /\ StoreEffect(q)
  /\ Ends(r, q) \/ \E p \in Request : GoesOn(r, q, p)


-----------------------------------------------------------------------------
(* How a step ends *)

LEMMA PortType ==
  ASSUME TypeOK, NEW q \in Request, Whole(q), q.pc # "next"
  PROVE  /\ q.port \in Ports /\ q.port # NoPort /\ Node(q.port) \in Nodes
         /\ q.op # "delete" => Concerns(q) = About(q, {q.port})
         /\ OfMember(q) => q.port \in Members
         /\ q.group \in Objects /\ Gid(q) \in Gids /\ KeySet(q) \in Gids \cup {0}
         /\ q.op \in {"add", "remove", "delete", "bind", "unbind"}
<1>1. q.op \in {"add", "remove", "delete", "bind", "unbind"} /\ q.port \in Ports \cup {NoPort} /\ q.group \in Objects
  BY DEF Request
<1>2. q.port # NoPort
  BY DEF Whole, Form
<1>3. q.port \in Ports /\ Node(q.port) \in Nodes
  BY <1>1, <1>2 DEF Nodes
<1>4. q.op # "delete" => Concerns(q) = About(q, {q.port})
  BY <1>2 DEF Whole, Form, Concerns, PortsOf
<1>5. OfMember(q) => q.port \in Members
  BY <1>1, <1>2 DEF OfMember, Whole, Form
<1>6. groups[q.group] \in Group
  BY <1>1 DEF TypeOK
<1>7. Gid(q) \in Gids /\ KeySet(q) \in Gids \cup {0}
  BY <1>6 DEF Group, Gid, KeySet, Whole
<1> QED
  BY <1>1, <1>2, <1>3, <1>4, <1>5, <1>7

\* What is told in an answer without a problem.
Told(q) ==
  /\ OwnLists(q) => Achieved(q)'
  /\ OneKey /\ OwnKey(q) /\ q.op \in {"add", "bind"} => KeyThere(Gid(q), Node(q.port))'

LEMMA Finishes ==
  ASSUME NEW r, NEW q \in Request, q.op # "delete", Concerns(q) = About(q, {q.port}),
         NEW trouble \in BOOLEAN, Finish(r, q, trouble, Concerns(q)), trouble \/ Told(q)
  PROVE  Ends(r, q)
BY DEF Finish, Ends, Told

LEMMA Fails ==
  ASSUME NEW r, NEW q \in Request, q.op \in {"add", "bind"}, Concerns(q) = About(q, {q.port}), Fail(r, q)
  PROVE  Ends(r, q) /\ StoreEffect(q)
<1>1. Ends(r, q)
  BY Finishes DEF Fail
<1>2. StoreEffect(q)
  BY DEF Fail, StoreEffect
<1> QED
  BY <1>1, <1>2

LEMMA EndsRemoval ==
  ASSUME NEW r, NEW q \in Request, q.op \in {"remove", "delete", "unbind"}, Concerns(q) = About(q, {q.port}) \/ q.op = "delete",
         NEW p \in Request, Alike(q, p), NEW trouble \in BOOLEAN, EndRemoval(r, p, trouble), trouble \/ Told(q)
  PROVE  Ends(r, q)
<1>1. About(p, {p.port}) = About(q, {q.port}) /\ Concerns(p) = Concerns(q) /\ p.alone = q.alone
  BY DEF Alike, About, Concerns, Kind, Gid, PortsOf
<1>2. CASE q.op # "delete"
  <2>1. Finish(r, p, trouble, Concerns(p)) /\ p.op # "delete"
    BY <1>2 DEF EndRemoval, Alike
  <2>2. req' = [req EXCEPT ![r] = Idle]
    BY <2>1 DEF Finish
  <2>3. unsettled' = IF q.alone /\ ~trouble THEN unsettled \ About(q, {q.port}) ELSE unsettled \cup About(q, {q.port})
    BY <1>1, <1>2, <2>1 DEF Finish
  <2> QED
    BY <1>2, <2>2, <2>3 DEF Ends, Told
<1>3. CASE q.op = "delete"
  <2> DEFINE w == [p EXCEPT !.pc = "next", !.trouble = FALSE, !.port = NoPort]
  <2>1. w \in Request /\ w.op = "delete" /\ w.group = q.group /\ w.alone = q.alone /\ w.todo = q.todo
        /\ w.port = NoPort /\ w.pc = "next"
    BY <1>3 DEF Alike, Request
  <2>2. req' = [req EXCEPT ![r] = w]
    BY <1>3 DEF EndRemoval, Alike
  <2>3. unsettled' = IF q.alone /\ ~trouble THEN unsettled \ About(q, {q.port}) ELSE unsettled \cup About(q, {q.port})
    BY <1>1, <1>3 DEF EndRemoval, Alike
  <2> HIDE DEF w
  <2> QED
    BY <1>3, <2>1, <2>2, <2>3 DEF Ends, Told
<1> QED
  BY <1>2, <1>3

LEMMA Going ==
  ASSUME NEW r, NEW q \in Request, q.pc # "next", DevEffect(q), NEW p \in Request,
         req' = [req EXCEPT ![r] = p], UNCHANGED <<unsettled, storeVars>>,
         Alike(q, p), Form(p), Carries(q, p)
  PROVE  Act(r, q)
BY DEF Act, GoesOn, StoreEffect

-----------------------------------------------------------------------------
(* Key set and map *)

LEMMA ReadKeysActs ==
  ASSUME TypeOK, NEW r, NEW q \in Request, Whole(q), ReadKeys(r, q)
  PROVE  Act(r, q)
<1>1. q.pc = "keys" /\ UNCHANGED deviceVars /\ q.op \in {"add", "bind"}
  BY DEF ReadKeys, Whole, Form, Providing, Dropping, Request
<1>2. DevEffect(q) /\ Concerns(q) = About(q, {q.port})
  BY <1>1, PortType DEF DevEffect
<1>3. CASE Fail(r, q)
  BY <1>1, <1>2, <1>3, Fails DEF Act
<1>4. CASE Goto(r, [q EXCEPT !.ids = {k \in Gids : keys[Node(q.port)][k] # 0}], "map") /\ UNCHANGED storeVars
  <2> DEFINE ids == {k \in Gids : keys[Node(q.port)][k] # 0}
  <2>1. PICK p \in Request : p = [[q EXCEPT !.ids = ids] EXCEPT !.pc = "map"]
    BY DEF Request
  <2>2. Alike(q, p) /\ p.pc = "map" /\ p.ids = ids
    BY <2>1 DEF Alike, Request
  <2>3. req' = [req EXCEPT ![r] = p] /\ UNCHANGED <<unsettled, storeVars>>
    BY <1>4, <2>1 DEF Goto
  <2>4. Form(p)
    BY <1>1, <2>2 DEF Form, Whole, Alike, Providing, Dropping
  <2>5. OwnLists(p)'
    BY <1>1, <2>2 DEF OwnLists, Alike, Dropping
  <2>6. OwnKey(p)'
    BY <1>1, <2>2, GroupsOK DEF OwnKey, Alike, deviceVars, SharedSet, Providing
  <2>7. Carries(q, p)
    BY <1>1, <2>2, <2>5, <2>6 DEF Carries, UsesMap
  <2> QED
    BY <1>1, <1>2, <2>2, <2>3, <2>4, <2>7, Going
<1> QED
  BY <1>3, <1>4 DEF ReadKeys, Read

\* Where the entry is to be written, or is there.
LEMMA EntryThere ==
  ASSUME NEW q \in Request, Gid(q) \in Gids, Mapped(q) = q.map
  PROVE  q.map[Gid(q)] = KeySet(q)
BY DEF Request, Maps, Mapped

LEMMA Shares ==
  ASSUME OneKey, NEW q \in Request, Gid(q) # 0
  PROVE  KeySet(q) = SharedSet /\ sets[SharedSet].key # 0
BY DEF OneKey, Request, Gid, KeySet

LEMMA ReadMapActs ==
  ASSUME TypeOK, NEW r, NEW q \in Request, Whole(q), ReadMap(r, q)
  PROVE  Act(r, q)
<1> DEFINE n == Node(q.port)
<1>1. q.pc = "map" /\ UNCHANGED deviceVars /\ q.op \in {"add", "bind"}
  BY DEF ReadMap, Whole, Form, Providing, Dropping, Request
<1>2. DevEffect(q) /\ Concerns(q) = About(q, {q.port}) /\ n \in Nodes /\ Gid(q) \in Gids
  BY <1>1, PortType DEF DevEffect
<1>3. CASE Fail(r, q)
  BY <1>1, <1>2, <1>3, Fails DEF Act
<1>4. ASSUME NEW t, NEW read \in Request, read = [q EXCEPT !.map = keyMap[n]],
             t = IF KeySet(q) \in q.ids THEN AfterKey(read) ELSE "keyWrite",
             Goto(r, read, t), UNCHANGED storeVars
      PROVE  Act(r, q)
  <2>1. Alike(q, read) /\ read.map = keyMap[n] /\ Gid(read) = Gid(q) /\ KeySet(read) = KeySet(q)
    BY <1>4 DEF Alike, Gid, KeySet, Request
  <2>2. t \in {"keyWrite", "mapWrite", "join", "list"}
        /\ (t = "join" => q.op = "add") /\ (t = "list" => q.op = "bind")
        /\ (t # "keyWrite" => KeySet(q) \in q.ids)
        /\ (t \in {"join", "list"} => Mapped(read) = read.map)
    BY <1>1, <1>4, <2>1 DEF AfterKey, Alike
  <2>3. PICK p \in Request : p = [read EXCEPT !.pc = t]
    BY <2>2 DEF Request
  <2>4. Alike(q, p) /\ p.pc = t /\ p.map = keyMap[n]
    BY <2>1, <2>3 DEF Alike, Request
  <2>5. req' = [req EXCEPT ![r] = p] /\ UNCHANGED <<unsettled, storeVars>>
    BY <1>4, <2>3 DEF Goto
  <2>6. Form(p)
    BY <1>1, <2>2, <2>4 DEF Form, Whole, Alike, Providing, Dropping
  <2>7. OwnLists(p)'
    BY <1>1, <2>2, <2>4 DEF OwnLists, Alike, Dropping
  <2>8. ASSUME OneKey, OwnKey(q) PROVE OwnKey(p)'
    <3>1. t # "keyWrite" => keys[n][SharedSet] = sets[SharedSet].key
      BY <1>1, <1>2, <2>2, <2>8, Shares DEF OwnKey, OneKey, Whole
    <3>2. t \in {"join", "list"} => keyMap[n][Gid(q)] = SharedSet
      BY <1>2, <2>1, <2>2, <2>8, EntryThere, Shares DEF Whole
    <3>3. Gid(p)' = Gid(q) /\ UNCHANGED <<keys, keyMap, sets>> /\ p.port = q.port
      BY <1>1, <2>4, <2>5 DEF Gid, Alike, deviceVars, storeVars
    <3> QED
      BY <2>2, <2>4, <3>1, <3>2, <3>3 DEF OwnKey, KeyThere, Providing
  <2>9. Carries(q, p)
    BY <1>1, <2>2, <2>4, <2>7, <2>8 DEF Carries, UsesMap, deviceVars
  <2> QED
    BY <1>1, <1>2, <2>4, <2>5, <2>6, <2>9, Going
<1>5. \E read \in Request : read = [q EXCEPT !.map = keyMap[n]]
  BY <1>2 DEF Request, TypeOK
<1> QED
  BY <1>3, <1>4, <1>5 DEF ReadMap, Read

LEMMA WriteKeyActs ==
  ASSUME TypeOK, NEW r, NEW q \in Request, Whole(q), WriteKey(r, q)
  PROVE  Act(r, q)
<1> DEFINE n == Node(q.port)
<1>1. q.pc = "keyWrite" /\ q.op \in {"add", "bind"} /\ UNCHANGED <<keyMap, table, acl, bound>>
  BY DEF WriteKey, Whole, Form, Providing, Dropping, Request
<1>2. Concerns(q) = About(q, {q.port}) /\ n \in Nodes /\ Gid(q) \in Gids
  BY <1>1, PortType
<1>3. DevEffect(q)
  BY <1>1 DEF WriteKey, Write, DevEffect, deviceVars
<1>4. CASE Fail(r, q)
  BY <1>1, <1>2, <1>3, <1>4, Fails DEF Act
<1>5. CASE SetKey(q, sets[KeySet(q)].key) /\ Goto(r, q, AfterKey(q)) /\ UNCHANGED storeVars
  <2>1. PICK t \in {"mapWrite", "join", "list"} :
           /\ t = AfterKey(q) /\ (t = "join" => q.op = "add") /\ (t = "list" => q.op = "bind")
           /\ (t # "mapWrite" => Mapped(q) = q.map)
    BY <1>1 DEF AfterKey
  <2>2. PICK p \in Request : p = [q EXCEPT !.pc = t]
    BY <2>1 DEF Request
  <2>3. Alike(q, p) /\ p.pc = t /\ p.map = q.map
    BY <2>2 DEF Alike, Request
  <2>4. req' = [req EXCEPT ![r] = p] /\ UNCHANGED <<unsettled, storeVars>>
    BY <1>5, <2>1, <2>2 DEF Goto
  <2>5. Form(p)
    BY <1>1, <2>1, <2>3 DEF Form, Whole, Alike, Providing, Dropping
  <2>6. OwnLists(p)'
    BY <1>1, <2>1, <2>3 DEF OwnLists, Alike, Dropping
  <2>7. ASSUME OneKey, OwnKey(q) PROVE OwnKey(p)'
    <3>1. keys'[n][SharedSet] = sets[SharedSet].key
      <4>1. KeySet(q) = SharedSet
        BY <2>7, Shares DEF Whole
      <4>2. keys' = [keys EXCEPT ![n][SharedSet] = sets[SharedSet].key]
        BY <1>5, <4>1 DEF SetKey
      <4>3. keys \in [Nodes -> [Gids -> Keys]] /\ SharedSet \in Gids
        BY GroupsOK DEF TypeOK, SharedSet
      <4> HIDE DEF n
      <4> QED
        BY <1>2, <4>2, <4>3
    <3>2. t \in {"join", "list"} => keyMap[n][Gid(q)] = SharedSet
      BY <1>1, <1>2, <2>1, <2>7, EntryThere, Shares DEF Whole, OwnKey
    <3>3. Gid(p)' = Gid(q) /\ UNCHANGED <<keyMap, sets>> /\ p.port = q.port
      BY <1>1, <2>3, <2>4 DEF Gid, Alike, storeVars
    <3> QED
      BY <2>1, <2>3, <3>1, <3>2, <3>3 DEF OwnKey, KeyThere, Providing
  <2>8. Carries(q, p)
    BY <1>1, <2>1, <2>3, <2>6, <2>7 DEF Carries, UsesMap
  <2> QED
    BY <1>1, <1>3, <2>3, <2>4, <2>5, <2>8, Going
<1> QED
  BY <1>4, <1>5 DEF WriteKey, Write

LEMMA WriteMapActs ==
  ASSUME TypeOK, NEW r, NEW q \in Request, Whole(q), WriteMap(r, q)
  PROVE  Act(r, q)
<1>1. q.pc = "mapWrite" /\ q.op \in {"add", "bind"} /\ UNCHANGED <<keys, table, acl, bound>>
  BY DEF WriteMap, Whole, Form, Providing, Dropping, Request
<1>2. Concerns(q) = About(q, {q.port})
  BY <1>1, PortType
<1>3. DevEffect(q)
  BY <1>1 DEF WriteMap, Write, DevEffect, deviceVars
<1>4. CASE Fail(r, q)
  BY <1>1, <1>2, <1>3, <1>4, Fails DEF Act
<1>5. CASE SetMap(q, Mapped(q)) /\ Goto(r, q, "mapBack") /\ UNCHANGED storeVars
  <2>1. PICK p \in Request : p = [q EXCEPT !.pc = "mapBack"]
    BY DEF Request
  <2>2. Alike(q, p) /\ p.pc = "mapBack"
    BY <2>1 DEF Alike, Request
  <2>3. req' = [req EXCEPT ![r] = p] /\ UNCHANGED <<unsettled, storeVars>>
    BY <1>5, <2>1 DEF Goto
  <2>4. Form(p)
    BY <1>1, <2>2 DEF Form, Whole, Alike, Providing, Dropping
  <2>5. OwnLists(p)'
    BY <1>1, <2>2 DEF OwnLists, Alike, Dropping
  <2>6. OwnKey(q) => OwnKey(p)'
    BY <1>1, <2>2, <2>3 DEF OwnKey, Alike, Providing, storeVars
  <2>7. Carries(q, p)
    BY <1>1, <2>2, <2>5, <2>6 DEF Carries, UsesMap
  <2> QED
    BY <1>1, <1>3, <2>2, <2>3, <2>4, <2>7, Going
<1> QED
  BY <1>4, <1>5 DEF WriteMap, Write

LEMMA CheckMapActs ==
  ASSUME TypeOK, NEW r, NEW q \in Request, Whole(q), CheckMap(r, q)
  PROVE  Act(r, q)
<1>1. q.pc = "mapBack" /\ q.op \in {"add", "bind"} /\ UNCHANGED deviceVars
  BY DEF CheckMap, Whole, Form, Providing, Dropping, Request
<1>2. Concerns(q) = About(q, {q.port}) /\ DevEffect(q)
  BY <1>1, PortType DEF DevEffect
<1>3. CASE Fail(r, q)
  BY <1>1, <1>2, <1>3, Fails DEF Act
<1>4. CASE /\ keyMap[Node(q.port)][Gid(q)] = KeySet(q)
           /\ Goto(r, q, IF q.op = "add" THEN "join" ELSE "list") /\ UNCHANGED storeVars
  <2>1. PICK t \in {"join", "list"} : t = IF q.op = "add" THEN "join" ELSE "list"
    OBVIOUS
  <2>2. PICK p \in Request : p = [q EXCEPT !.pc = t]
    BY DEF Request
  <2>3. Alike(q, p) /\ p.pc = t
    BY <2>2 DEF Alike, Request
  <2>4. req' = [req EXCEPT ![r] = p] /\ UNCHANGED <<unsettled, storeVars>>
    BY <1>4, <2>1, <2>2 DEF Goto
  <2>5. Form(p)
    BY <1>1, <2>1, <2>3 DEF Form, Whole, Alike, Providing, Dropping
  <2>6. OwnLists(p)'
    BY <1>1, <2>1, <2>3 DEF OwnLists, Alike, Dropping
  <2>7. ASSUME OneKey, OwnKey(q) PROVE OwnKey(p)'
    <3>1. KeyThere(Gid(q), Node(q.port))
      BY <1>1, <1>4, <2>7, Shares DEF KeyThere, OwnKey, Whole
    <3>2. Gid(p)' = Gid(q) /\ UNCHANGED <<keys, keyMap, sets>> /\ p.port = q.port
      BY <1>1, <2>3, <2>4 DEF Gid, Alike, storeVars, deviceVars
    <3> QED
      BY <1>1, <2>3, <3>1, <3>2 DEF OwnKey, KeyThere, Providing
  <2>8. Carries(q, p)
    BY <1>1, <2>1, <2>3, <2>6, <2>7 DEF Carries, UsesMap
  <2> QED
    BY <1>1, <1>2, <2>3, <2>4, <2>5, <2>8, Going
<1> QED
  BY <1>3, <1>4 DEF CheckMap, Read

-----------------------------------------------------------------------------
(* addGroupMember *)

LEMMA StatusSet ==
  ASSUME TypeOK, NEW o \in Objects, NEW p \in Members, NEW s \in Status, SetStatus(o, p, s)
  PROVE  /\ groups' \in [Objects -> Group]
         /\ \A x \in Objects : /\ groups'[x].id = groups[x].id /\ groups'[x].ks = groups[x].ks
                               /\ groups'[x].live = groups[x].live
                               /\ \A m \in Members : groups'[x].members[m] =
                                    IF x = o /\ m = p THEN s ELSE groups[x].members[m]
<1>1. groups \in [Objects -> Group] /\ groups[o] \in Group
  BY DEF TypeOK
<1>2. PICK f \in [Members -> Status] : f = [groups[o].members EXCEPT ![p] = s]
  BY <1>1 DEF Group
<1>3. PICK g \in Group : g = [groups[o] EXCEPT !.members = f]
  BY <1>1, <1>2 DEF Group
<1>4. g.id = groups[o].id /\ g.ks = groups[o].ks /\ g.live = groups[o].live /\ g.members = f
  BY <1>1, <1>3 DEF Group
<1>5. groups' = [groups EXCEPT ![o] = g]
  BY <1>2, <1>3 DEF SetStatus
<1>6. \A m \in Members : f[m] = IF m = p THEN s ELSE groups[o].members[m]
  BY <1>1, <1>2 DEF Group
<1>7. \A x \in Objects : groups'[x] = IF x = o THEN g ELSE groups[x]
  BY <1>1, <1>5
<1> QED
  BY <1>1, <1>3, <1>4, <1>5, <1>6, <1>7

LEMMA JoinActs ==
  ASSUME TypeOK, NEW r, NEW q \in Request, Whole(q), Join(r, q)
  PROVE  Act(r, q)
<1>1. q.pc = "join" /\ q.op = "add" /\ UNCHANGED <<keys, keyMap, acl, bound>>
  BY DEF Join, Whole, Form, Providing, Dropping, Request
<1>2. Concerns(q) = About(q, {q.port}) /\ q.port \in Members
  BY <1>1, PortType DEF OfMember
<1>3. DevEffect(q)
  BY <1>1 DEF Join, DevEffect, deviceVars
<1>4. CASE Fail(r, q)
  BY <1>1, <1>2, <1>3, <1>4, Fails DEF Act
<1>5. CASE table' = [table EXCEPT ![q.port] = @ \cup {Gid(q)}] /\ Goto(r, q, "acl") /\ UNCHANGED storeVars
  <2>1. PICK p \in Request : p = [q EXCEPT !.pc = "acl"]
    BY DEF Request
  <2>2. Alike(q, p) /\ p.pc = "acl"
    BY <2>1 DEF Alike, Request
  <2>3. req' = [req EXCEPT ![r] = p] /\ UNCHANGED <<unsettled, storeVars>>
    BY <1>5, <2>1 DEF Goto
  <2>4. Form(p)
    BY <1>1, <2>2 DEF Form, Whole, Alike, Providing, Dropping
  <2>5. Gid(p)' = Gid(q)
    BY <2>2, <2>3 DEF Alike, Gid, storeVars
  <2>6. Gid(q) \in table'[q.port]
    BY <1>2, <1>5 DEF TypeOK
  <2>7. OwnLists(p)'
    BY <1>1, <2>2, <2>5, <2>6 DEF OwnLists, Alike
  <2>8. OwnKey(q) => OwnKey(p)'
    BY <1>1, <2>2, <2>3, <2>5 DEF OwnKey, Alike, Providing, KeyThere, storeVars
  <2>9. Carries(q, p)
    BY <1>1, <2>2, <2>7, <2>8 DEF Carries, UsesMap
  <2> QED
    BY <1>1, <1>3, <2>2, <2>3, <2>4, <2>9, Going
<1> QED
  BY <1>4, <1>5 DEF Join

LEMMA JoinedActs ==
  ASSUME TypeOK, NEW r, NEW q \in Request, Whole(q), q.op = "add", q.pc \in {"acl", "granted"},
         UNCHANGED deviceVars, Grantee(q) \in acl[Node(q.port)], Joined(r, q)
  PROVE  Act(r, q)
<1>1. Concerns(q) = About(q, {q.port}) /\ q.port \in Members /\ q.group \in Objects
  BY PortType DEF OfMember
<1>2. DevEffect(q) /\ StoreEffect(q)
  BY DEF DevEffect, Joined, StoreEffect
<1>3. Gid(q)' = Gid(q) /\ Grantee(q)' = Grantee(q) /\ groups'[q.group].members[q.port] = "ok"
  BY <1>1, StatusSet DEF Joined, Gid, Grantee, Status
<1>4. Told(q)
  BY <1>3 DEF Told, OwnLists, Achieved, OwnKey, KeyThere, Providing, deviceVars, Joined
<1>5. Ends(r, q)
  BY <1>1, <1>4, Finishes DEF Joined
<1> QED
  BY <1>2, <1>5 DEF Act

LEMMA ReadAclActs ==
  ASSUME TypeOK, NEW r, NEW q \in Request, Whole(q), ReadAcl(r, q)
  PROVE  Act(r, q)
<1>1. q.pc = "acl" /\ q.op = "add" /\ UNCHANGED deviceVars
  BY DEF ReadAcl
<1>2. Concerns(q) = About(q, {q.port}) /\ Node(q.port) \in Nodes /\ DevEffect(q)
  BY <1>1, PortType DEF DevEffect
<1>3. CASE Fail(r, q)
  BY <1>1, <1>2, <1>3, Fails DEF Act
<1>4. CASE Grantee(q) \in acl[Node(q.port)] /\ Joined(r, q)
  BY <1>1, <1>4, JoinedActs
<1>5. CASE Goto(r, [q EXCEPT !.acl = acl[Node(q.port)]], "grant") /\ UNCHANGED storeVars
  <2>1. acl[Node(q.port)] \in SUBSET (Gids \X Members)
    BY <1>2 DEF TypeOK
  <2>2. PICK p \in Request : p = [[q EXCEPT !.acl = acl[Node(q.port)]] EXCEPT !.pc = "grant"]
    BY <2>1 DEF Request
  <2>3. Alike(q, p) /\ p.pc = "grant" /\ p.acl = acl[Node(q.port)]
    BY <2>2 DEF Alike, Request
  <2>4. req' = [req EXCEPT ![r] = p] /\ UNCHANGED <<unsettled, storeVars>>
    BY <1>5, <2>2 DEF Goto
  <2>5. Form(p)
    BY <1>1, <2>3 DEF Form, Whole, Alike, Providing, Dropping
  <2>6. Gid(p)' = Gid(q)
    BY <2>3, <2>4 DEF Alike, Gid, storeVars
  <2>7. OwnLists(q) => OwnLists(p)'
    BY <1>1, <2>3, <2>6 DEF OwnLists, Alike, deviceVars
  <2>8. OwnKey(q) => OwnKey(p)'
    BY <1>1, <2>3, <2>4, <2>6 DEF OwnKey, Alike, Providing, KeyThere, deviceVars, storeVars
  <2>9. Carries(q, p)
    BY <1>1, <2>3, <2>7, <2>8 DEF Carries, UsesMap, deviceVars
  <2> QED
    BY <1>1, <1>2, <2>3, <2>4, <2>5, <2>9, Going
<1> QED
  BY <1>3, <1>4, <1>5 DEF ReadAcl, Read

LEMMA GrantActs ==
  ASSUME TypeOK, NEW r, NEW q \in Request, Whole(q), Grant(r, q)
  PROVE  Act(r, q)
<1>1. q.pc = "grant" /\ q.op = "add" /\ UNCHANGED <<keys, keyMap, table, bound>>
  BY DEF Grant, Whole, Form, Providing, Dropping, Request
<1>2. Concerns(q) = About(q, {q.port})
  BY <1>1, PortType
<1>3. DevEffect(q)
  BY <1>1 DEF Grant, Write, DevEffect, deviceVars
<1>4. CASE Fail(r, q)
  BY <1>1, <1>2, <1>3, <1>4, Fails DEF Act
<1>5. CASE Goto(r, q, "granted") /\ UNCHANGED storeVars
  <2>1. PICK p \in Request : p = [q EXCEPT !.pc = "granted"]
    BY DEF Request
  <2>2. Alike(q, p) /\ p.pc = "granted"
    BY <2>1 DEF Alike, Request
  <2>3. req' = [req EXCEPT ![r] = p] /\ UNCHANGED <<unsettled, storeVars>>
    BY <1>5, <2>1 DEF Goto
  <2>4. Form(p)
    BY <1>1, <2>2 DEF Form, Whole, Alike, Providing, Dropping
  <2>5. Gid(p)' = Gid(q)
    BY <2>2, <2>3 DEF Alike, Gid, storeVars
  <2>6. OwnLists(q) => OwnLists(p)'
    BY <1>1, <2>2, <2>5 DEF OwnLists, Alike
  <2>7. OwnKey(q) => OwnKey(p)'
    BY <1>1, <2>2, <2>3, <2>5 DEF OwnKey, Alike, Providing, KeyThere, storeVars
  <2>8. Carries(q, p)
    BY <1>1, <2>2, <2>6, <2>7 DEF Carries, UsesMap
  <2> QED
    BY <1>1, <1>3, <2>2, <2>3, <2>4, <2>8, Going
<1> QED
  BY <1>4, <1>5 DEF Grant, Write

LEMMA CheckGrantActs ==
  ASSUME TypeOK, NEW r, NEW q \in Request, Whole(q), CheckGrant(r, q)
  PROVE  Act(r, q)
<1>1. q.pc = "granted" /\ q.op = "add" /\ UNCHANGED deviceVars
  BY DEF CheckGrant, Whole, Form, Providing, Dropping, Request
<1>2. Concerns(q) = About(q, {q.port}) /\ DevEffect(q)
  BY <1>1, PortType DEF DevEffect
<1>3. CASE Fail(r, q)
  BY <1>1, <1>2, <1>3, Fails DEF Act
<1>4. CASE Grantee(q) \in acl[Node(q.port)] /\ Joined(r, q)
  BY <1>1, <1>4, JoinedActs
<1> QED
  BY <1>3, <1>4 DEF CheckGrant, Read

-----------------------------------------------------------------------------
(* removeGroupMember *)

LEMMA RemoveUnreachableActs ==
  ASSUME TypeOK, NEW r, NEW q \in Request, Whole(q), RemoveUnreachable(r, q)
  PROVE  Act(r, q)
<1>1. q.op = "remove" /\ q.pc = "leave" /\ UNCHANGED deviceVars /\ UNCHANGED storeVars
  BY DEF RemoveUnreachable
<1>2. Concerns(q) = About(q, {q.port}) /\ Alike(q, q)
  BY <1>1, PortType DEF Alike
<1>3. Ends(r, q)
  BY <1>1, <1>2, EndsRemoval DEF RemoveUnreachable
<1> QED
  BY <1>1, <1>3 DEF Act, DevEffect, StoreEffect

LEMMA LeaveActs ==
  ASSUME TypeOK, NEW r, NEW q \in Request, Whole(q), Leave(r, q)
  PROVE  Act(r, q)
<1>1. q.pc = "leave" /\ q.op \in {"remove", "delete"} /\ UNCHANGED <<keys, keyMap, acl, bound, storeVars>>
  BY DEF Leave, Whole, Form, Providing, Dropping, Request
<1>2. q.port \in Members
  BY <1>1, PortType DEF OfMember
<1>3. DevEffect(q)
  BY <1>1 DEF Leave, Write, DevEffect, deviceVars
<1>4. PICK b \in BOOLEAN :
         /\ Goto(r, [q EXCEPT !.trouble = b], "acl")
         /\ b \/ table' = [table EXCEPT ![q.port] = @ \ {Gid(q)}]
  <2>1. CASE Skip(r, q, "acl")
    BY <2>1 DEF Skip
  <2>2. CASE table' = [table EXCEPT ![q.port] = @ \ {Gid(q)}] /\ Goto(r, q, "acl")
    <3>1. q = [q EXCEPT !.trouble = q.trouble] /\ q.trouble \in BOOLEAN
      BY DEF Request
    <3> QED
      BY <2>2, <3>1
  <2> QED
    BY <2>1, <2>2 DEF Leave, Write
<1>5. PICK p \in Request : p = [[q EXCEPT !.trouble = b] EXCEPT !.pc = "acl"]
  BY DEF Request
<1>6. Alike(q, p) /\ p.pc = "acl" /\ p.trouble = b
  BY <1>5 DEF Alike, Request
<1>7. req' = [req EXCEPT ![r] = p] /\ UNCHANGED <<unsettled, storeVars>>
  BY <1>1, <1>4, <1>5 DEF Goto
<1>8. Form(p)
  BY <1>1, <1>6 DEF Form, Whole, Alike, Providing, Dropping
<1>9. Gid(p)' = Gid(q)
  BY <1>6, <1>7 DEF Alike, Gid, storeVars
<1>10. b \/ Gid(q) \notin table'[q.port]
  BY <1>2, <1>4 DEF TypeOK
<1>11. OwnLists(p)'
  BY <1>1, <1>6, <1>9, <1>10 DEF OwnLists, Alike, Dropping
<1>12. OwnKey(p)'
  BY <1>1, <1>6 DEF OwnKey, Alike, Providing
<1>13. Carries(q, p)
  BY <1>1, <1>6, <1>11, <1>12 DEF Carries, UsesMap
<1> QED
  BY <1>1, <1>3, <1>6, <1>7, <1>8, <1>13, Going

LEMMA AfterRevokeActs ==
  ASSUME TypeOK, NEW r, NEW q \in Request, Whole(q), q.op \in {"remove", "delete"}, q.pc \in {"acl", "revoke"},
         NEW w \in Request, Alike(q, w), AfterRevoke(r, w), DevEffect(q), UNCHANGED <<storeVars, table>>,
         w.trouble \/ (~q.trouble /\ Grantee(q) \notin acl'[Node(q.port)])
  PROVE  Act(r, q)
<1>1. Gid(w) = Gid(q) /\ Gid(q)' = Gid(q) /\ Grantee(q)' = Grantee(q) /\ (StillMember(w) <=> StillMember(q))
      /\ w.trouble \in BOOLEAN
  BY DEF Gid, Alike, Grantee, StillMember, storeVars, Request
<1>2. Concerns(q) = About(q, {q.port}) \/ q.op = "delete"
  BY PortType
<1>3. CASE StillMember(w) /\ EndRemoval(r, w, w.trouble)
  <2>1. w.trouble \/ Told(q)
    BY <1>1 DEF Told, OwnLists, Achieved
  <2>2. Ends(r, q)
    BY <1>1, <1>2, <1>3, <2>1, EndsRemoval
  <2> QED
    BY <2>2 DEF Act, StoreEffect
<1>4. CASE ~StillMember(w) /\ Goto(r, w, "unmapRead")
  <2>1. PICK p \in Request : p = [w EXCEPT !.pc = "unmapRead"]
    BY DEF Request
  <2>2. Alike(q, p) /\ p.pc = "unmapRead" /\ p.trouble = w.trouble
    BY <2>1 DEF Alike, Request
  <2>3. req' = [req EXCEPT ![r] = p] /\ UNCHANGED <<unsettled, storeVars>>
    BY <1>4, <2>1 DEF Goto
  <2>4. Form(p)
    BY <2>2 DEF Form, Whole, Alike, Providing, Dropping
  <2>5. Gid(p)' = Gid(q) /\ Grantee(p)' = Grantee(q)
    BY <2>2, <2>3 DEF Alike, Gid, Grantee, storeVars
  <2>6. OwnLists(q) => OwnLists(p)'
    BY <2>2, <2>5 DEF OwnLists, Alike
  <2>7. OwnKey(p)'
    BY <2>2 DEF OwnKey, Alike
  <2>8. Carries(q, p)
    BY <1>1, <1>4, <2>2, <2>6, <2>7 DEF Carries, UsesMap
  <2> QED
    BY <2>2, <2>3, <2>4, <2>8, Going
<1> QED
  BY <1>3, <1>4 DEF AfterRevoke

LEMMA ReadAclForRevokeActs ==
  ASSUME TypeOK, NEW r, NEW q \in Request, Whole(q), ReadAclForRevoke(r, q)
  PROVE  Act(r, q)
<1>1. q.pc = "acl" /\ q.op \in {"remove", "delete"} /\ UNCHANGED deviceVars /\ UNCHANGED storeVars
  BY DEF ReadAclForRevoke
<1>2. DevEffect(q) /\ Node(q.port) \in Nodes
  BY <1>1, PortType DEF DevEffect
<1>3. CASE Grantee(q) \in acl[Node(q.port)] /\ Goto(r, [q EXCEPT !.acl = acl[Node(q.port)]], "revoke")
  <2>1. acl[Node(q.port)] \in SUBSET (Gids \X Members)
    BY <1>2 DEF TypeOK
  <2>2. PICK p \in Request : p = [[q EXCEPT !.acl = acl[Node(q.port)]] EXCEPT !.pc = "revoke"]
    BY <2>1 DEF Request
  <2>3. Alike(q, p) /\ p.pc = "revoke" /\ p.acl = acl[Node(q.port)] /\ p.trouble = q.trouble
    BY <2>2 DEF Alike, Request
  <2>4. req' = [req EXCEPT ![r] = p] /\ UNCHANGED <<unsettled, storeVars>>
    BY <1>1, <1>3, <2>2 DEF Goto
  <2>5. Form(p)
    BY <1>1, <2>3 DEF Form, Whole, Alike, Providing, Dropping
  <2>6. Gid(p)' = Gid(q)
    BY <2>3, <2>4 DEF Alike, Gid, storeVars
  <2>7. OwnLists(q) => OwnLists(p)'
    BY <1>1, <2>3, <2>6 DEF OwnLists, Alike, deviceVars, Dropping
  <2>8. OwnKey(p)'
    BY <1>1, <2>3 DEF OwnKey, Alike
  <2>9. Carries(q, p)
    BY <1>1, <2>3, <2>7, <2>8 DEF Carries, UsesMap, deviceVars
  <2> QED
    BY <1>1, <1>2, <2>3, <2>4, <2>5, <2>9, Going
<1>4. CASE Grantee(q) \notin acl[Node(q.port)] /\ AfterRevoke(r, q)
  <2>1. Alike(q, q) /\ q.trouble \in BOOLEAN
    BY DEF Alike, Request
  <2> QED
    BY <1>1, <1>2, <1>4, <2>1, AfterRevokeActs DEF deviceVars
<1>5. CASE AfterRevoke(r, [q EXCEPT !.trouble = TRUE])
  <2>1. PICK w \in Request : w = [q EXCEPT !.trouble = TRUE]
    BY DEF Request
  <2>2. Alike(q, w) /\ w.trouble
    BY <2>1 DEF Alike, Request
  <2> QED
    BY <1>1, <1>2, <1>5, <2>1, <2>2, AfterRevokeActs DEF deviceVars
<1> QED
  BY <1>3, <1>4, <1>5 DEF ReadAclForRevoke, Read

LEMMA RevokeActs ==
  ASSUME TypeOK, NEW r, NEW q \in Request, Whole(q), Revoke(r, q)
  PROVE  Act(r, q)
<1>1. q.pc = "revoke" /\ q.op \in {"remove", "delete"} /\ UNCHANGED <<keys, keyMap, table, bound, storeVars>>
  BY DEF Revoke, Whole, Form, Providing, Dropping, Request
<1>2. DevEffect(q)
  BY <1>1 DEF Revoke, Write, DevEffect, deviceVars
<1>3. CASE SetAcl(q, q.acl \ {Grantee(q)}) /\ AfterRevoke(r, q)
  <2>1. Alike(q, q) /\ q.trouble \in BOOLEAN
    BY DEF Alike, Request
  <2>2. Grantee(q) \notin acl'[Node(q.port)]
    BY <1>1, <1>3, PortType DEF SetAcl, TypeOK
  <2> QED
    BY <1>1, <1>2, <1>3, <2>1, <2>2, AfterRevokeActs
<1>4. CASE AfterRevoke(r, [q EXCEPT !.trouble = TRUE])
  <2>1. PICK w \in Request : w = [q EXCEPT !.trouble = TRUE]
    BY DEF Request
  <2>2. Alike(q, w) /\ w.trouble
    BY <2>1 DEF Alike, Request
  <2> QED
    BY <1>1, <1>2, <1>4, <2>1, <2>2, AfterRevokeActs
<1> QED
  BY <1>3, <1>4 DEF Revoke, Write

-----------------------------------------------------------------------------
(* _dropKeySetOnDevice *)

LEMMA AfterUnmapActs ==
  ASSUME TypeOK, NEW r, NEW q \in Request, Whole(q), q.op \in {"remove", "delete", "unbind"}, q.pc \in {"unmapRead", "unmap"},
         NEW w \in Request, Alike(q, w), w.trouble = q.trouble, w.list = q.list, AfterUnmap(r, w),
         DevEffect(q), UNCHANGED <<storeVars, table, acl, bound>>,
         \/ keyMap' = keyMap /\ w.map = keyMap[Node(q.port)]
         \/ UsesMap(q) /\ w.map = q.map
  PROVE  Act(r, q)
<1>1. /\ Gid(w) = Gid(q) /\ Gid(q)' = Gid(q) /\ Grantee(q)' = Grantee(q) /\ KeySet(w) = KeySet(q)
      /\ w.trouble \in BOOLEAN /\ w.map \in Maps
  BY DEF Gid, KeySet, Alike, Grantee, storeVars, Request
<1>2. Concerns(q) = About(q, {q.port}) \/ q.op = "delete"
  BY PortType
<1>3. CASE KeySetInUse(w) /\ EndRemoval(r, w, w.trouble)
  <2>1. w.trouble \/ Told(q)
    BY <1>1 DEF Told, OwnLists, Achieved, Dropping
  <2>2. Ends(r, q)
    BY <1>1, <1>2, <1>3, <2>1, EndsRemoval
  <2> QED
    BY <2>2 DEF Act, StoreEffect
<1>4. CASE ~KeySetInUse(w) /\ Goto(r, w, "keyRemove")
  <2>1. PICK p \in Request : p = [w EXCEPT !.pc = "keyRemove"]
    BY DEF Request
  <2>2. Alike(q, p) /\ p.pc = "keyRemove" /\ p.trouble = w.trouble /\ p.map = w.map /\ p.list = w.list
    BY <2>1 DEF Alike, Request
  <2>3. req' = [req EXCEPT ![r] = p] /\ UNCHANGED <<unsettled, storeVars>>
    BY <1>4, <2>1 DEF Goto
  <2>4. Form(p)
    BY <2>2 DEF Form, Whole, Alike, Providing, Dropping
  <2>5. Gid(p)' = Gid(q) /\ Grantee(p)' = Grantee(q)
    BY <2>2, <2>3 DEF Alike, Gid, Grantee, storeVars
  <2>6. OwnLists(q) => OwnLists(p)'
    BY <2>2, <2>5 DEF OwnLists, Alike, Dropping
  <2>7. OwnKey(p)'
    BY <2>2 DEF OwnKey, Alike
  <2>8. \A g \in Gids \ {Gid(q)} : p.map[g] # KeySet(q)
    BY <1>1, <1>4, <2>2 DEF KeySetInUse, Unmapped, Maps
  <2>9. Gid(q) \notin p.list \/ q.op # "unbind"
    BY <2>2 DEF Whole
  <2>10. Carries(q, p)
    BY <1>1, <2>2, <2>6, <2>7, <2>8, <2>9 DEF Carries, UsesMap
  <2> QED
    BY <2>2, <2>3, <2>4, <2>10, Going
<1> QED
  BY <1>3, <1>4 DEF AfterUnmap

LEMMA ReadMapForDropActs ==
  ASSUME TypeOK, NEW r, NEW q \in Request, Whole(q), ReadMapForDrop(r, q)
  PROVE  Act(r, q)
<1>1. q.pc = "unmapRead" /\ q.op \in {"remove", "delete", "unbind"} /\ UNCHANGED deviceVars /\ UNCHANGED storeVars
  BY DEF ReadMapForDrop, Whole, Form, Providing, Dropping, Request
<1>2. DevEffect(q) /\ Node(q.port) \in Nodes /\ (Concerns(q) = About(q, {q.port}) \/ q.op = "delete")
  BY <1>1, PortType DEF DevEffect
<1>3. PICK w \in Request : w = [q EXCEPT !.map = keyMap[Node(q.port)]]
  BY <1>2 DEF Request, TypeOK
<1>4. Alike(q, w) /\ w.map = keyMap[Node(q.port)] /\ w.trouble = q.trouble /\ w.list = q.list
  BY <1>3 DEF Alike, Request
<1>5. CASE Goto(r, w, "unmap")
  <2>1. PICK p \in Request : p = [w EXCEPT !.pc = "unmap"]
    BY DEF Request
  <2>2. Alike(q, p) /\ p.pc = "unmap" /\ p.trouble = w.trouble /\ p.map = w.map /\ p.list = w.list
    BY <1>4, <2>1 DEF Alike, Request
  <2>3. req' = [req EXCEPT ![r] = p] /\ UNCHANGED <<unsettled, storeVars>>
    BY <1>1, <1>5, <2>1 DEF Goto
  <2>4. Form(p)
    BY <1>1, <2>2 DEF Form, Whole, Alike, Providing, Dropping
  <2>5. Gid(p)' = Gid(q) /\ Grantee(p)' = Grantee(q)
    BY <2>2, <2>3 DEF Alike, Gid, Grantee, storeVars
  <2>6. OwnLists(q) => OwnLists(p)'
    BY <1>1, <1>4, <2>2, <2>5 DEF OwnLists, Alike, Dropping, deviceVars
  <2>7. OwnKey(p)'
    BY <1>1, <2>2 DEF OwnKey, Alike
  <2>8. Gid(q) \notin p.list \/ q.op # "unbind"
    BY <1>4, <2>2 DEF Whole
  <2>9. Carries(q, p)
    BY <1>1, <1>4, <2>2, <2>6, <2>7, <2>8 DEF Carries, UsesMap, deviceVars
  <2> QED
    BY <1>1, <1>2, <2>2, <2>3, <2>4, <2>9, Going
<1>6. CASE AfterUnmap(r, w)
  BY <1>1, <1>2, <1>4, <1>6, AfterUnmapActs DEF deviceVars
<1>7. CASE EndRemoval(r, q, TRUE)
  <2>1. Alike(q, q)
    BY DEF Alike
  <2>2. Ends(r, q)
    BY <1>1, <1>2, <1>7, <2>1, EndsRemoval
  <2> QED
    BY <1>1, <1>2, <2>2 DEF Act, StoreEffect
<1> QED
  BY <1>3, <1>5, <1>6, <1>7 DEF ReadMapForDrop, Read

LEMMA UnmapActs ==
  ASSUME TypeOK, NEW r, NEW q \in Request, Whole(q), Unmap(r, q)
  PROVE  Act(r, q)
<1>1. q.pc = "unmap" /\ q.op \in {"remove", "delete", "unbind"} /\ UNCHANGED <<keys, table, acl, bound, storeVars>>
  BY DEF Unmap, Whole, Form, Providing, Dropping, Request
<1>2. DevEffect(q)
  BY <1>1 DEF Unmap, Write, DevEffect, deviceVars
<1>3. Alike(q, q) /\ (Concerns(q) = About(q, {q.port}) \/ q.op = "delete")
  BY <1>1, PortType DEF Alike
<1>4. CASE AfterUnmap(r, q)
  BY <1>1, <1>2, <1>3, <1>4, AfterUnmapActs DEF UsesMap
<1>5. CASE EndRemoval(r, q, TRUE)
  <2>1. Ends(r, q)
    BY <1>1, <1>3, <1>5, EndsRemoval
  <2> QED
    BY <1>1, <1>2, <2>1 DEF Act, StoreEffect
<1> QED
  BY <1>4, <1>5 DEF Unmap, Write

LEMMA RemoveKeyActs ==
  ASSUME TypeOK, NEW r, NEW q \in Request, Whole(q), RemoveKey(r, q)
  PROVE  Act(r, q)
<1>1. q.pc = "keyRemove" /\ q.op \in {"remove", "delete", "unbind"} /\ UNCHANGED <<keyMap, table, acl, bound, storeVars>>
  BY DEF RemoveKey, Whole, Form, Providing, Dropping, Request
<1>2. DevEffect(q)
  BY <1>1 DEF RemoveKey, DevEffect, deviceVars
<1>3. Alike(q, q) /\ (Concerns(q) = About(q, {q.port}) \/ q.op = "delete") /\ q.trouble \in BOOLEAN
  BY <1>1, PortType DEF Alike, Request
<1>4. Gid(q)' = Gid(q) /\ Grantee(q)' = Grantee(q)
  BY <1>1 DEF Gid, Grantee, storeVars
<1>5. q.trouble \/ Told(q)
  BY <1>1, <1>4 DEF Told, OwnLists, Achieved, Dropping
<1>6. Ends(r, q)
  BY <1>1, <1>3, <1>5, EndsRemoval DEF RemoveKey
<1> QED
  BY <1>1, <1>2, <1>6 DEF Act, StoreEffect

-----------------------------------------------------------------------------
(* Group bindings *)

LEMMA ReadListActs ==
  ASSUME TypeOK, NEW r, NEW q \in Request, Whole(q), ReadList(r, q)
  PROVE  Act(r, q)
<1>1. q.pc = "list" /\ q.op = "bind" /\ UNCHANGED deviceVars /\ UNCHANGED storeVars
  BY DEF ReadList
<1>2. DevEffect(q) /\ Concerns(q) = About(q, {q.port}) /\ q.port \in Sources /\ Gid(q) \in Gids
  BY <1>1, PortType DEF DevEffect, Whole, Form
<1>3. CASE Finish(r, q, TRUE, Concerns(q))
  <2>1. Ends(r, q)
    BY <1>1, <1>2, <1>3, Finishes
  <2> QED
    BY <1>1, <1>2, <2>1 DEF Act, StoreEffect
<1>4. CASE Finish(r, q, FALSE, Concerns(q))
  <2>1. Told(q)
    BY <1>1 DEF Told, Achieved, OwnKey, KeyThere, Providing, Gid, deviceVars, storeVars
  <2>2. Ends(r, q)
    BY <1>1, <1>2, <1>4, <2>1, Finishes
  <2> QED
    BY <1>1, <1>2, <2>2 DEF Act, StoreEffect
<1>5. CASE Goto(r, [q EXCEPT !.list = bound[q.port] \cup {Gid(q)}], "enter")
  <2>1. bound[q.port] \cup {Gid(q)} \in SUBSET Gids
    BY <1>2 DEF TypeOK
  <2>2. PICK p \in Request : p = [[q EXCEPT !.list = bound[q.port] \cup {Gid(q)}] EXCEPT !.pc = "enter"]
    BY <2>1 DEF Request
  <2>3. Alike(q, p) /\ p.pc = "enter" /\ p.list = bound[q.port] \cup {Gid(q)}
    BY <2>2 DEF Alike, Request
  <2>4. req' = [req EXCEPT ![r] = p] /\ UNCHANGED <<unsettled, storeVars>>
    BY <1>1, <1>5, <2>2 DEF Goto
  <2>5. Form(p)
    BY <1>1, <2>3 DEF Form, Whole, Alike, Providing, Dropping
  <2>6. OwnLists(p)'
    BY <1>1, <2>3 DEF OwnLists, Alike
  <2>7. OwnKey(q) => OwnKey(p)'
    BY <1>1, <2>3 DEF OwnKey, Alike, KeyThere, Providing, Gid, deviceVars, storeVars
  <2>8. Carries(q, p)
    BY <1>1, <2>3, <2>6, <2>7 DEF Carries, UsesMap, deviceVars
  <2> QED
    BY <1>1, <1>2, <2>3, <2>4, <2>5, <2>8, Going
<1> QED
  BY <1>3, <1>4, <1>5 DEF ReadList, Read

LEMMA EnterActs ==
  ASSUME TypeOK, NEW r, NEW q \in Request, Whole(q), Enter(r, q)
  PROVE  Act(r, q)
<1>1. q.pc = "enter" /\ q.op = "bind" /\ UNCHANGED <<keys, keyMap, table, acl, storeVars>>
  BY DEF Enter, Whole, Form, Providing, Dropping, Request
<1>2. Concerns(q) = About(q, {q.port})
  BY <1>1, PortType
<1>3. DevEffect(q)
  BY <1>1 DEF Enter, Write, DevEffect, deviceVars
<1>4. CASE Finish(r, q, TRUE, Concerns(q))
  <2>1. Ends(r, q)
    BY <1>1, <1>2, <1>4, Finishes
  <2> QED
    BY <1>1, <1>3, <2>1 DEF Act, StoreEffect
<1>5. CASE Goto(r, q, "entered")
  <2>1. PICK p \in Request : p = [q EXCEPT !.pc = "entered"]
    BY DEF Request
  <2>2. Alike(q, p) /\ p.pc = "entered"
    BY <2>1 DEF Alike, Request
  <2>3. req' = [req EXCEPT ![r] = p] /\ UNCHANGED <<unsettled, storeVars>>
    BY <1>1, <1>5, <2>1 DEF Goto
  <2>4. Form(p)
    BY <1>1, <2>2 DEF Form, Whole, Alike, Providing, Dropping
  <2>5. OwnLists(p)'
    BY <1>1, <2>2 DEF OwnLists, Alike
  <2>6. OwnKey(q) => OwnKey(p)'
    BY <1>1, <2>2 DEF OwnKey, Alike, KeyThere, Providing, Gid, storeVars
  <2>7. Carries(q, p)
    BY <1>1, <2>2, <2>5, <2>6 DEF Carries, UsesMap
  <2> QED
    BY <1>1, <1>3, <2>2, <2>3, <2>4, <2>7, Going
<1> QED
  BY <1>4, <1>5 DEF Enter, Write

LEMMA CheckEntryActs ==
  ASSUME TypeOK, NEW r, NEW q \in Request, Whole(q), CheckEntry(r, q)
  PROVE  Act(r, q)
<1>1. q.pc = "entered" /\ q.op = "bind" /\ UNCHANGED deviceVars /\ UNCHANGED storeVars
  BY DEF CheckEntry, Whole, Form, Providing, Dropping, Request
<1>2. DevEffect(q) /\ Concerns(q) = About(q, {q.port})
  BY <1>1, PortType DEF DevEffect
<1>3. Told(q)
  BY <1>1 DEF Told, Achieved, OwnKey, KeyThere, Providing, Gid, deviceVars, storeVars
<1>4. Ends(r, q)
  BY <1>1, <1>2, <1>3, Finishes DEF CheckEntry, Read
<1> QED
  BY <1>1, <1>2, <1>4 DEF Act, StoreEffect

LEMMA AfterUnbindActs ==
  ASSUME TypeOK, NEW r, NEW q \in Request, Whole(q), q.op = "unbind", q.pc \in {"list", "drop"},
         NEW w \in Request, Alike(q, w), Gid(q) \notin w.list, Gid(q) \notin bound'[q.port], AfterUnbind(r, w),
         DevEffect(q), UNCHANGED storeVars
  PROVE  Act(r, q)
<1>1. Gid(w) = Gid(q) /\ Gid(q)' = Gid(q) /\ Concerns(w) = Concerns(q) /\ w.port = q.port /\ w.alone = q.alone
  BY DEF Gid, Alike, Concerns, About, PortsOf, Kind, storeVars
<1>2. Concerns(q) = About(q, {q.port})
  BY PortType
<1>3. CASE Finish(r, w, FALSE, Concerns(w))
  <2>1. Told(q)
    BY <1>1 DEF Told, Achieved
  <2>2. Finish(r, q, FALSE, Concerns(q))
    BY <1>1, <1>3 DEF Finish
  <2>3. Ends(r, q)
    BY <1>2, <2>1, <2>2, Finishes
  <2> QED
    BY <2>3 DEF Act, StoreEffect
<1>4. CASE /\ Goto(r, w, "unmapRead")
           /\ \A o \in Live : groups[o].id = Gid(q) => \A m \in Listed(o) : Node(m) # Node(q.port)
  <2>1. PICK p \in Request : p = [w EXCEPT !.pc = "unmapRead"]
    BY DEF Request
  <2>2. Alike(q, p) /\ p.pc = "unmapRead" /\ p.list = w.list
    BY <2>1 DEF Alike, Request
  <2>3. req' = [req EXCEPT ![r] = p] /\ UNCHANGED <<unsettled, storeVars>>
    BY <1>4, <2>1 DEF Goto
  <2>4. Form(p)
    BY <2>2 DEF Form, Whole, Alike, Providing, Dropping
  <2>5. Gid(p)' = Gid(q)
    BY <2>2, <2>3 DEF Alike, Gid, storeVars
  <2>6. OwnLists(p)'
    BY <2>2, <2>5 DEF OwnLists, Alike
  <2>7. OwnKey(p)'
    BY <2>2 DEF OwnKey, Alike
  <2>8. Carries(q, p)
    BY <1>4, <2>2, <2>6, <2>7 DEF Carries, UsesMap, OfMember
  <2> QED
    BY <2>2, <2>3, <2>4, <2>8, Going
<1>5. Listed(0) \subseteq Members /\ \A o : Listed(o) \subseteq Members
  BY DEF Listed
<1> QED
  BY <1>1, <1>3, <1>4, <1>5 DEF AfterUnbind

LEMMA ReadListForUnbindActs ==
  ASSUME TypeOK, NEW r, NEW q \in Request, Whole(q), ReadListForUnbind(r, q)
  PROVE  Act(r, q)
<1>1. q.pc = "list" /\ q.op = "unbind" /\ UNCHANGED deviceVars /\ UNCHANGED storeVars
  BY DEF ReadListForUnbind
<1>2. DevEffect(q) /\ Concerns(q) = About(q, {q.port}) /\ q.port \in Sources
  BY <1>1, PortType DEF DevEffect, Whole, Form
<1>3. CASE Finish(r, q, TRUE, Concerns(q))
  <2>1. Ends(r, q)
    BY <1>1, <1>2, <1>3, Finishes
  <2> QED
    BY <1>1, <1>2, <2>1 DEF Act, StoreEffect
<1>4. PICK w \in Request : w = [q EXCEPT !.list = bound[q.port] \ {Gid(q)}]
  BY <1>2 DEF Request, TypeOK
<1>5. Alike(q, w) /\ w.list = bound[q.port] \ {Gid(q)}
  BY <1>4 DEF Alike, Request
<1>6. CASE Goto(r, w, "drop")
  <2>1. PICK p \in Request : p = [w EXCEPT !.pc = "drop"]
    BY DEF Request
  <2>2. Alike(q, p) /\ p.pc = "drop" /\ p.list = bound[q.port] \ {Gid(q)}
    BY <1>5, <2>1 DEF Alike, Request
  <2>3. req' = [req EXCEPT ![r] = p] /\ UNCHANGED <<unsettled, storeVars>>
    BY <1>1, <1>6, <2>1 DEF Goto
  <2>4. Form(p)
    BY <1>1, <2>2 DEF Form, Whole, Alike, Providing, Dropping
  <2>5. OwnLists(p)'
    BY <1>1, <2>2 DEF OwnLists, Alike, Dropping
  <2>6. OwnKey(p)'
    BY <1>1, <2>2 DEF OwnKey, Alike
  <2>7. Carries(q, p)
    BY <1>1, <2>2, <2>5, <2>6 DEF Carries, UsesMap, deviceVars
  <2> QED
    BY <1>1, <1>2, <2>2, <2>3, <2>4, <2>7, Going
<1>7. CASE Gid(q) \notin bound[q.port] /\ AfterUnbind(r, w)
  BY <1>1, <1>2, <1>5, <1>7, AfterUnbindActs DEF deviceVars
<1> QED
  BY <1>3, <1>4, <1>6, <1>7 DEF ReadListForUnbind, Read

LEMMA DropEntryActs ==
  ASSUME TypeOK, NEW r, NEW q \in Request, Whole(q), DropEntry(r, q)
  PROVE  Act(r, q)
<1>1. q.pc = "drop" /\ q.op = "unbind" /\ UNCHANGED <<keys, keyMap, table, acl, storeVars>>
  BY DEF DropEntry, Whole, Form, Providing, Dropping, Request
<1>2. Concerns(q) = About(q, {q.port}) /\ q.port \in Sources /\ Gid(q) \notin q.list /\ Alike(q, q)
  BY <1>1, PortType DEF Whole, Form, Alike
<1>3. DevEffect(q)
  BY <1>1 DEF DropEntry, Write, DevEffect, deviceVars
<1>4. CASE Finish(r, q, TRUE, Concerns(q))
  <2>1. Ends(r, q)
    BY <1>1, <1>2, <1>4, Finishes
  <2> QED
    BY <1>1, <1>3, <2>1 DEF Act, StoreEffect
<1>5. CASE SetBound(q, q.list) /\ AfterUnbind(r, q)
  <2>1. bound'[q.port] = q.list
    BY <1>2, <1>5 DEF SetBound, TypeOK
  <2> QED
    BY <1>1, <1>2, <1>3, <1>5, <2>1, AfterUnbindActs
<1> QED
  BY <1>4, <1>5 DEF DropEntry, Write

-----------------------------------------------------------------------------
(* The steps of a deletion between its members *)

\* It takes up a member, or leaves one behind.
Picks(r, q) ==
  /\ q.op = "delete" /\ q.pc = "next" /\ UNCHANGED <<deviceVars, sets, saved>>
  /\ \E m \in q.todo, p \in Request :
       /\ req' = [req EXCEPT ![r] = p] /\ Form(p)
       /\ p.op = q.op /\ p.group = q.group /\ p.alone = q.alone /\ p.todo = q.todo \ {m}
       /\ \/ p.port = m /\ p.pc = "leave" /\ SetStatus(q.group, m, NoMember) /\ UNCHANGED unsettled
          \/ p.port = NoPort /\ p.pc = "next" /\ UNCHANGED groups /\ unsettled' = unsettled \cup About(q, {m})

Deletes(r, q) ==
  /\ q.op = "delete" /\ q.pc = "next" /\ q.todo = {} /\ UNCHANGED <<deviceVars, unsettled>>
  /\ req' = [req EXCEPT ![r] = Idle]
  /\ groups' = [groups EXCEPT ![q.group].live = FALSE]
  /\ Save
  /\ sets' = sets \/ /\ ~sets[KeySet(q)].shared /\ KeySet(q) \notin {groups[o].ks : o \in Live \ {q.group}}
                     /\ sets' = [sets EXCEPT ![KeySet(q)] = NoSet]

LEMMA NextMemberPicks ==
  ASSUME NEW r, NEW q \in Request, Whole(q), NextMember(r, q)
  PROVE  Picks(r, q)
<1>1. q.op = "delete" /\ q.pc = "next" /\ q.port = NoPort /\ UNCHANGED <<deviceVars, sets, saved>>
  BY DEF NextMember, Whole, Form, Providing, Dropping, Request
<1>2. PICK m \in q.todo :
         LET rest == [q EXCEPT !.todo = @ \ {m}]
         IN  \/ SetStatus(q.group, m, NoMember) /\ Goto(r, [rest EXCEPT !.port = m], "leave")
             \/ req' = [req EXCEPT ![r] = rest] /\ unsettled' = unsettled \cup About(q, {m}) /\ UNCHANGED groups
  BY DEF NextMember
<1>3. q.todo \ {m} \in SUBSET Members /\ m \in Members /\ m \in Ports
  BY DEF Request, Ports
<1>4. PICK rest \in Request : rest = [q EXCEPT !.todo = @ \ {m}]
  BY <1>3 DEF Request
<1>5. /\ rest.op = q.op /\ rest.group = q.group /\ rest.alone = q.alone /\ rest.todo = q.todo \ {m}
      /\ rest.port = NoPort /\ rest.pc = "next"
  BY <1>1, <1>4 DEF Request
<1>6. CASE req' = [req EXCEPT ![r] = rest] /\ unsettled' = unsettled \cup About(q, {m}) /\ UNCHANGED groups
  <2>1. Form(rest)
    BY <1>1, <1>5 DEF Form
  <2> QED
    BY <1>1, <1>5, <1>6, <2>1 DEF Picks
<1>7. CASE SetStatus(q.group, m, NoMember) /\ Goto(r, [rest EXCEPT !.port = m], "leave")
  <2>1. PICK p \in Request : p = [[rest EXCEPT !.port = m] EXCEPT !.pc = "leave"]
    BY <1>3 DEF Request
  <2>2. /\ p.op = q.op /\ p.group = q.group /\ p.alone = q.alone /\ p.todo = q.todo \ {m}
        /\ p.port = m /\ p.pc = "leave"
    BY <1>5, <2>1 DEF Request
  <2>3. Form(p)
    BY <1>1, <1>3, <2>2, GroupsOK DEF Form
  <2>4. req' = [req EXCEPT ![r] = p] /\ UNCHANGED unsettled
    BY <1>7, <2>1 DEF Goto
  <2> QED
    BY <1>1, <1>7, <2>2, <2>3, <2>4 DEF Picks
<1> QED
  BY <1>2, <1>4, <1>6, <1>7

LEMMA DeletedDeletes ==
  ASSUME NEW r, NEW q \in Request, Whole(q), Deleted(r, q)
  PROVE  Deletes(r, q)
<1>1. q.op = "delete" /\ q.pc = "next" /\ q.todo = {} /\ UNCHANGED deviceVars
  BY DEF Deleted, Whole, Form, Providing, Dropping, Request
<1>2. req' = [req EXCEPT ![r] = Idle] /\ UNCHANGED unsettled
  BY DEF Deleted, Finish
<1> QED
  BY <1>1, <1>2 DEF Deletes, Deleted

\* All steps of a request.
LEMMA StepActs ==
  ASSUME TInv, NEW r \in Reqs, RequestStep(r)
  PROVE  /\ r \in Pending /\ UNCHANGED <<paired, online, requests>>
         /\ \E q \in Request : /\ q = req[r] /\ Whole(q)
                               /\ Act(r, q) \/ Picks(r, q) \/ Deletes(r, q)
<1>1. r \in Pending /\ UNCHANGED <<paired, online, requests>>
  BY DEF RequestStep
<1>2. PICK q \in Request : q = req[r] /\ Whole(q)
  BY <1>1 DEF TInv, TypeOK, Pending
<1>3. TypeOK
  BY DEF TInv
<1>4. EnsureStep(r, q) => Act(r, q) \/ Picks(r, q) \/ Deletes(r, q)
  BY <1>2, <1>3, ReadKeysActs, ReadMapActs, WriteKeyActs, WriteMapActs, CheckMapActs DEF EnsureStep
<1>5. AddStep(r, q) => Act(r, q) \/ Picks(r, q) \/ Deletes(r, q)
  BY <1>2, <1>3, JoinActs, ReadAclActs, GrantActs, CheckGrantActs DEF AddStep
<1>6. RemoveStep(r, q) => Act(r, q) \/ Picks(r, q) \/ Deletes(r, q)
  BY <1>2, <1>3, NextMemberPicks, DeletedDeletes, RemoveUnreachableActs, LeaveActs, ReadAclForRevokeActs, RevokeActs DEF RemoveStep
<1>7. DropStep(r, q) => Act(r, q) \/ Picks(r, q) \/ Deletes(r, q)
  BY <1>2, <1>3, ReadMapForDropActs, UnmapActs, RemoveKeyActs DEF DropStep
<1>8. BindStep(r, q) => Act(r, q) \/ Picks(r, q) \/ Deletes(r, q)
  BY <1>2, <1>3, ReadListActs, EnterActs, CheckEntryActs, ReadListForUnbindActs, DropEntryActs DEF BindStep
<1>9. EnsureStep(r, q) \/ AddStep(r, q) \/ RemoveStep(r, q) \/ DropStep(r, q) \/ BindStep(r, q)
  BY <1>2 DEF RequestStep
<1> QED
  BY <1>1, <1>2, <1>4, <1>5, <1>6, <1>7, <1>8, <1>9

-----------------------------------------------------------------------------
(* What every step of a request leaves alone *)

\* Groups keep their numbers and key sets, and do not come back.
GroupsKept ==
  /\ groups' \in [Objects -> Group]
  /\ \A o \in Objects : /\ groups'[o].id = groups[o].id /\ groups'[o].ks = groups[o].ks
                        /\ groups'[o].live => groups[o].live

LEMMA ActGroups ==
  ASSUME TypeOK, NEW q \in Request, Whole(q), q.pc # "next", StoreEffect(q)
  PROVE  GroupsKept /\ Live' = Live
<1>1. CASE UNCHANGED storeVars
  BY <1>1 DEF TypeOK, storeVars, GroupsKept, Live
<1>2. CASE q.op = "add" /\ \E s \in {"ok", "error"} : SetStatus(q.group, q.port, s)
  <2>1. q.group \in Objects /\ q.port \in Members
    BY <1>2, PortType DEF OfMember
  <2>2. PICK s \in Status : SetStatus(q.group, q.port, s)
    BY <1>2 DEF Status
  <2> QED
    BY <2>1, <2>2, StatusSet DEF GroupsKept, Live
<1> QED
  BY <1>1, <1>2 DEF StoreEffect

LEMMA PicksGroups ==
  ASSUME TypeOK, NEW r, NEW q \in Request, Picks(r, q)
  PROVE  GroupsKept /\ Live' = Live
<1>1. q.group \in Objects /\ q.todo \subseteq Members
  BY DEF Request
<1>2. CASE UNCHANGED groups
  BY <1>2 DEF TypeOK, GroupsKept, Live
<1>3. CASE \E m \in q.todo : SetStatus(q.group, m, NoMember)
  BY <1>1, <1>3, StatusSet DEF GroupsKept, Live, Status
<1> QED
  BY <1>2, <1>3 DEF Picks

LEMMA DeletesGroups ==
  ASSUME TypeOK, NEW r, NEW q \in Request, Deletes(r, q)
  PROVE  /\ GroupsKept /\ Live' = Live \ {q.group}
         /\ \A o \in Objects : groups'[o].members = groups[o].members
<1>1. q.group \in Objects /\ groups \in [Objects -> Group]
  BY DEF Request, TypeOK
<1>2. PICK g \in Group : g = [groups[q.group] EXCEPT !.live = FALSE]
  BY <1>1 DEF Group
<1>3. /\ g.id = groups[q.group].id /\ g.ks = groups[q.group].ks /\ ~g.live
      /\ g.members = groups[q.group].members
  BY <1>1, <1>2 DEF Group
<1>4. groups' = [groups EXCEPT ![q.group] = g]
  BY <1>2 DEF Deletes
<1>5. \A o \in Objects : groups'[o] = IF o = q.group THEN g ELSE groups[o]
  BY <1>1, <1>4
<1>6. groups' \in [Objects -> Group]
  BY <1>1, <1>4
<1> QED
  BY <1>3, <1>5, <1>6 DEF GroupsKept, Live

\* What has been dealt with is settled or not; other requests' concerns only
\* change with it when it has met nobody.
LEMMA StepMoves ==
  ASSUME TInv, NEW r \in Pending, NEW q \in Request, Whole(q),
         Act(r, q) \/ Picks(r, q) \/ Deletes(r, q)
  PROVE  /\ GroupsKept
         /\ \E p \in Request \cup {Idle} :
              /\ req' = [req EXCEPT ![r] = p]
              /\ p # Idle => /\ p.op = q.op /\ p.group = q.group /\ p.alone = q.alone
                             /\ PortsOf(p) \subseteq PortsOf(q) /\ Whole(p)'
         /\ unsettled' \subseteq unsettled \cup Concerns(q)
         /\ unsettled \subseteq unsettled' \cup Concerns(q)
         /\ unsettled \subseteq unsettled' \cup About(q, {q.port})
         /\ ~q.alone => unsettled \subseteq unsettled'
<1>1. TypeOK /\ q.group \in Objects
  BY DEF TInv, Request
<1>2. GroupsKept
  BY <1>1, ActGroups, PicksGroups, DeletesGroups DEF Act
<1>3. Gid(q)' = Gid(q) /\ Gid(q) # 0
  <2>1. groups'[q.group].id = groups[q.group].id
    BY <1>1, <1>2 DEF GroupsKept
  <2>2. Gid(q)' = Gid(q)
    BY <2>1 DEF Gid
  <2>3. Gid(q) # 0
    BY DEF Whole
  <2> QED
    BY <2>2, <2>3
<1>4. ASSUME NEW p \in Request, Form(p), p.op = q.op, p.group = q.group, q.op = "unbind" => Gid(q) \notin p.list
      PROVE  Whole(p)'
  BY <1>3, <1>4 DEF Whole, Gid, Form
<1>5. CASE Act(r, q)
  <2>1. q.pc # "next" /\ q.port # NoPort
    BY <1>5 DEF Act, Whole, Form
  <2>2. About(q, {q.port}) \subseteq Concerns(q)
    BY <2>1 DEF About, Concerns, PortsOf
  <2>3. CASE Ends(r, q)
    <3>1. PICK p \in Request \cup {Idle} :
             /\ req' = [req EXCEPT ![r] = p]
             /\ q.op # "delete" => p = Idle
             /\ q.op = "delete" => /\ p \in Request /\ p.op = "delete" /\ p.group = q.group /\ p.alone = q.alone
                                   /\ p.todo = q.todo /\ p.port = NoPort /\ p.pc = "next"
      BY <2>3 DEF Ends
    <3>2. p # Idle => PortsOf(p) \subseteq PortsOf(q) /\ Whole(p)'
      <4> SUFFICES ASSUME p # Idle PROVE PortsOf(p) \subseteq PortsOf(q) /\ Whole(p)'
        OBVIOUS
      <4>1. q.op = "delete" /\ p \in Request /\ Form(p)
        BY <3>1 DEF Form
      <4> QED
        BY <1>4, <3>1, <4>1 DEF PortsOf
    <3>3. /\ unsettled' \subseteq unsettled \cup Concerns(q)
          /\ unsettled \subseteq unsettled' \cup Concerns(q)
          /\ unsettled \subseteq unsettled' \cup About(q, {q.port})
          /\ ~q.alone => unsettled \subseteq unsettled'
      BY <2>2, <2>3 DEF Ends
    <3> QED
      BY <1>2, <3>1, <3>2, <3>3
  <2>4. CASE \E p \in Request : GoesOn(r, q, p)
    <3>1. PICK p \in Request : GoesOn(r, q, p)
      BY <2>4
    <3>2. PortsOf(p) = PortsOf(q) /\ Whole(p)'
      BY <1>4, <3>1 DEF GoesOn, Alike, PortsOf, Carries
    <3> QED
      BY <1>2, <3>1, <3>2 DEF GoesOn, Alike
  <2> QED
    BY <1>5, <2>3, <2>4 DEF Act
<1>6. CASE Picks(r, q)
  <2>1. PICK m \in q.todo, p \in Request :
       /\ req' = [req EXCEPT ![r] = p] /\ Form(p)
       /\ p.op = q.op /\ p.group = q.group /\ p.alone = q.alone /\ p.todo = q.todo \ {m}
       /\ p.port \in {m, NoPort}
       /\ unsettled' \in {unsettled, unsettled \cup About(q, {m})}
    BY <1>6 DEF Picks
  <2>2. PortsOf(p) \subseteq PortsOf(q)
    BY <2>1 DEF PortsOf
  <2>3. About(q, {m}) \subseteq Concerns(q)
    BY <2>1 DEF About, Concerns, PortsOf
  <2>4. Whole(p)'
    BY <1>4, <1>6, <2>1 DEF Picks
  <2> QED
    BY <1>2, <2>1, <2>2, <2>3, <2>4
<1>7. CASE Deletes(r, q)
  BY <1>2, <1>7 DEF Deletes
<1> QED
  BY <1>5, <1>6, <1>7

-----------------------------------------------------------------------------
(* What arrives *)

\* A request as it begins, and what is stored at once.
Starts(q) ==
  /\ q.alone /\ ~q.trouble /\ Whole(q)
  /\ q.op = "add" => q.pc = "keys" /\ SetStatus(q.group, q.port, "pending")
  /\ q.op = "remove" => q.pc = "leave" /\ SetStatus(q.group, q.port, NoMember)
  /\ q.op \in {"add", "remove"} => UNCHANGED sets /\ Save
  /\ q.op = "delete" => q.pc = "next" /\ q.todo = Listed(q.group)
  /\ q.op = "bind" => q.pc = "keys"
  /\ q.op = "unbind" => q.pc = "list"
  /\ q.op \in {"delete", "bind", "unbind"} => UNCHANGED storeVars
  /\ q.op # "unbind" => q.group \in Live

\* The same request, maybe no longer alone.
Twin(q, p) ==
  /\ p.op = q.op /\ p.pc = q.pc /\ p.group = q.group /\ p.port = q.port /\ p.todo = q.todo
  /\ p.ids = q.ids /\ p.map = q.map /\ p.acl = q.acl /\ p.list = q.list /\ p.trouble = q.trouble
  /\ p.alone => q.alone

\* It comes to those under way, and takes their privacy where they meet.
Comes(r, q) ==
  /\ r \in Reqs \ Pending /\ UNCHANGED <<paired, online, deviceVars, faults>>
  /\ unsettled \subseteq unsettled'
  /\ unsettled' \subseteq unsettled \cup Concerns(q) \cup UNION {Concerns(req[x]) : x \in Pending}
  /\ req' \in [Reqs -> Request \cup {Idle}]
  /\ Pending' = Pending \cup {r}
  /\ Twin(q, req'[r])
  /\ req'[r].alone => unsettled' = unsettled
  /\ ~req'[r].alone => Concerns(q) \subseteq unsettled'
  /\ \A x \in Pending : /\ Twin(req[x], req'[x])
                        /\ IF Meets(q, req[x])
                           THEN ~req'[x].alone /\ ~req'[r].alone /\ Concerns(req[x]) \subseteq unsettled'
                           ELSE req'[x] = req[x]

LEMMA ArriveComes ==
  ASSUME TypeOK, NEW r \in Reqs, NEW q \in Request, q.alone, Arrive(r, q)
  PROVE  Comes(r, q)
<1> DEFINE others == {x \in Pending : Meets(q, req[x])}
<1>1. r \notin Pending /\ Idle \notin Request /\ req \in [Reqs -> Request \cup {Idle}] /\ others \subseteq Pending
  BY GroupsOK DEF Arrive, Pending, TypeOK
<1>2. PICK a \in BOOLEAN : a <=> others = {}
  <2>1. CASE others = {}
    BY <2>1
  <2>2. CASE others # {}
    BY <2>2
  <2> QED
    BY <2>1, <2>2
<1>3. PICK p \in Request : p = [q EXCEPT !.alone = a]
  <2>1. \A b \in BOOLEAN : [q EXCEPT !.alone = b] \in Request
    BY DEF Request
  <2> QED
    BY <2>1
<1>4. Twin(q, p) /\ p.alone = a
  <2>1. p.alone = a
    BY <1>3 DEF Request
  <2>2. Twin(q, p)
    BY <1>3 DEF Twin, Request
  <2> QED
    BY <2>1, <2>2
<1>5. req' = [x \in Reqs |-> IF x = r THEN p
                             ELSE IF x \in others THEN [req[x] EXCEPT !.alone = FALSE] ELSE req[x]]
  <2>1. p = [q EXCEPT !.alone = others = {}]
    <3>1. a = (others = {})
      BY <1>2
    <3> QED
      BY <1>3, <3>1
  <2> QED
    BY <2>1 DEF Arrive
<1>6. req'[r] = p
  BY <1>5
<1>7. ASSUME NEW x \in Pending
      PROVE  /\ req'[x] \in Request /\ Twin(req[x], req'[x])
             /\ IF x \in others THEN ~req'[x].alone ELSE req'[x] = req[x]
  <2>1. x # r /\ req[x] \in Request
    BY <1>1, <1>7 DEF Pending
  <2>2. PICK w \in Request : w = [req[x] EXCEPT !.alone = FALSE]
    BY <2>1 DEF Request
  <2>3. Twin(req[x], w) /\ ~w.alone
    BY <2>1, <2>2 DEF Twin, Request
  <2>4. x \in others => req'[x] = w
    BY <1>5, <2>1, <2>2 DEF Pending
  <2>5. x \notin others => req'[x] = req[x]
    BY <1>5, <2>1 DEF Pending
  <2>6. Twin(req[x], req[x])
    BY DEF Twin
  <2> QED
    BY <2>1, <2>2, <2>3, <2>4, <2>5, <2>6
<1>8. \A x \in Reqs \ Pending : x # r => req'[x] = Idle
  BY <1>1, <1>5 DEF Pending
<1>9. req' \in [Reqs -> Request \cup {Idle}] /\ Pending' = Pending \cup {r}
  <2>1. DOMAIN req' = Reqs /\ req' = [x \in Reqs |-> req'[x]]
    BY <1>5
  <2>2. \A x \in Reqs : req'[x] \in Request \cup {Idle}
    BY <1>6, <1>7, <1>8
  <2>3. \A x \in Reqs : req'[x] # Idle <=> x \in Pending \cup {r}
    BY <1>1, <1>6, <1>7, <1>8
  <2> QED
    BY <2>1, <2>2, <2>3 DEF Pending
<1>10. /\ others = {} => unsettled' = unsettled
       /\ others # {} => unsettled' = unsettled \cup Concerns(q) \cup UNION {Concerns(req[x]) : x \in others}
  BY DEF Arrive
<1>11. \A x \in others : Concerns(req[x]) \subseteq unsettled'
  BY <1>10
<1>12. unsettled' \subseteq unsettled \cup Concerns(q) \cup UNION {Concerns(req[x]) : x \in Pending}
  BY <1>1, <1>10
<1>13. unsettled \subseteq unsettled' /\ (a => unsettled' = unsettled) /\ (~a => Concerns(q) \subseteq unsettled')
  BY <1>2, <1>10
<1>14. UNCHANGED <<paired, online, deviceVars, faults>>
  BY DEF Arrive
<1>15. \A x \in Pending : IF Meets(q, req[x])
                          THEN ~req'[x].alone /\ ~req'[r].alone /\ Concerns(req[x]) \subseteq unsettled'
                          ELSE req'[x] = req[x]
  BY <1>2, <1>4, <1>6, <1>7, <1>11
<1> QED
  BY <1>1, <1>4, <1>6, <1>7, <1>9, <1>12, <1>13, <1>14, <1>15 DEF Comes

LEMMA LowestIn ==
  ASSUME NEW S \in SUBSET Nat, S # {}
  PROVE  Lowest(S) \in S
<1>1. PICK R : R = {ss \in Nat \X Nat : ss[1] < ss[2]}
  OBVIOUS
<1>2. \A i, j \in Nat : <<j, i>> \in R <=> j < i
  BY <1>1
<1>3. IsWellFoundedOn(R, Nat)
  BY <1>1, NatLessThanWellFounded, Zenon DEF OpToRel
<1>4. \E i \in S : \A j \in S : ~(<<j, i>> \in R)
  BY <1>3, WFMin
<1>5. PICK i \in S : \A j \in S : ~(<<j, i>> \in R)
  BY <1>4
<1>6. \A j \in S : i <= j
  <2> TAKE j \in S
  <2>1. i \in Nat /\ j \in Nat /\ ~(j < i)
    BY <1>2, <1>5
  <2> QED
    BY <2>1
<1> QED
  BY <1>6 DEF Lowest

\* Every step of the requests' arrivals.
Arrivals(r, o) ==
  \/ Delete(r, o)
  \/ \E p \in Members : Add(r, o, p) \/ Remove(r, o, p)
  \/ \E s \in Sources : BindGroup(r, o, s) \/ UnbindGroup(r, o, s)

LEMMA BlankWhole ==
  ASSUME TypeOK, NEW q, NEW op, NEW pc, NEW o \in Objects, NEW port, NEW todo \in SUBSET Members,
         <<op, pc>> \in {<<"add", "keys">>, <<"remove", "leave">>, <<"delete", "next">>, <<"bind", "keys">>, <<"unbind", "list">>},
         op = "delete" => port = NoPort,
         op \in {"add", "remove"} => port \in Members,
         op \in {"bind", "unbind"} => port \in Sources,
         op # "delete" => todo = {},
         groups[o].id # 0,
         q = [op |-> op, pc |-> pc, group |-> o, port |-> port, todo |-> todo, ids |-> {},
              map |-> [g \in Gids |-> 0], acl |-> {}, list |-> {}, trouble |-> FALSE, alone |-> TRUE]
  PROVE  q \in Request /\ Whole(q) /\ q.alone /\ ~q.trouble /\ q.op = op /\ q.pc = pc /\ q.group = o /\ q.port = port /\ q.todo = todo
<1>1. port \in Ports \cup {NoPort} /\ (port = NoPort <=> op = "delete")
  BY GroupsOK DEF Ports
<1>2. [g \in Gids |-> 0] \in Maps
  BY DEF Maps
<1>3. q \in Request
  BY <1>1, <1>2 DEF Request
<1>4. q.alone /\ ~q.trouble /\ q.op = op /\ q.pc = pc /\ q.group = o /\ q.port = port /\ q.todo = todo /\ q.list = {}
  OBVIOUS
<1>5. Form(q)
  BY <1>1, <1>4 DEF Form, Providing, Dropping
<1>6. Gid(q) # 0
  BY <1>4 DEF Gid
<1> QED
  BY <1>3, <1>4, <1>5, <1>6 DEF Whole

LEMMA ArrivalsStart ==
  ASSUME TypeOK, NEW r \in Reqs, NEW o \in Objects, Arrivals(r, o)
  PROVE  \E q \in Request : Starts(q) /\ Comes(r, q)
<1>1. \A x \in Live : x \in Objects /\ groups[x].id # 0
  BY DEF TypeOK, Live
<1>2. CASE Delete(r, o)
  <2>0. PICK q : q = [Blank EXCEPT !.op = "delete", !.pc = "next", !.group = o, !.todo = Listed(o)]
    OBVIOUS
  <2>1. Listed(o) \in SUBSET Members /\ o \in Live
    BY <1>2 DEF Listed, Delete
  <2>2. q = [op |-> "delete", pc |-> "next", group |-> o, port |-> NoPort, todo |-> Listed(o), ids |-> {},
              map |-> [g \in Gids |-> 0], acl |-> {}, list |-> {}, trouble |-> FALSE, alone |-> TRUE]
    BY <2>0 DEF Blank
  <2>3. Arrive(r, q) /\ UNCHANGED storeVars
    BY <2>0, <1>2 DEF Delete
  <2>4. q \in Request /\ Whole(q) /\ q.alone /\ ~q.trouble /\ q.op = "delete" /\ q.pc = "next" /\ q.group = o /\ q.todo = Listed(o)
    BY <1>1, <2>1, <2>2, BlankWhole
  <2> QED
    BY <2>1, <2>3, <2>4, ArriveComes DEF Starts
<1>3. ASSUME NEW p \in Members, Add(r, o, p) PROVE \E q \in Request : Starts(q) /\ Comes(r, q)
  <2>0. PICK q : q = [Blank EXCEPT !.op = "add", !.pc = "keys", !.group = o, !.port = p]
    OBVIOUS
  <2>1. o \in Live
    BY <1>3 DEF Add
  <2>2. q = [op |-> "add", pc |-> "keys", group |-> o, port |-> p, todo |-> {}, ids |-> {},
              map |-> [g \in Gids |-> 0], acl |-> {}, list |-> {}, trouble |-> FALSE, alone |-> TRUE]
    BY <2>0 DEF Blank
  <2>3. Arrive(r, q) /\ UNCHANGED sets /\ Save /\ SetStatus(o, p, "pending")
    BY <2>0, <1>3 DEF Add
  <2>4. q \in Request /\ Whole(q) /\ q.alone /\ ~q.trouble /\ q.op = "add" /\ q.pc = "keys" /\ q.group = o /\ q.port = p
    BY <1>1, <2>1, <2>2, BlankWhole
  <2> QED
    BY <2>1, <2>3, <2>4, ArriveComes DEF Starts
<1>4. ASSUME NEW p \in Members, Remove(r, o, p) PROVE \E q \in Request : Starts(q) /\ Comes(r, q)
  <2>0. PICK q : q = [Blank EXCEPT !.op = "remove", !.pc = "leave", !.group = o, !.port = p]
    OBVIOUS
  <2>1. o \in Live
    BY <1>4 DEF Remove
  <2>2. q = [op |-> "remove", pc |-> "leave", group |-> o, port |-> p, todo |-> {}, ids |-> {},
              map |-> [g \in Gids |-> 0], acl |-> {}, list |-> {}, trouble |-> FALSE, alone |-> TRUE]
    BY <2>0 DEF Blank
  <2>3. Arrive(r, q) /\ UNCHANGED sets /\ Save /\ SetStatus(o, p, NoMember)
    BY <2>0, <1>4 DEF Remove
  <2>4. q \in Request /\ Whole(q) /\ q.alone /\ ~q.trouble /\ q.op = "remove" /\ q.pc = "leave" /\ q.group = o /\ q.port = p
    BY <1>1, <2>1, <2>2, BlankWhole
  <2> QED
    BY <2>1, <2>3, <2>4, ArriveComes DEF Starts
<1>5. ASSUME NEW s \in Sources, BindGroup(r, o, s) PROVE \E q \in Request : Starts(q) /\ Comes(r, q)
  <2>0. PICK q : q = [Blank EXCEPT !.op = "bind", !.pc = "keys", !.group = o, !.port = s]
    OBVIOUS
  <2>1. o \in Live
    BY <1>5 DEF BindGroup
  <2>2. q = [op |-> "bind", pc |-> "keys", group |-> o, port |-> s, todo |-> {}, ids |-> {},
              map |-> [g \in Gids |-> 0], acl |-> {}, list |-> {}, trouble |-> FALSE, alone |-> TRUE]
    BY <2>0 DEF Blank
  <2>3. Arrive(r, q) /\ UNCHANGED storeVars
    BY <2>0, <1>5 DEF BindGroup
  <2>4. q \in Request /\ Whole(q) /\ q.alone /\ ~q.trouble /\ q.op = "bind" /\ q.pc = "keys" /\ q.group = o /\ q.port = s
    BY <1>1, <2>1, <2>2, BlankWhole
  <2> QED
    BY <2>1, <2>3, <2>4, ArriveComes DEF Starts
<1>6. ASSUME NEW s \in Sources, UnbindGroup(r, o, s) PROVE \E q \in Request : Starts(q) /\ Comes(r, q)
  <2>0. PICK q : q = [Blank EXCEPT !.op = "unbind", !.pc = "list", !.group = o, !.port = s]
    OBVIOUS
  <2>1. groups[o].id # 0
    BY <1>1, <1>6 DEF UnbindGroup
  <2>2. q = [op |-> "unbind", pc |-> "list", group |-> o, port |-> s, todo |-> {}, ids |-> {},
              map |-> [g \in Gids |-> 0], acl |-> {}, list |-> {}, trouble |-> FALSE, alone |-> TRUE]
    BY <2>0 DEF Blank
  <2>3. Arrive(r, q) /\ UNCHANGED storeVars
    BY <2>0, <1>6 DEF UnbindGroup
  <2>4. q \in Request /\ Whole(q) /\ q.alone /\ ~q.trouble /\ q.op = "unbind" /\ q.pc = "list" /\ q.group = o /\ q.port = s
    BY <2>1, <2>2, BlankWhole
  <2> QED
    BY <2>3, <2>4, ArriveComes DEF Starts
<1> QED
  BY <1>2, <1>3, <1>4, <1>5, <1>6 DEF Arrivals

-----------------------------------------------------------------------------
(* Types *)

LEMMA DevEffectTypes ==
  ASSUME TypeOK, NEW q \in Request, Whole(q), q.pc # "next", DevEffect(q)
  PROVE  /\ keys' \in [Nodes -> [Gids -> Keys]] /\ keyMap' \in [Nodes -> Maps]
         /\ table' \in [Members -> SUBSET Gids] /\ bound' \in [Sources -> SUBSET Gids]
         /\ acl' \in [Nodes -> SUBSET (Gids \X Members)]
<1> DEFINE n == Node(q.port)
<1>1. n \in Nodes /\ q.group \in Objects /\ Gid(q) \in Gids /\ KeySet(q) \in Gids \cup {0} /\ 0 \notin Gids
  BY PortType, GroupsOK
<1>2. /\ keys \in [Nodes -> [Gids -> Keys]] /\ keyMap \in [Nodes -> Maps] /\ sets \in [Gids -> Set]
      /\ table \in [Members -> SUBSET Gids] /\ bound \in [Sources -> SUBSET Gids]
      /\ acl \in [Nodes -> SUBSET (Gids \X Members)]
  BY DEF TypeOK
<1>3. keys' \in [Nodes -> [Gids -> Keys]]
  <2>1. CASE UNCHANGED keys
    BY <1>2, <2>1
  <2>2. CASE SetKey(q, IF q.pc = "keyWrite" THEN sets[KeySet(q)].key ELSE 0)
    <3>1. CASE KeySet(q) \in Gids
      <4>1. PICK k \in Keys : keys' = [keys EXCEPT ![n][KeySet(q)] = k]
        <5>1. sets[KeySet(q)].key \in Keys /\ 0 \in Keys
          <6>1. sets[KeySet(q)] \in Set
            BY <1>2, <3>1
          <6>2. MaxObjects \in Nat
            BY GroupsOK
          <6> QED
            BY <6>1, <6>2 DEF Set, Keys
        <5> QED
          BY <2>2, <5>1 DEF SetKey
      <4> QED
        BY <1>1, <1>2, <3>1, <4>1
    <3>2. CASE KeySet(q) = 0
      <4>1. PICK k : keys' = [keys EXCEPT ![n] = [@ EXCEPT ![0] = k]]
        BY <2>2, <3>2 DEF SetKey
      <4>2. [keys[n] EXCEPT ![0] = k] \in [Gids -> Keys]
        <5>1. PICK f \in [Gids -> Keys] : f = keys[n]
          BY <1>1, <1>2
        <5>2. \A g \in Gids : [f EXCEPT ![0] = k][g] = f[g]
          BY <1>1
        <5> QED
          BY <5>1, <5>2
      <4> QED
        BY <1>1, <1>2, <4>1, <4>2
    <3> QED
      BY <1>1, <3>1, <3>2
  <2> QED
    BY <2>1, <2>2 DEF DevEffect, deviceVars
<1>4. keyMap' \in [Nodes -> Maps]
  <2>1. q.map \in Maps
    BY DEF Request
  <2>2. Mapped(q) \in Maps /\ Unmapped(q) \in Maps
    BY <1>1, <2>1 DEF Maps, Mapped, Unmapped
  <2> QED
    BY <1>1, <1>2, <2>2 DEF DevEffect, SetMap, deviceVars
<1>5. table' \in [Members -> SUBSET Gids]
  BY <1>1, <1>2 DEF DevEffect, deviceVars
<1>6. bound' \in [Sources -> SUBSET Gids]
  <2>1. q.list \in SUBSET Gids
    BY DEF Request
  <2> QED
    BY <1>2, <2>1 DEF DevEffect, SetBound, deviceVars
<1>7. acl' \in [Nodes -> SUBSET (Gids \X Members)]
  <2>1. q.acl \in SUBSET (Gids \X Members)
    BY DEF Request
  <2>2. q.pc \in {"grant", "revoke"} => Grantee(q) \in Gids \X Members
    BY <1>1, PortType DEF OfMember, Whole, Form, Grantee, Providing, Dropping
  <2> QED
    BY <1>1, <1>2, <2>1, <2>2 DEF DevEffect, SetAcl, deviceVars
<1> QED
  BY <1>3, <1>4, <1>5, <1>6, <1>7

\* What is kept of a group's number and key set keeps the live groups in order.
LEMMA LiveKept ==
  ASSUME TypeOK, GroupsKept, \A o \in Live' : sets'[groups[o].ks] = sets[groups[o].ks]
  PROVE  /\ \A o \in Live' : groups'[o].id # 0 /\ groups'[o].ks # 0 /\ sets'[groups'[o].ks].key # 0
         /\ \A o, x \in Live' : groups'[o].id = groups'[x].id => o = x
<1>1. \A o \in Live' : /\ o \in Objects /\ o \in Live /\ groups'[o].id = groups[o].id /\ groups'[o].ks = groups[o].ks
                       /\ sets'[groups'[o].ks] = sets[groups[o].ks]
  BY DEF GroupsKept, Live
<1> QED
  BY <1>1 DEF TypeOK

\* Requests that have come keep their form.
LEMMA WholeKept ==
  ASSUME TInv, GroupsKept, NEW x \in Pending, NEW p, Twin(req[x], p)
  PROVE  Whole(p)'
<1>1. PICK q \in Request : q = req[x] /\ Whole(q)
  BY DEF TInv, TypeOK, Pending
<1>2. q.group \in Objects /\ groups'[q.group].id = groups[q.group].id
  BY DEF Request, GroupsKept
<1>3. p.op = q.op /\ p.pc = q.pc /\ p.group = q.group /\ p.port = q.port /\ p.todo = q.todo /\ p.list = q.list
  BY <1>1 DEF Twin
<1>4. Gid(p)' = Gid(q)
  BY <1>2, <1>3 DEF Gid
<1> QED
  BY <1>1, <1>3, <1>4 DEF Whole, Form

LEMMA ConcernsType ==
  ASSUME TypeOK, NEW q \in Request, Whole(q)
  PROVE  Concerns(q) \subseteq {"member", "source"} \X Gids \X Ports
<1>1. q.group \in Objects /\ groups[q.group] \in Group /\ Gid(q) # 0
  BY DEF Request, TypeOK, Whole
<1>2. Gid(q) \in Gids
  BY <1>1 DEF Gid, Group
<1>3. PortsOf(q) \subseteq Ports
  BY DEF Request, PortsOf, Ports
<1> QED
  BY <1>2, <1>3 DEF Concerns, About, Kind

LEMMA StepStore ==
  ASSUME TInv, NEW r \in Pending, NEW q \in Request, Whole(q),
         Act(r, q) \/ Picks(r, q) \/ Deletes(r, q)
  PROVE  /\ GroupsKept /\ SavedAs' /\ sets' \in [Gids -> Set]
         /\ saved' \in [groups : [Objects -> Group], sets : [Gids -> Set]]
         /\ \A k \in Gids : sets'[k] = NoSet \/ sets'[k].key # 0
         /\ \A o \in Live' : sets'[groups[o].ks] = sets[groups[o].ks]
<1>1. GroupsKept /\ TypeOK
  BY StepMoves DEF TInv
<1>2. groups' \in [Objects -> Group] /\ sets \in [Gids -> Set] /\ saved \in [groups : [Objects -> Group], sets : [Gids -> Set]]
  BY <1>1 DEF GroupsKept, TypeOK
<1>3. CASE Act(r, q) \/ Picks(r, q)
  <2>1. sets' = sets /\ (saved' = saved \/ Save)
    BY <1>3 DEF Act, Picks, StoreEffect, storeVars
  <2>2. Live' = Live
    BY <1>1, <1>3, ActGroups, PicksGroups DEF Act
  <2>3. \A o \in Objects : groups'[o].live = groups[o].live
    <3>1. \A o \in Objects : groups[o].live \in BOOLEAN /\ groups'[o].live \in BOOLEAN
      BY <1>1, <1>2 DEF TypeOK, Group
    <3> QED
      BY <2>2, <3>1 DEF Live
  <2>4. saved' \in [groups : [Objects -> Group], sets : [Gids -> Set]]
    BY <1>2, <2>1 DEF Save
  <2>5. SavedAs'
    <3>1. CASE saved' = saved
      BY <1>1, <2>1, <2>3, <3>1 DEF SavedAs, TInv, GroupsKept
    <3>2. CASE Save
      BY <3>2 DEF SavedAs, Save
    <3> QED
      BY <2>1, <3>1, <3>2
  <2> QED
    BY <1>1, <1>2, <2>1, <2>4, <2>5 DEF TInv
<1>4. CASE Deletes(r, q)
  <2>1. NoSet \in Set
    BY GroupsOK DEF NoSet, Set, Keys
  <2>2. sets' \in [Gids -> Set] /\ \A k \in Gids : sets'[k] = NoSet \/ sets'[k].key # 0
    BY <1>2, <1>4, <2>1 DEF Deletes, TInv
  <2>3. saved' \in [groups : [Objects -> Group], sets : [Gids -> Set]] /\ SavedAs'
    BY <1>2, <1>4, <2>2 DEF Deletes, Save, SavedAs
  <2>4. \A o \in Live' : sets'[groups[o].ks] = sets[groups[o].ks]
    <3>1. \A o \in Live' : groups[o].ks \in {groups[x].ks : x \in Live \ {q.group}}
      BY <1>1, <1>4, DeletesGroups
    <3>2. \A o \in Live' : groups[o].ks \in Gids
      <4>1. \A o \in Live' : o \in Live /\ o \in Objects
        BY <1>1, <1>4, DeletesGroups DEF Live
      <4> QED
        BY <1>1, <4>1 DEF TypeOK, Group
    <3> QED
      BY <1>2, <1>4, <3>1, <3>2 DEF Deletes
  <2> QED
    BY <1>1, <2>2, <2>3, <2>4
<1> QED
  BY <1>3, <1>4

LEMMA StepTInv ==
  ASSUME TInv, NEW r \in Reqs, RequestStep(r)
  PROVE  TInv'
<1>1. r \in Pending /\ UNCHANGED <<paired, online, requests>> /\ TypeOK
  BY StepActs DEF TInv
<1>2. PICK q \in Request : q = req[r] /\ Whole(q) /\ (Act(r, q) \/ Picks(r, q) \/ Deletes(r, q))
  BY StepActs
<1>3. /\ GroupsKept /\ SavedAs' /\ sets' \in [Gids -> Set]
      /\ saved' \in [groups : [Objects -> Group], sets : [Gids -> Set]]
      /\ \A k \in Gids : sets'[k] = NoSet \/ sets'[k].key # 0
      /\ \A o \in Live' : sets'[groups[o].ks] = sets[groups[o].ks]
  BY <1>1, <1>2, StepStore
<1>4. PICK p \in Request \cup {Idle} : req' = [req EXCEPT ![r] = p] /\ (p # Idle => Whole(p)')
  BY <1>1, <1>2, StepMoves
<1>5. unsettled' \subseteq unsettled \cup Concerns(q)
  BY <1>1, <1>2, StepMoves
<1>6. /\ keys' \in [Nodes -> [Gids -> Keys]] /\ keyMap' \in [Nodes -> Maps]
      /\ table' \in [Members -> SUBSET Gids] /\ bound' \in [Sources -> SUBSET Gids]
      /\ acl' \in [Nodes -> SUBSET (Gids \X Members)]
  <2>1. CASE UNCHANGED deviceVars
    BY <1>1, <2>1 DEF TypeOK, deviceVars
  <2>2. CASE q.pc # "next" /\ DevEffect(q)
    BY <1>1, <1>2, <2>2, DevEffectTypes
  <2> QED
    BY <1>2, <2>1, <2>2 DEF Act, Picks, Deletes
<1>7. unsettled' \subseteq {"member", "source"} \X Gids \X Ports
  BY <1>1, <1>2, <1>5, ConcernsType DEF TypeOK
<1>8. req' \in [Reqs -> Request \cup {Idle}]
  BY <1>1, <1>4 DEF TypeOK
<1>9. TypeOK'
  BY <1>1, <1>3, <1>6, <1>7, <1>8, LiveKept DEF TypeOK, GroupsKept
<1>10. ASSUME NEW x \in Pending' PROVE Whole(req[x])'
  <2>1. CASE x = r
    <3>1. req'[r] = p /\ p # Idle
      BY <1>1, <1>4, <1>10, <2>1 DEF TypeOK, Pending
    <3> QED
      BY <1>4, <2>1, <3>1
  <2>2. CASE x # r
    <3>1. x \in Pending /\ req'[x] = req[x]
      BY <1>1, <1>4, <1>10, <2>2 DEF TypeOK, Pending
    <3>2. Twin(req[x], req[x])
      BY DEF Twin
    <3>3. \A w : w = req[x] => Whole(w)'
      BY <1>3, <3>1, <3>2, WholeKept
    <3> QED
      BY <3>1, <3>3
  <2> QED
    BY <2>1, <2>2
<1> QED
  BY <1>3, <1>9, <1>10 DEF TInv

LEMMA StartStore ==
  ASSUME TInv, NEW q \in Request, Starts(q)
  PROVE  /\ GroupsKept /\ SavedAs' /\ sets' = sets /\ Live' = Live
         /\ saved' \in [groups : [Objects -> Group], sets : [Gids -> Set]]
<1>1. TypeOK /\ q.group \in Objects /\ q.op \in {"add", "remove", "delete", "bind", "unbind"}
  BY DEF TInv, Request
<1>2. CASE UNCHANGED storeVars
  BY <1>1, <1>2 DEF TypeOK, TInv, SavedAs, GroupsKept, Live, storeVars
<1>3. CASE q.op \in {"add", "remove"}
  <2>1. q.port \in Members
    BY <1>3 DEF Starts, Whole, Form
  <2>2. PICK s \in Status : SetStatus(q.group, q.port, s)
    BY <1>3 DEF Starts, Status
  <2>3. GroupsKept /\ Live' = Live
    BY <1>1, <2>1, <2>2, StatusSet DEF GroupsKept, Live
  <2>4. sets' = sets /\ Save
    BY <1>3 DEF Starts
  <2>5. saved' \in [groups : [Objects -> Group], sets : [Gids -> Set]] /\ SavedAs'
    BY <1>1, <2>3, <2>4 DEF Save, SavedAs, GroupsKept, TypeOK
  <2> QED
    BY <2>3, <2>4, <2>5
<1> QED
  BY <1>1, <1>2, <1>3 DEF Starts

LEMMA ArrivalsTInv ==
  ASSUME TInv, NEW r \in Reqs, NEW o \in Objects, Arrivals(r, o)
  PROVE  TInv'
<1>1. TypeOK
  BY DEF TInv
<1>2. PICK q \in Request : Starts(q) /\ Comes(r, q)
  BY <1>1, ArrivalsStart
<1>3. GroupsKept /\ SavedAs' /\ sets' = sets /\ saved' \in [groups : [Objects -> Group], sets : [Gids -> Set]]
  BY <1>2, StartStore
<1>4. UNCHANGED <<paired, online, deviceVars>> /\ req' \in [Reqs -> Request \cup {Idle}] /\ Pending' = Pending \cup {r}
  BY <1>2 DEF Comes
<1>5. unsettled' \subseteq {"member", "source"} \X Gids \X Ports
  <2>1. Concerns(q) \subseteq {"member", "source"} \X Gids \X Ports
    BY <1>1, <1>2, ConcernsType DEF Starts
  <2>2. \A x \in Pending : Concerns(req[x]) \subseteq {"member", "source"} \X Gids \X Ports
    BY <1>1, ConcernsType DEF TInv, TypeOK, Pending
  <2>3. unsettled' \subseteq unsettled \cup Concerns(q) \cup UNION {Concerns(req[x]) : x \in Pending}
    BY <1>2 DEF Comes
  <2> QED
    BY <1>1, <2>1, <2>2, <2>3 DEF TypeOK
<1>6. TypeOK'
  BY <1>1, <1>3, <1>4, <1>5, LiveKept DEF TypeOK, GroupsKept, deviceVars
<1>7. ASSUME NEW x \in Pending' PROVE Whole(req[x])'
  <2>1. CASE x \in Pending
    <3>1. \A w : w = req'[x] => Twin(req[x], w)
      BY <1>2, <2>1 DEF Comes, Twin
    <3>2. \A w : w = req'[x] => Whole(w)'
      BY <1>3, <2>1, <3>1, WholeKept
    <3> QED
      BY <3>2
  <2>2. CASE x = r
    <3>1. PICK w : w = req'[r]
      OBVIOUS
    <3>2. /\ w.op = q.op /\ w.pc = q.pc /\ w.group = q.group /\ w.port = q.port /\ w.todo = q.todo /\ w.list = q.list
      BY <1>2, <3>1 DEF Comes, Twin
    <3>3. Gid(w)' = Gid(q)
      BY <1>3, <3>2 DEF Gid, GroupsKept, Request
    <3>4. Whole(w)'
      BY <1>2, <3>2, <3>3 DEF Starts, Whole, Form
    <3> QED
      BY <2>2, <3>1, <3>4
  <2> QED
    BY <1>4, <2>1, <2>2
<1> QED
  BY <1>3, <1>6, <1>7 DEF TInv

\* A new group has a number no live group has, and a key.
Creates(o, g, k) ==
  /\ groups[o] = NotMade /\ g \in Gids /\ k \in Gids
  /\ \A x \in Live : groups[x].id # g
  /\ groups' = [groups EXCEPT ![o] = NewGroup(g, k)]
  /\ sets' = sets \/ /\ sets[k] = NoSet
                     /\ \E v \in Set : v.key = o /\ (~OwnKeys => v.shared) /\ sets' = [sets EXCEPT ![k] = v]
  /\ sets'[k] # NoSet
  /\ ~OwnKeys => k = SharedSet
  /\ Save
  /\ UNCHANGED <<paired, online, deviceVars, req, unsettled, faults>>

LEMMA CreateCreates ==
  ASSUME TypeOK, NEW own \in BOOLEAN, Create(own)
  PROVE  \E o \in Objects, g, k \in Gids : Creates(o, g, k)
<1> DEFINE free == {x \in Objects : groups[x] = NotMade}
           ids == {groups[o].id : o \in Live}
<1>1. Gids \in SUBSET Nat /\ 0 \notin Gids /\ Objects \in SUBSET Nat /\ 0 \notin Objects /\ SharedSet \in Gids
      /\ OwnKeys \in BOOLEAN
  BY GroupsOK DEF Objects, SharedSet
<1>2. PICK o \in Objects : o = Lowest(free) /\ groups[o] = NotMade
  <2>1. free # {} /\ free \in SUBSET Nat
    BY <1>1 DEF Create
  <2>2. Lowest(free) \in free
    BY <2>1, LowestIn
  <2> QED
    BY <2>2
<1>3. PICK g \in Gids : g = FreeGid /\ \A x \in Live : groups[x].id # g
  <2>1. Gids \ ids # {} /\ Gids \ ids \in SUBSET Nat
    BY <1>1 DEF Create
  <2>2. Lowest(Gids \ ids) \in Gids \ ids
    BY <2>1, LowestIn
  <2> QED
    BY <2>2 DEF FreeGid
<1>4. PICK k \in Gids : k = (IF own THEN Lowest(FreeSets) ELSE SharedSet) /\ (own => sets[k] = NoSet)
  <2>1. CASE own
    <3>1. FreeSets # {} /\ FreeSets \in SUBSET Nat /\ \A x \in FreeSets : x \in Gids /\ sets[x] = NoSet
      BY <1>1, <2>1 DEF Create, FreeSets
    <3>2. Lowest(FreeSets) \in FreeSets
      BY <3>1, LowestIn
    <3> QED
      BY <2>1, <3>1, <3>2
  <2>2. CASE ~own
    BY <1>1, <2>2
  <2> QED
    BY <2>1, <2>2
<1>5. own => OwnKeys
  BY DEF Create
<1>6. /\ sets' = [sets EXCEPT ![k] = IF @ = NoSet THEN [key |-> o, shared |-> ~own] ELSE @]
      /\ groups' = [groups EXCEPT ![o] = NewGroup(g, k)]
      /\ Save /\ UNCHANGED <<paired, online, deviceVars, req, unsettled, faults>>
  BY <1>2, <1>3, <1>4 DEF Create
<1>7. sets \in [Gids -> Set]
  BY DEF TypeOK
<1>8. [key |-> o, shared |-> ~own] # NoSet
  BY <1>1 DEF NoSet
<1>9. CASE sets[k] # NoSet
  <2>1. sets' = sets
    BY <1>6, <1>7, <1>9
  <2> QED
    BY <1>2, <1>3, <1>4, <1>5, <1>6, <1>9, <2>1 DEF Creates
<1>10. CASE sets[k] = NoSet
  <2>1. sets' = [sets EXCEPT ![k] = [key |-> o, shared |-> ~own]]
    BY <1>6, <1>10
  <2>2. sets'[k] # NoSet
    BY <1>7, <1>8, <2>1
  <2>3. [key |-> o, shared |-> ~own] \in Set
    <3>1. o \in Keys
      BY GroupsOK DEF Objects, Keys
    <3> QED
      BY <3>1 DEF Set
  <2>4. PICK v \in Set : v = [key |-> o, shared |-> ~own]
    BY <2>3
  <2>5. v.key = o /\ (~OwnKeys => v.shared)
    BY <1>5, <2>4
  <2>6. \E u \in Set : u.key = o /\ (~OwnKeys => u.shared) /\ sets' = [sets EXCEPT ![k] = u]
    <3>1. sets' = [sets EXCEPT ![k] = v]
      BY <2>1, <2>4
    <3> QED
      BY <2>5, <3>1
  <2>7. ~OwnKeys => k = SharedSet
    BY <1>4, <1>5
  <2>8. Creates(o, g, k)
    BY <1>2, <1>3, <1>6, <1>10, <2>2, <2>6, <2>7 DEF Creates
  <2> QED
    BY <2>8
<1> QED
  BY <1>9, <1>10

LEMMA CreateTInv ==
  ASSUME TInv, NEW o \in Objects, NEW g \in Gids, NEW k \in Gids, Creates(o, g, k)
  PROVE  /\ TInv'
         /\ \A x \in Objects \ {o} : groups'[x] = groups[x]
         /\ \A x \in Pending : req[x].group # o
         /\ Live' = Live \cup {o} /\ o \notin Live /\ Listed(o)' = {}
<1>1. TypeOK /\ groups \in [Objects -> Group] /\ sets \in [Gids -> Set] /\ 0 \notin Gids /\ Objects \subseteq Nat \ {0}
  BY GroupsOK DEF TInv, TypeOK, Objects
<1>2. PICK w \in Group : /\ w = NewGroup(g, k) /\ w.id = g /\ w.ks = k /\ w.live
                         /\ \A p \in Members : w.members[p] = NoMember
  <2>1. PICK m \in [Members -> Status] : m = [p \in Members |-> NoMember]
    BY DEF Status
  <2>2. PICK w \in Group : w = [id |-> g, ks |-> k, live |-> TRUE, members |-> m]
    BY DEF Group
  <2>3. w = NewGroup(g, k)
    BY <2>1, <2>2 DEF NewGroup
  <2>4. w.id = g /\ w.ks = k /\ w.live /\ w.members = m
    BY <2>2
  <2> QED
    BY <2>1, <2>3, <2>4
<1>3. groups' = [groups EXCEPT ![o] = w]
  BY <1>2 DEF Creates
<1>4. /\ groups' \in [Objects -> Group] /\ groups'[o] = w
      /\ \A x \in Objects \ {o} : groups'[x] = groups[x]
  BY <1>1, <1>3
<1>5. groups[o].id = 0 /\ ~groups[o].live
  BY DEF Creates, NotMade
<1>6. Live' = Live \cup {o} /\ o \notin Live
  BY <1>2, <1>4, <1>5 DEF Live
<1>7. \A x \in Pending : req[x].group # o
  BY <1>5 DEF TInv, Whole, Gid
<1>8. sets' \in [Gids -> Set] /\ \A x \in Gids : sets'[x] = NoSet \/ sets'[x].key # 0
  <2>1. CASE sets' = sets
    BY <1>1, <2>1 DEF TInv
  <2>2. CASE \E v \in Set : v.key = o /\ sets' = [sets EXCEPT ![k] = v]
    BY <1>1, <2>2 DEF TInv
  <2> QED
    BY <2>1, <2>2 DEF Creates
<1>9. \A x \in Gids : sets[x] # NoSet => sets'[x] = sets[x]
  BY <1>1 DEF Creates
<1>10. sets'[k].key # 0
  BY <1>8 DEF Creates
<1>11. saved' \in [groups : [Objects -> Group], sets : [Gids -> Set]] /\ SavedAs'
  BY <1>4, <1>8 DEF Creates, Save, SavedAs
<1>12. ASSUME NEW x \in Live PROVE x \in Objects /\ groups'[x] = groups[x] /\ groups[x].id # g /\ groups[x].id # 0
                                   /\ groups[x].ks # 0 /\ sets'[groups[x].ks].key # 0
  <2>1. x \in Objects /\ x # o /\ groups[x].id # 0 /\ groups[x].ks # 0 /\ sets[groups[x].ks].key # 0
    BY <1>1, <1>6, <1>12 DEF TypeOK, Live
  <2>2. groups[x].ks \in Gids
    BY <1>1, <2>1 DEF Group
  <2>3. sets[groups[x].ks] # NoSet
    BY <2>1 DEF NoSet
  <2> QED
    BY <1>4, <1>9, <2>1, <2>2, <2>3 DEF Creates
<1>13. TypeOK'
  <2>1. \A x \in Live' : groups'[x].id # 0 /\ groups'[x].ks # 0 /\ sets'[groups'[x].ks].key # 0
    BY <1>1, <1>2, <1>4, <1>6, <1>10, <1>12
  <2>2. \A x, y \in Live' : groups'[x].id = groups'[y].id => x = y
    BY <1>1, <1>2, <1>4, <1>6, <1>12 DEF TypeOK
  <2> QED
    BY <1>1, <1>4, <1>8, <1>11, <2>1, <2>2 DEF TypeOK, Creates, deviceVars
<1>14. \A x \in Pending : Whole(req[x])'
  <2> SUFFICES ASSUME NEW x \in Pending PROVE Whole(req[x])'
    OBVIOUS
  <2>1. PICK q \in Request : q = req[x] /\ Whole(q) /\ q.group # o
    BY <1>7 DEF TInv, TypeOK, Pending
  <2>2. Gid(q)' = Gid(q)
    BY <1>4, <2>1 DEF Gid, Request
  <2>3. Whole(q)'
    BY <2>1, <2>2 DEF Whole, Form
  <2> QED
    BY <2>1, <2>3 DEF Creates
<1>15. Listed(o)' = {}
  BY <1>2, <1>4 DEF Listed
<1> QED
  BY <1>4, <1>6, <1>7, <1>8, <1>11, <1>13, <1>14, <1>15 DEF TInv, Creates, Pending

LEMMA CrashGroups ==
  ASSUME TInv, Crash
  PROVE  /\ TInv' /\ GroupsKept /\ Live' = Live /\ sets' = sets /\ Pending' = {}
         /\ groups' = saved.groups /\ UNCHANGED <<paired, online, deviceVars, saved>>
         /\ \A x \in Pending : Concerns(req[x]) \subseteq unsettled' /\ (req[x].op = "delete" => About(req[x], Members) \subseteq unsettled')
         /\ unsettled \subseteq unsettled'
<1>1. TypeOK /\ SavedAs
  BY DEF TInv
<1>2. /\ groups' = saved.groups /\ sets' = sets /\ UNCHANGED <<paired, online, deviceVars, saved>>
      /\ req' = [x \in Reqs |-> Idle]
  BY <1>1 DEF Crash, SavedAs
<1>3. groups' \in [Objects -> Group] /\ \A o \in Objects : groups[o].live \in BOOLEAN /\ groups'[o].live \in BOOLEAN
  BY <1>1, <1>2 DEF TypeOK, Group
<1>4. \A o \in Objects : /\ groups'[o].id = groups[o].id /\ groups'[o].ks = groups[o].ks
                         /\ groups'[o].live = groups[o].live
  BY <1>1, <1>2 DEF SavedAs
<1>5. GroupsKept /\ Live' = Live
  BY <1>3, <1>4 DEF GroupsKept, Live
<1>6. Pending' = {}
  BY <1>2 DEF Pending
<1> DEFINE A == UNION {Concerns(req[r]) : r \in Pending}
           B == UNION {About(req[r], Members) : r \in {x \in Pending : req[x].op = "delete"}}
<1>7. unsettled' = unsettled \cup A \cup B
  BY DEF Crash
<1>8. \A x \in Pending : /\ Concerns(req[x]) \subseteq unsettled'
                         /\ req[x].op = "delete" => About(req[x], Members) \subseteq unsettled'
  <2> TAKE x \in Pending
  <2>1. Concerns(req[x]) \subseteq A
    OBVIOUS
  <2>2. req[x].op = "delete" => About(req[x], Members) \subseteq B
    OBVIOUS
  <2> HIDE DEF A, B
  <2> QED
    BY <1>7, <2>1, <2>2
<1>9. unsettled' \subseteq {"member", "source"} \X Gids \X Ports
  <2>1. ASSUME NEW x \in Pending
        PROVE  /\ Concerns(req[x]) \subseteq {"member", "source"} \X Gids \X Ports
               /\ About(req[x], Members) \subseteq {"member", "source"} \X Gids \X Ports
    <3>1. PICK q \in Request : q = req[x] /\ Whole(q)
      BY <2>1 DEF TInv, TypeOK, Pending
    <3>2. Concerns(q) \subseteq {"member", "source"} \X Gids \X Ports
      BY <1>1, <3>1, ConcernsType
    <3>3. Gid(q) \in Gids
      BY <1>1, <3>1 DEF TypeOK, Gid, Whole, Request, Group
    <3>4. About(q, Members) \subseteq {"member", "source"} \X Gids \X Ports
      BY <3>3 DEF About, Kind, Ports
    <3> QED
      BY <3>1, <3>2, <3>4
  <2> DEFINE T == {"member", "source"} \X Gids \X Ports
  <2>2. \A x \in Pending : Concerns(req[x]) \subseteq T /\ About(req[x], Members) \subseteq T
    BY <2>1
  <2>3. unsettled \subseteq T
    BY <1>1 DEF TypeOK
  <2> HIDE DEF T
  <2>4. A \subseteq T
    BY <2>2
  <2>5. B \subseteq T
    BY <2>2
  <2> HIDE DEF A, B
  <2>6. unsettled' \subseteq T
    BY <1>7, <2>3, <2>4, <2>5
  <2> QED
    BY <2>6 DEF T
<1>10. TypeOK'
  <2>1. req' \in [Reqs -> Request \cup {Idle}]
    BY <1>2
  <2> QED
    BY <1>1, <1>2, <1>3, <1>5, <1>9, <2>1, LiveKept DEF TypeOK, deviceVars
<1>11. SavedAs'
  BY <1>1, <1>2, <1>4 DEF SavedAs
<1>12. unsettled \subseteq unsettled'
  BY <1>7
<1>13. TInv'
  BY <1>2, <1>6, <1>10, <1>11 DEF TInv
<1> QED
  BY <1>2, <1>5, <1>6, <1>8, <1>12, <1>13

LEMMA DevicesTInv ==
  ASSUME TInv, NEW n \in Nodes, GoOffline(n) \/ ComeOnline(n) \/ Unpair(n)
  PROVE  /\ TInv' /\ UNCHANGED <<deviceVars, storeVars, req, unsettled>> /\ paired' \subseteq paired
<1>1. UNCHANGED <<deviceVars, storeVars, req, unsettled>> /\ paired' \subseteq paired /\ online' \subseteq online \cup {n}
  BY DEF GoOffline, ComeOnline, Unpair
<1>2. TypeOK'
  BY <1>1 DEF TInv, TypeOK, deviceVars, storeVars, Live
<1>3. \A x \in Pending : Whole(req[x])'
  BY <1>1 DEF TInv, Whole, Form, Gid, storeVars
<1> QED
  BY <1>1, <1>2, <1>3 DEF TInv, SavedAs, storeVars, Pending

LEMMA InitTInv == Init => TInv
<1> SUFFICES ASSUME Init PROVE TInv
  OBVIOUS
<1>1. /\ 0 \notin Gids /\ SharedSet \in Gids /\ MaxObjects \in Nat /\ Made \in Nat /\ Made <= MaxObjects
      /\ 1 .. Made \subseteq Gids /\ Start \subseteq SUBSET ((1 .. Made) \X Members)
  BY GroupsOK DEF SharedSet
<1>2. 0 \in Keys /\ (Made > 0 => 1 \in Keys /\ 1 \in Gids) /\ 1 .. Made \subseteq Objects
      /\ \A o \in Objects : o <= Made <=> o \in 1 .. Made
  BY <1>1 DEF Keys, Objects
<1>3. PICK joined \in Start :
         LET here(n) == {x[1] : x \in {y \in joined : Node(y[2]) = n}}
         IN  /\ groups = InitGroups(joined)
             /\ keys = [n \in Nodes |-> [k \in Gids |-> IF k = SharedSet /\ here(n) # {} THEN 1 ELSE 0]]
             /\ keyMap = [n \in Nodes |-> [g \in Gids |-> IF g \in here(n) THEN SharedSet ELSE 0]]
             /\ table = [p \in Members |-> {o \in 1 .. Made : <<o, p>> \in joined}]
             /\ acl = [n \in Nodes |-> {x \in joined : Node(x[2]) = n}]
  BY DEF Init
<1>4. /\ paired = Nodes /\ online = Nodes /\ bound = [s \in Sources |-> {}]
      /\ saved = [groups |-> groups, sets |-> sets] /\ req = [r \in Reqs |-> Idle] /\ unsettled = {}
      /\ sets = [k \in Gids |-> IF k = SharedSet /\ Made > 0 THEN [key |-> 1, shared |-> TRUE] ELSE NoSet]
  BY DEF Init
<1>5. joined \subseteq (1 .. Made) \X Members
  BY <1>1, <1>3
<1>6. ASSUME NEW o \in Objects
      PROVE  /\ groups[o] \in Group
             /\ o \notin 1 .. Made => groups[o].id = 0 /\ ~groups[o].live
             /\ o \in 1 .. Made => /\ groups[o].id = o /\ groups[o].ks = SharedSet /\ groups[o].live
                                   /\ \A p \in Members : groups[o].members[p] = IF <<o, p>> \in joined THEN "ok" ELSE NoMember
  <2>1. groups[o] = InitGroups(joined)[o]
    BY <1>3
  <2>2. CASE o \notin 1 .. Made
    <3>1. groups[o] = NotMade
      BY <1>1, <1>2, <2>1, <2>2 DEF InitGroups, Objects
    <3>2. PICK m \in [Members -> Status] : m = [p \in Members |-> NoMember]
      BY DEF Status
    <3>3. groups[o] = [id |-> 0, ks |-> 0, live |-> FALSE, members |-> m]
      BY <3>1, <3>2 DEF NotMade
    <3> QED
      BY <2>2, <3>3 DEF Group
  <2>3. CASE o \in 1 .. Made
    <3>1. PICK m \in [Members -> Status] : m = [p \in Members |-> IF <<o, p>> \in joined THEN "ok" ELSE NoMember]
      BY DEF Status
    <3>2. groups[o] = [NewGroup(o, SharedSet) EXCEPT !.members = m]
      BY <1>1, <1>2, <2>1, <2>3, <3>1 DEF InitGroups, Objects
    <3>3. groups[o] = [id |-> o, ks |-> SharedSet, live |-> TRUE, members |-> m]
      BY <3>2 DEF NewGroup
    <3> QED
      BY <1>1, <2>3, <3>1, <3>3 DEF Group
  <2> QED
    BY <2>2, <2>3
<1>7. groups \in [Objects -> Group]
  <2>1. groups = [o \in Objects |-> groups[o]]
    BY <1>3 DEF InitGroups
  <2> QED
    BY <1>6, <2>1
<1>8. sets \in [Gids -> Set] /\ \A k \in Gids : sets[k] = NoSet \/ sets[k].key # 0
  <2>1. [key |-> 1, shared |-> TRUE] \in Set \/ ~(Made > 0)
    BY <1>2 DEF Set
  <2>2. NoSet \in Set
    BY <1>2 DEF NoSet, Set
  <2> QED
    BY <1>4, <2>1, <2>2
<1>9. Made > 0 => sets[SharedSet].key = 1
  BY <1>1, <1>4
<1>10. keys \in [Nodes -> [Gids -> Keys]]
  <2> DEFINE here(n) == {x[1] : x \in {y \in joined : Node(y[2]) = n}}
  <2>1. \A n : here(n) # {} => Made > 0
    BY <1>1, <1>5
  <2>2. keys = [n \in Nodes |-> [k \in Gids |-> IF k = SharedSet /\ here(n) # {} THEN 1 ELSE 0]]
    BY <1>3
  <2> HIDE DEF here
  <2> QED
    BY <1>2, <2>1, <2>2
<1>11. keyMap \in [Nodes -> Maps]
  <2> DEFINE here(n) == {x[1] : x \in {y \in joined : Node(y[2]) = n}}
  <2>1. keyMap = [n \in Nodes |-> [g \in Gids |-> IF g \in here(n) THEN SharedSet ELSE 0]]
    BY <1>3
  <2> HIDE DEF here
  <2> QED
    BY <1>1, <2>1 DEF Maps
<1>12. table \in [Members -> SUBSET Gids]
  <2>1. \A p \in Members : {o \in 1 .. Made : <<o, p>> \in joined} \in SUBSET Gids
    BY <1>1
  <2> QED
    BY <1>3, <2>1
<1>13. acl \in [Nodes -> SUBSET (Gids \X Members)]
  <2>1. \A n : {x \in joined : Node(x[2]) = n} \in SUBSET (Gids \X Members)
    BY <1>1, <1>5
  <2> QED
    BY <1>3, <2>1
<1>14. bound \in [Sources -> SUBSET Gids] /\ saved \in [groups : [Objects -> Group], sets : [Gids -> Set]]
       /\ req \in [Reqs -> Request \cup {Idle}]
  BY <1>4, <1>7, <1>8
<1>15. \A o \in Live : o \in 1 .. Made /\ o \in Objects
  BY <1>6 DEF Live
<1>16. \A o \in Live : groups[o].id # 0 /\ groups[o].ks # 0 /\ sets[groups[o].ks].key # 0
  <2> TAKE o \in Live
  <2>1. groups[o].id = o /\ groups[o].ks = SharedSet /\ Made > 0 /\ o # 0
    BY <1>1, <1>6, <1>15
  <2> QED
    BY <1>1, <1>9, <2>1
<1>17. \A o, x \in Live : groups[o].id = groups[x].id => o = x
  BY <1>6, <1>15
<1>18. TypeOK
  BY <1>4, <1>7, <1>8, <1>10, <1>11, <1>12, <1>13, <1>14, <1>16, <1>17 DEF TypeOK
<1>19. Pending = {} /\ SavedAs
  BY <1>4 DEF Pending, SavedAs
<1> QED
  BY <1>8, <1>18, <1>19 DEF TInv

\* The step of everything, by what it does.
LEMMA NextIs ==
  ASSUME Next
  PROVE  \/ \E own \in BOOLEAN : Create(own)
         \/ \E r \in Reqs, o \in Objects : Arrivals(r, o)
         \/ \E r \in Reqs : RequestStep(r)
         \/ \E n \in Nodes : GoOffline(n) \/ ComeOnline(n) \/ Unpair(n)
         \/ Crash
BY DEF Next, Arrivals

LEMMA NextTInv == TInv /\ [Next]_vars => TInv'
<1> SUFFICES ASSUME TInv, [Next]_vars PROVE TInv'
  OBVIOUS
<1>1. CASE UNCHANGED vars
  <2>1. TypeOK' /\ SavedAs'
    BY <1>1 DEF vars, deviceVars, storeVars, TInv, TypeOK, Live, SavedAs
  <2>2. \A x \in Pending : Whole(req[x])'
    BY <1>1 DEF vars, storeVars, TInv, Whole, Form, Gid
  <2> QED
    BY <1>1, <2>1, <2>2 DEF vars, storeVars, TInv, Pending
<1>2. ASSUME NEW own \in BOOLEAN, Create(own) PROVE TInv'
  BY <1>2, CreateCreates, CreateTInv DEF TInv
<1>3. CASE Crash
  BY <1>3, CrashGroups
<1> QED
  BY <1>1, <1>2, <1>3, NextIs, ArrivalsTInv, StepTInv, DevicesTInv

\* Whatever requests meet, devices fail and answers are lost: the lists of the
\* devices and the store keep their types, each live group has a number of its
\* own, and the key set a live group uses is there.
THEOREM TypeCorrect == Spec => []TypeOK
<1>1. Init => TInv
  BY InitTInv
<1>2. TInv /\ [Next]_vars => TInv'
  BY NextTInv
<1>3. TInv => TypeOK
  BY DEF TInv
<1> QED
  BY <1>1, <1>2, <1>3, PTL DEF Spec

-----------------------------------------------------------------------------
(* Privacy: a request that is alone has its devices, and the group it       *)
(* deletes, for itself                                                      *)

Private ==
  /\ \A r, x \in Pending : r # x /\ Meets(req[r], req[x]) => ~req[r].alone
  /\ \A r \in Pending : ~req[r].alone => Concerns(req[r]) \subseteq unsettled

\* The requests after a step of one of them.
Moves(r, q) ==
  /\ GroupsKept /\ Pending' \subseteq Pending
  /\ \A x \in Pending \ {r} : x \in Pending' /\ req'[x] = req[x]
  /\ r \in Pending' => \E p \in Request : /\ p = req'[r]
                                          /\ p.op = q.op /\ p.group = q.group /\ p.alone = q.alone
                                          /\ PortsOf(p) \subseteq PortsOf(q)
  /\ unsettled' \subseteq unsettled \cup Concerns(q)
  /\ unsettled \subseteq unsettled' \cup Concerns(q)
  /\ unsettled \subseteq unsettled' \cup About(q, {q.port})
  /\ ~q.alone => unsettled \subseteq unsettled'

LEMMA StepIsMove ==
  ASSUME TInv, NEW r \in Pending, NEW q \in Request, Whole(q),
         Act(r, q) \/ Picks(r, q) \/ Deletes(r, q)
  PROVE  Moves(r, q)
<1>1. PICK p \in Request \cup {Idle} :
         /\ req' = [req EXCEPT ![r] = p]
         /\ p # Idle => /\ p.op = q.op /\ p.group = q.group /\ p.alone = q.alone
                        /\ PortsOf(p) \subseteq PortsOf(q)
  BY StepMoves
<1>2. r \in Reqs /\ req \in [Reqs -> Request \cup {Idle}] /\ Idle \notin Request
  BY GroupsOK DEF TInv, TypeOK, Pending
<1>3. req'[r] = p /\ \A x \in Reqs \ {r} : req'[x] = req[x]
  BY <1>1, <1>2
<1>4. Pending' \subseteq Pending /\ \A x \in Pending \ {r} : x \in Pending' /\ req'[x] = req[x]
  BY <1>2, <1>3 DEF Pending
<1>5. r \in Pending' => p \in Request /\ p # Idle
  BY <1>2, <1>3 DEF Pending
<1>6. r \in Pending' => \E w \in Request : /\ w = req'[r]
                                           /\ w.op = q.op /\ w.group = q.group /\ w.alone = q.alone
                                           /\ PortsOf(w) \subseteq PortsOf(q)
  BY <1>1, <1>3, <1>5
<1>7. /\ GroupsKept /\ unsettled' \subseteq unsettled \cup Concerns(q)
      /\ unsettled \subseteq unsettled' \cup Concerns(q)
      /\ unsettled \subseteq unsettled' \cup About(q, {q.port})
      /\ ~q.alone => unsettled \subseteq unsettled'
  BY StepMoves
<1> QED
  BY <1>4, <1>6, <1>7 DEF Moves

\* A request is about the same while its group keeps its number.
LEMMA SameGroup ==
  ASSUME GroupsKept, NEW q \in Request
  PROVE  /\ Gid(q)' = Gid(q) /\ KeySet(q)' = KeySet(q) /\ Grantee(q)' = Grantee(q) /\ Concerns(q)' = Concerns(q)
         /\ \A P : About(q, P)' = About(q, P)
<1>1. Gid(q)' = Gid(q) /\ KeySet(q)' = KeySet(q)
  BY DEF GroupsKept, Gid, KeySet, Request
<1> QED
  BY <1>1 DEF Grantee, Concerns, About

LEMMA MeetsFewer ==
  ASSUME NEW p, NEW q, NEW x, p.op = q.op, p.group = q.group, PortsOf(p) \subseteq PortsOf(q)
  PROVE  (Meets(p, x) => Meets(q, x)) /\ (Meets(x, p) => Meets(x, q))
BY DEF Meets, NodesOf

LEMMA MeetsBack ==
  ASSUME NEW p, NEW q
  PROVE  Meets(p, q) => Meets(q, p)
BY DEF Meets

\* Requests that are about the same meet.
LEMMA ShareMeets ==
  ASSUME NEW p, NEW q, Concerns(p) \cap Concerns(q) # {}
  PROVE  Meets(p, q)
<1>1. PICK c : c \in Concerns(p) /\ c \in Concerns(q)
  OBVIOUS
<1>2. PICK a \in PortsOf(p) : c = <<Kind(p), Gid(p), a>>
  BY <1>1 DEF Concerns, About
<1>3. PICK b \in PortsOf(q) : c = <<Kind(q), Gid(q), b>>
  BY <1>1 DEF Concerns, About
<1>4. a = b
  BY <1>2, <1>3
<1> QED
  BY <1>4 DEF Meets, NodesOf

LEMMA FewerConcerns ==
  ASSUME NEW p, NEW q, p.op = q.op, p.group = q.group, PortsOf(p) \subseteq PortsOf(q)
  PROVE  Concerns(p) \subseteq Concerns(q)
BY DEF Concerns, About, Kind, Gid

LEMMA MoveView ==
  ASSUME TInv, NEW r \in Pending, NEW q \in Request, q = req[r], Moves(r, q), NEW x \in Pending'
  PROVE  /\ x \in Pending
         /\ \E w, p \in Request :
              /\ w = req[x] /\ p = req'[x] /\ p.op = w.op /\ p.group = w.group /\ p.alone = w.alone
              /\ PortsOf(p) \subseteq PortsOf(w) /\ Concerns(p)' \subseteq Concerns(w)
              /\ Gid(p)' = Gid(w) /\ Gid(w)' = Gid(w) /\ (x = r => w = q) /\ (x # r => p = w)
<1>1. x \in Pending /\ GroupsKept
  BY DEF Moves
<1>2. req[x] \in Request
  BY <1>1 DEF TInv, TypeOK, Pending
<1>3. PICK w \in Request : w = req[x] /\ (x = r => w = q)
  BY <1>2
<1>4. PICK p \in Request : /\ p = req'[x] /\ p.op = w.op /\ p.group = w.group /\ p.alone = w.alone
                           /\ PortsOf(p) \subseteq PortsOf(w) /\ (x # r => p = w)
  <2>1. CASE x = r
    BY <1>3, <2>1 DEF Moves
  <2>2. CASE x # r
    <3>1. req'[x] = req[x]
      BY <1>1, <2>2 DEF Moves
    <3> QED
      BY <1>3, <2>2, <3>1
  <2> QED
    BY <2>1, <2>2
<1>5. Concerns(p)' \subseteq Concerns(w)
  BY <1>1, <1>4, FewerConcerns, SameGroup
<1>6. Gid(p) = Gid(w) /\ Gid(p)' = Gid(p) /\ Gid(w)' = Gid(w)
  <2>1. Gid(p) = Gid(w)
    BY <1>4 DEF Gid
  <2> QED
    BY <1>1, <2>1, SameGroup
<1> QED
  BY <1>1, <1>3, <1>4, <1>5, <1>6

LEMMA PrivateStep ==
  ASSUME TInv, Private, NEW r \in Pending, NEW q \in Request, q = req[r], Moves(r, q)
  PROVE  Private'
<1>1. req \in [Reqs -> Request \cup {Idle}] /\ \A x \in Pending : req[x] \in Request
  BY DEF TInv, TypeOK, Pending
<1>2. \A x \in Pending' : \E w, p \in Request :
          /\ w = req[x] /\ p = req'[x] /\ p.op = w.op /\ p.group = w.group /\ p.alone = w.alone
          /\ PortsOf(p) \subseteq PortsOf(w)
  BY MoveView
<1>3. ASSUME NEW x \in Pending', NEW y \in Pending', x # y, Meets(req'[x], req'[y]) PROVE ~req'[x].alone
  <2>1. PICK w, p \in Request : /\ w = req[x] /\ p = req'[x] /\ p.op = w.op /\ p.group = w.group /\ p.alone = w.alone
                                /\ PortsOf(p) \subseteq PortsOf(w)
    BY <1>2
  <2>2. PICK v, u \in Request : /\ v = req[y] /\ u = req'[y] /\ u.op = v.op /\ u.group = v.group /\ u.alone = v.alone
                                /\ PortsOf(u) \subseteq PortsOf(v)
    BY <1>2
  <2>3. Meets(w, u)
    BY <1>3, <2>1, <2>2, MeetsFewer
  <2>4. Meets(w, v)
    BY <2>2, <2>3, MeetsFewer
  <2>5. x \in Pending /\ y \in Pending
    BY <1>3 DEF Moves
  <2> QED
    BY <1>3, <2>1, <2>2, <2>4, <2>5 DEF Private
<1>4. ASSUME NEW x \in Pending', ~req'[x].alone PROVE Concerns(req[x])' \subseteq unsettled'
  <2>1. PICK w, p \in Request : /\ w = req[x] /\ p = req'[x] /\ p.op = w.op /\ p.group = w.group /\ p.alone = w.alone
                                /\ PortsOf(p) \subseteq PortsOf(w)
    BY <1>2
  <2>2. x \in Pending /\ GroupsKept
    BY <1>4 DEF Moves
  <2>3. Concerns(p)' \subseteq Concerns(w)
    BY <2>1, <2>2, FewerConcerns, SameGroup
  <2>4. Concerns(w) \subseteq unsettled
    BY <1>4, <2>1, <2>2 DEF Private
  <2>5. CASE x = r
    BY <1>4, <2>1, <2>3, <2>4, <2>5 DEF Moves
  <2>6. CASE x # r
    <3>1. CASE q.alone
      <4>1. ~Meets(q, w)
        BY <2>1, <2>2, <2>6, <3>1 DEF Private
      <4>2. Concerns(q) \cap Concerns(w) = {}
        BY <4>1, ShareMeets
      <4> QED
        BY <2>1, <2>3, <2>4, <4>2 DEF Moves
    <3>2. CASE ~q.alone
      BY <2>1, <2>3, <2>4, <3>2 DEF Moves
    <3> QED
      BY <3>1, <3>2
  <2> QED
    BY <2>5, <2>6
<1> QED
  BY <1>3, <1>4 DEF Private, Meets, NodesOf, PortsOf

\* What comes leaves those it does not meet as they were, and all with their concerns.
LEMMA ComesView ==
  ASSUME TInv, GroupsKept, NEW r \in Reqs, NEW q \in Request, Comes(r, q), NEW x \in Pending'
  PROVE  \E w, p \in Request :
           /\ p = req'[x] /\ Twin(w, p) /\ Concerns(p)' = Concerns(w) /\ Gid(p)' = Gid(w) /\ Grantee(p)' = Grantee(w)
           /\ x = r => w = q
           /\ x # r => x \in Pending /\ w = req[x] /\ (p.alone => p = w /\ ~Meets(q, w))
<1>1. req'[x] \in Request
  BY DEF Comes, Pending
<1>2. PICK p \in Request : p = req'[x]
  BY <1>1
<1>3. ASSUME NEW w \in Request, Twin(w, p) PROVE Concerns(p)' = Concerns(w) /\ Gid(p)' = Gid(w) /\ Grantee(p)' = Grantee(w)
  <2>1. Concerns(p) = Concerns(w) /\ Gid(p) = Gid(w) /\ Grantee(p) = Grantee(w)
    BY <1>3 DEF Twin, Concerns, About, Gid, Grantee, Kind, PortsOf
  <2> QED
    BY <2>1, SameGroup
<1>4. CASE x = r
  <2>1. Twin(q, p)
    BY <1>2, <1>4 DEF Comes
  <2> QED
    BY <1>2, <1>3, <1>4, <2>1
<1>5. CASE x # r
  <2>1. x \in Pending /\ req[x] \in Request
    BY <1>5 DEF Comes, TInv, TypeOK, Pending
  <2>2. PICK w \in Request : w = req[x]
    BY <2>1
  <2>3. Twin(w, p) /\ (p.alone => p = w /\ ~Meets(q, w))
    BY <1>2, <2>1, <2>2 DEF Comes
  <2> QED
    BY <1>2, <1>3, <1>5, <2>1, <2>2, <2>3
<1> QED
  BY <1>4, <1>5

LEMMA PrivateComes ==
  ASSUME TInv, Private, GroupsKept, NEW r \in Reqs, NEW q \in Request, Comes(r, q)
  PROVE  Private'
<1>1. r \notin Pending /\ unsettled \subseteq unsettled' /\ (~req'[r].alone => Concerns(q) \subseteq unsettled')
  BY DEF Comes
<1>2. ASSUME NEW x \in Pending', NEW y \in Pending', x # y, Meets(req'[x], req'[y]) PROVE ~req'[x].alone
  <2>1. PICK w, p \in Request :
           /\ p = req'[x] /\ Twin(w, p) /\ (x = r => w = q)
           /\ x # r => x \in Pending /\ w = req[x] /\ (p.alone => p = w /\ ~Meets(q, w))
    BY ComesView
  <2>2. PICK v, u \in Request :
           /\ u = req'[y] /\ Twin(v, u) /\ (y = r => v = q)
           /\ y # r => y \in Pending /\ v = req[y] /\ (u.alone => u = v /\ ~Meets(q, v))
    BY ComesView
  <2>3. Meets(w, v)
    BY <1>2, <2>1, <2>2 DEF Meets, NodesOf, PortsOf, Twin
  <2>4. CASE x = r
    BY <1>2, <2>1, <2>2, <2>3, <2>4 DEF Comes
  <2>5. CASE y = r
    <3>1. Meets(q, w)
      BY <2>2, <2>3, <2>5, MeetsBack
    <3> QED
      BY <1>2, <2>1, <2>5, <3>1
  <2>6. CASE x # r /\ y # r
    BY <1>2, <2>1, <2>2, <2>3, <2>6 DEF Private, Twin
  <2> QED
    BY <2>4, <2>5, <2>6
<1>3. ASSUME NEW x \in Pending', ~req'[x].alone PROVE Concerns(req[x])' \subseteq unsettled'
  <2>1. PICK w, p \in Request :
           /\ p = req'[x] /\ Twin(w, p) /\ Concerns(p)' = Concerns(w) /\ (x = r => w = q)
           /\ x # r => x \in Pending /\ w = req[x]
    BY ComesView
  <2>2. CASE x = r
    BY <1>1, <1>3, <2>1, <2>2
  <2>3. CASE x # r
    <3>1. CASE Meets(q, w)
      BY <2>1, <2>3, <3>1 DEF Comes
    <3>2. CASE ~Meets(q, w)
      <4>1. req'[x] = req[x]
        BY <2>1, <2>3, <3>2 DEF Comes
      <4> QED
        BY <1>1, <1>3, <2>1, <2>3, <4>1 DEF Private
    <3> QED
      BY <3>1, <3>2
  <2> QED
    BY <2>2, <2>3
<1> QED
  BY <1>2, <1>3 DEF Private, Meets, NodesOf, PortsOf

-----------------------------------------------------------------------------
(* Tables, grants and members *)

\* Who is alone changes a group that is there.
AloneLive == \A r \in Pending : req[r].alone /\ OfMember(req[r]) => req[r].group \in Live

\* What would be read back differs where a deletion has taken members off.
SavedMembers ==
  \A o \in Objects, p \in Members :
    \/ saved.groups[o].members[p] = groups[o].members[p]
    \/ \E r \in Pending : req[r].op = "delete" /\ req[r].group = o

\* A deletion has its members before it, or has told of them.
DeleteLeft ==
  \A r \in Pending : req[r].op = "delete" /\ req[r].group \in Live =>
    \A p \in Listed(req[r].group) : p \in req[r].todo \/ <<"member", Gid(req[r]), p>> \in unsettled

\* What is being removed is not listed.
Unlisted ==
  \A r \in Pending : req[r].alone /\ req[r].op \in {"remove", "delete"} => req[r].port \notin Listed(req[r].group)

Own == \A r \in Pending : req[r].alone => OwnLists(req[r])

\* A list of grants about to be written is the device's, the grants in doubt
\* and its own aside.
AclAgree ==
  \A r \in Pending : req[r].pc \in {"grant", "revoke"} =>
    \A g \in Gids, p \in Members :
      Node(p) = Node(req[r].port) /\ <<"member", g, p>> \notin unsettled /\ <<g, p>> # Grantee(req[r]) =>
        (<<g, p>> \in req[r].acl <=> <<g, p>> \in acl[Node(p)])

Usable(o, p) == groups[o].members[p] = "ok" /\ Settled("member", groups[o].id, p)

\* A member that is settled is in the lists of its device.
ListsKept == \A o \in Live, p \in Members :
  Usable(o, p) => groups[o].id \in table[p] /\ <<groups[o].id, p>> \in acl[Node(p)]

ListsInv ==
  /\ TInv /\ Private /\ AloneLive /\ SavedMembers /\ DeleteLeft /\ Unlisted
  /\ Own /\ AclAgree /\ ListsKept /\ NothingLeft

-----------------------------------------------------------------------------
(* What a step does to members and lists *)

LEMMA StepMembers ==
  ASSUME TInv, NEW r \in Pending, NEW q \in Request, q = req[r], Whole(q),
         Act(r, q) \/ Picks(r, q) \/ Deletes(r, q),
         NEW o \in Objects, NEW p \in Members
  PROVE  \/ groups'[o].members[p] = groups[o].members[p]
         \/ q.op = "add" /\ q.pc # "next" /\ o = q.group /\ p = q.port /\ groups'[o].members[p] \in {"ok", "error"} /\ Save
         \/ /\ q.op = "delete" /\ q.pc = "next" /\ o = q.group /\ p \in q.todo /\ groups'[o].members[p] = NoMember
            /\ r \in Pending' /\ req'[r].port = p
<1>1. TypeOK /\ q.group \in Objects /\ r \in Reqs /\ Idle \notin Request /\ req \in [Reqs -> Request \cup {Idle}]
  BY GroupsOK DEF TInv, TypeOK, Request, Pending
<1>2. CASE Act(r, q)
  <2>1. CASE UNCHANGED storeVars
    BY <2>1 DEF storeVars
  <2>2. CASE q.op = "add" /\ Save /\ \E s \in {"ok", "error"} : SetStatus(q.group, q.port, s)
    <3>1. q.port \in Members
      BY <1>1, <1>2, <2>2, PortType DEF Act, OfMember
    <3>2. PICK s \in Status : s \in {"ok", "error"} /\ SetStatus(q.group, q.port, s)
      BY <2>2 DEF Status
    <3> QED
      BY <1>1, <1>2, <2>2, <3>1, <3>2, StatusSet DEF Act
  <2> QED
    BY <1>2, <2>1, <2>2 DEF Act, StoreEffect
<1>3. CASE Picks(r, q)
  <2>1. CASE UNCHANGED groups
    BY <2>1
  <2>2. CASE \E m \in q.todo, w \in Request :
               /\ req' = [req EXCEPT ![r] = w] /\ w.port = m /\ SetStatus(q.group, m, NoMember)
    <3>1. PICK m \in q.todo, w \in Request :
               req' = [req EXCEPT ![r] = w] /\ w.port = m /\ SetStatus(q.group, m, NoMember)
      BY <2>2
    <3>2. m \in Members
      BY DEF Request
    <3>3. r \in Pending' /\ req'[r] = w
      BY <1>1, <3>1 DEF Pending
    <3>4. NoMember \in Status
      BY DEF Status
    <3> QED
      BY <1>1, <1>3, <3>1, <3>2, <3>3, <3>4, StatusSet DEF Picks
  <2> QED
    BY <1>3, <2>1, <2>2 DEF Picks
<1>4. CASE Deletes(r, q)
  BY <1>1, <1>4, DeletesGroups
<1> QED
  BY <1>2, <1>3, <1>4

LEMMA Elsewhere ==
  ASSUME TypeOK, NEW r, NEW q \in Request, Whole(q), Act(r, q) \/ Picks(r, q) \/ Deletes(r, q)
  PROVE  /\ \A n \in Nodes : n # Node(q.port) \/ q.pc = "next" =>
              keys'[n] = keys[n] /\ keyMap'[n] = keyMap[n] /\ acl'[n] = acl[n]
         /\ \A p \in Members : p # q.port \/ q.pc = "next" => table'[p] = table[p]
         /\ \A s \in Sources : s # q.port \/ q.pc = "next" => bound'[s] = bound[s]
<1>1. CASE UNCHANGED deviceVars
  BY <1>1 DEF deviceVars
<1>2. CASE q.pc # "next" /\ DevEffect(q)
  BY <1>2 DEF DevEffect, TypeOK, SetKey, SetMap, SetAcl, SetBound, deviceVars
<1> QED
  BY <1>1, <1>2 DEF Act, Picks, Deletes

\* Tables and grants change for the endpoint the request is about, and
\* where that is in doubt.
LEMMA OtherLists ==
  ASSUME TInv, AclAgree, NEW r \in Pending, NEW q \in Request, q = req[r], Whole(q),
         Act(r, q) \/ Picks(r, q) \/ Deletes(r, q),
         NEW g \in Gids, NEW p \in Members,
         <<"member", g, p>> \notin unsettled,
         ~OfMember(q) \/ <<g, p>> # Grantee(q)
  PROVE  /\ g \in table'[p] <=> g \in table[p]
         /\ <<g, p>> \in acl'[Node(p)] <=> <<g, p>> \in acl[Node(p)]
<1>1. TypeOK /\ Node(p) \in Nodes
  BY DEF TInv, Nodes, Ports
<1>2. CASE UNCHANGED deviceVars
  BY <1>2 DEF deviceVars
<1>3. CASE q.pc # "next" /\ DevEffect(q)
  <2>1. q.pc \in {"join", "leave", "grant", "revoke"} => OfMember(q)
    BY DEF Whole, Form, Providing, Dropping, OfMember, Request
  <2>2. q.port \in Ports /\ Node(q.port) \in Nodes
    BY <1>1, <1>3, PortType
  <2>3. g \in table'[p] <=> g \in table[p]
    <3>1. CASE UNCHANGED table
      BY <3>1
    <3>2. CASE /\ q.pc \in {"join", "leave"}
               /\ table' = [table EXCEPT ![q.port] = IF q.pc = "join" THEN @ \cup {Gid(q)} ELSE @ \ {Gid(q)}]
      <4>1. p # q.port \/ g # Gid(q)
        BY <2>1, <3>2 DEF Grantee
      <4> QED
        BY <1>1, <3>2, <4>1 DEF TypeOK
    <3> QED
      BY <1>3, <3>1, <3>2 DEF DevEffect, deviceVars
  <2>4. <<g, p>> \in acl'[Node(p)] <=> <<g, p>> \in acl[Node(p)]
    <3>1. CASE UNCHANGED acl
      BY <3>1
    <3>2. CASE /\ q.pc \in {"grant", "revoke"}
               /\ SetAcl(q, IF q.pc = "grant" THEN q.acl \cup {Grantee(q)} ELSE q.acl \ {Grantee(q)})
      <4>1. CASE Node(p) # Node(q.port)
        BY <1>1, <2>2, <3>2, <4>1 DEF SetAcl, TypeOK
      <4>2. CASE Node(p) = Node(q.port)
        <5>1. <<g, p>> # Grantee(q)
          BY <2>1, <3>2
        <5>2. <<g, p>> \in q.acl <=> <<g, p>> \in acl[Node(p)]
          BY <3>2, <4>2, <5>1 DEF AclAgree
        <5> QED
          BY <1>1, <2>2, <3>2, <4>2, <5>1, <5>2 DEF SetAcl, TypeOK
      <4> QED
        BY <4>1, <4>2
    <3> QED
      BY <1>3, <3>1, <3>2 DEF DevEffect, deviceVars
  <2> QED
    BY <2>3, <2>4
<1> QED
  BY <1>2, <1>3 DEF Act, Picks, Deletes

\* What a request that is still there has become.
Becomes(r, q, p) ==
  /\ p.op = q.op /\ p.group = q.group /\ p.alone = q.alone
  /\ \/ GoesOn(r, q, p)
     \/ q.op = "delete" /\ p.pc = "next" /\ p.port = NoPort /\ p.todo = q.todo
     \/ /\ q.op = "delete"
        /\ \E m \in q.todo :
             /\ p.todo = q.todo \ {m}
             /\ \/ p.port = m /\ p.pc = "leave" /\ groups'[q.group].members[m] = NoMember
                \/ p.port = NoPort /\ p.pc = "next" /\ About(q, {m}) \subseteq unsettled'

LEMMA StepNext ==
  ASSUME TInv, NEW r \in Pending, NEW q \in Request, q = req[r], Whole(q),
         Act(r, q) \/ Picks(r, q) \/ Deletes(r, q), r \in Pending'
  PROVE  \E p \in Request : p = req'[r] /\ Becomes(r, q, p)
<1>1. TypeOK /\ q.group \in Objects /\ r \in Reqs /\ Idle \notin Request /\ req \in [Reqs -> Request \cup {Idle}] /\ req'[r] # Idle
  BY GroupsOK DEF TInv, TypeOK, Request, Pending
<1>2. CASE Act(r, q)
  <2>1. CASE Ends(r, q)
    <3>1. PICK p \in Request \cup {Idle} :
             /\ req' = [req EXCEPT ![r] = p]
             /\ q.op # "delete" => p = Idle
             /\ q.op = "delete" => /\ p \in Request /\ p.op = "delete" /\ p.group = q.group /\ p.alone = q.alone
                                   /\ p.todo = q.todo /\ p.port = NoPort /\ p.pc = "next"
      BY <2>1 DEF Ends
    <3>2. req'[r] = p
      BY <1>1, <3>1
    <3> QED
      BY <1>1, <3>1, <3>2 DEF Becomes
  <2>2. CASE \E p \in Request : GoesOn(r, q, p)
    <3>1. PICK p \in Request : GoesOn(r, q, p)
      BY <2>2
    <3>2. req'[r] = p
      BY <1>1, <3>1 DEF GoesOn
    <3> QED
      BY <3>1, <3>2 DEF GoesOn, Alike, Becomes
  <2> QED
    BY <1>2, <2>1, <2>2 DEF Act
<1>3. CASE Picks(r, q)
  <2>1. PICK m \in q.todo, p \in Request :
       /\ req' = [req EXCEPT ![r] = p]
       /\ p.op = q.op /\ p.group = q.group /\ p.alone = q.alone /\ p.todo = q.todo \ {m}
       /\ \/ p.port = m /\ p.pc = "leave" /\ SetStatus(q.group, m, NoMember)
          \/ p.port = NoPort /\ p.pc = "next" /\ unsettled' = unsettled \cup About(q, {m})
    BY <1>3 DEF Picks
  <2>2. req'[r] = p
    BY <1>1, <2>1
  <2>3. m \in Members /\ NoMember \in Status
    BY DEF Request, Status
  <2>4. p.pc = "leave" => groups'[q.group].members[m] = NoMember
    BY <1>1, <2>1, <2>3, StatusSet
  <2> QED
    BY <1>3, <2>1, <2>2, <2>4 DEF Picks, Becomes
<1>4. CASE Deletes(r, q)
  BY <1>1, <1>4 DEF Deletes
<1> QED
  BY <1>2, <1>3, <1>4

LEMMA LiveAfter ==
  ASSUME TInv, NEW r \in Pending, NEW q \in Request, q = req[r], Whole(q),
         Act(r, q) \/ Picks(r, q) \/ Deletes(r, q)
  PROVE  Live' \subseteq Live /\ (Live' = Live \/ (Deletes(r, q) /\ r \notin Pending' /\ Live' = Live \ {q.group}))
<1>1. TypeOK /\ r \in Reqs /\ req \in [Reqs -> Request \cup {Idle}]
  BY DEF TInv, TypeOK, Pending
<1>2. CASE Act(r, q)
  BY <1>1, <1>2, ActGroups DEF Act
<1>3. CASE Picks(r, q)
  BY <1>1, <1>3, PicksGroups
<1>4. CASE Deletes(r, q)
  <2>1. r \notin Pending'
    BY <1>1, <1>4 DEF Deletes, Pending
  <2> QED
    BY <1>1, <1>4, <2>1, DeletesGroups
<1> QED
  BY <1>2, <1>3, <1>4

LEMMA AloneLiveStep ==
  ASSUME TInv, Private, AloneLive, NEW r \in Pending, NEW q \in Request, q = req[r], Whole(q),
         Act(r, q) \/ Picks(r, q) \/ Deletes(r, q), Moves(r, q)
  PROVE  AloneLive'
<1>1. ASSUME NEW x \in Pending', req'[x].alone, OfMember(req'[x]) PROVE req'[x].group \in Live'
  <2>1. PICK w, p \in Request : /\ w = req[x] /\ p = req'[x] /\ p.op = w.op /\ p.group = w.group /\ p.alone = w.alone
    BY MoveView
  <2>2. x \in Pending /\ w.group \in Live
    <3>1. x \in Pending /\ w.alone /\ OfMember(w)
      BY <1>1, <2>1, MoveView DEF OfMember
    <3> QED
      BY <2>1, <3>1 DEF AloneLive
  <2>3. CASE Live' = Live
    BY <2>1, <2>2, <2>3
  <2>4. CASE Deletes(r, q) /\ r \notin Pending' /\ Live' = Live \ {q.group}
    <3>1. CASE w.group = q.group
      <4>1. Meets(w, q)
        BY <2>4, <3>1 DEF Meets, Deletes
      <4> QED
        BY <1>1, <2>1, <2>2, <2>4, <4>1 DEF Private
    <3>2. CASE w.group # q.group
      BY <2>1, <2>2, <2>4, <3>2
    <3> QED
      BY <3>1, <3>2
  <2> QED
    BY <2>3, <2>4, LiveAfter
<1> QED
  BY <1>1 DEF AloneLive, OfMember

LEMMA UnlistedStep ==
  ASSUME TInv, Private, Unlisted, NEW r \in Pending, NEW q \in Request, q = req[r], Whole(q),
         Act(r, q) \/ Picks(r, q) \/ Deletes(r, q), Moves(r, q)
  PROVE  Unlisted'
<1>1. ASSUME NEW x \in Pending', req'[x].alone, req'[x].op \in {"remove", "delete"}, req'[x].port \in Members,
             groups'[req'[x].group].members[req'[x].port] # NoMember
      PROVE  FALSE
  <2>1. PICK w, p \in Request : /\ w = req[x] /\ p = req'[x] /\ p.op = w.op /\ p.group = w.group /\ p.alone = w.alone
                                /\ (x = r => w = q) /\ (x # r => p = w)
    BY MoveView
  <2>2. x \in Pending /\ w.port \notin Listed(w.group) /\ w.group \in Objects
    BY <1>1, <2>1, MoveView DEF Unlisted, Request
  <2>3. NoPort \notin Members
    BY GroupsOK DEF Ports
  <2>4. p.port = w.port
    <3>1. CASE x = r
      <4>0. r \in Pending' /\ p = req'[r]
        BY <1>1, <2>1, <3>1
      <4>1. PICK v \in Request : v = req'[r] /\ Becomes(r, q, v)
        BY <4>0, StepNext
      <4>2. v = p
        BY <4>0, <4>1
      <4> QED
        BY <1>1, <2>1, <2>3, <3>1, <4>1, <4>2 DEF Becomes, GoesOn, Alike
    <3> QED
      BY <2>1, <3>1
  <2>5. groups[w.group].members[w.port] = NoMember
    BY <1>1, <2>1, <2>2, <2>4 DEF Listed
  <2>6. q.op = "add" /\ w.group = q.group /\ w.port = q.port /\ w.port \in Members
    BY <1>1, <2>1, <2>2, <2>4, <2>5, StepMembers
  <2>7. Meets(w, q)
    <3>1. w.port # NoPort
      BY <2>3, <2>6
    <3> QED
      BY <2>6, <3>1 DEF Meets, NodesOf, PortsOf
  <2>8. x # r
    BY <1>1, <2>1, <2>6
  <2> QED
    BY <1>1, <2>1, <2>2, <2>7, <2>8 DEF Private
<1> QED
  BY <1>1 DEF Unlisted, Listed

LEMMA OwnStep ==
  ASSUME TInv, Private, Own, NEW r \in Pending, NEW q \in Request, q = req[r], Whole(q),
         Act(r, q) \/ Picks(r, q) \/ Deletes(r, q), Moves(r, q)
  PROVE  Own'
<1>1. ASSUME NEW x \in Pending', req'[x].alone PROVE OwnLists(req[x])'
  <2>1. PICK w, p \in Request : /\ w = req[x] /\ p = req'[x] /\ p.op = w.op /\ p.group = w.group /\ p.alone = w.alone
                                /\ Gid(w)' = Gid(w) /\ (x = r => w = q) /\ (x # r => p = w)
    BY MoveView
  <2>2. x \in Pending /\ OwnLists(w) /\ Whole(w) /\ TypeOK /\ GroupsKept
    BY <1>1, <2>1, MoveView DEF Own, TInv, Moves
  <2>3. OwnLists(p)'
    <3>1. CASE x = r
      <4>1. CASE GoesOn(r, q, p)
        BY <2>1, <2>2, <3>1, <4>1 DEF GoesOn, Carries
      <4>2. CASE p.op = "delete" /\ p.pc \in {"next", "leave"}
        BY <4>2 DEF OwnLists, Dropping
      <4>0. r \in Pending' /\ p = req'[r]
        BY <1>1, <2>1, <3>1
      <4>3. PICK v \in Request : v = req'[r] /\ Becomes(r, q, v)
        BY <4>0, StepNext
      <4>4. GoesOn(r, q, p) \/ (p.op = "delete" /\ p.pc \in {"next", "leave"})
        BY <2>1, <3>1, <4>0, <4>3 DEF Becomes
      <4> QED
        BY <4>1, <4>2, <4>4
    <3>2. CASE x # r
      <4>1. CASE w.pc = "next"
        BY <2>1, <3>2, <4>1 DEF OwnLists, Dropping
      <4>2. CASE w.pc # "next" /\ (q.pc = "next" \/ Node(w.port) # Node(q.port))
        <5>1. w.port \in Ports /\ Node(w.port) \in Nodes /\ (OfMember(w) => w.port \in Members) /\ (~OfMember(w) => w.port \in Sources)
          BY <2>2, <4>2, PortType DEF Whole, Form, OfMember
        <5>2. acl'[Node(w.port)] = acl[Node(w.port)]
          BY <2>2, <4>2, <5>1, Elsewhere
        <5>3. OfMember(w) => table'[w.port] = table[w.port]
          BY <2>2, <4>2, <5>1, Elsewhere
        <5>4. ~OfMember(w) => bound'[w.port] = bound[w.port]
          BY <2>2, <4>2, <5>1, Elsewhere
        <5>5. Grantee(w)' = Grantee(w)
          BY <2>2, SameGroup
        <5>6. OwnLists(w)'
          BY <2>1, <2>2, <5>2, <5>3, <5>4, <5>5 DEF OwnLists, OfMember
        <5> QED
          BY <2>1, <3>2, <5>6
      <4>3. CASE w.pc # "next" /\ q.pc # "next" /\ Node(w.port) = Node(q.port)
        <5>1. w.port # NoPort /\ q.port # NoPort
          BY <2>2, <4>3, PortType
        <5>2. Meets(w, q)
          BY <4>3, <5>1 DEF Meets, NodesOf, PortsOf
        <5> QED
          BY <1>1, <2>1, <2>2, <3>2, <5>2 DEF Private
      <4> QED
        BY <4>1, <4>2, <4>3
    <3> QED
      BY <3>1, <3>2
  <2> QED
    BY <2>1, <2>3
<1> QED
  BY <1>1 DEF Own

\* A deletion is there until it has dealt with its members.
LEMMA StillThere ==
  ASSUME TInv, NEW r \in Pending, NEW q \in Request, q = req[r], Whole(q), q.op = "delete",
         Act(r, q) \/ Picks(r, q) \/ Deletes(r, q)
  PROVE  r \in Pending' \/ Deletes(r, q)
<1>1. r \in Reqs /\ Idle \notin Request /\ req \in [Reqs -> Request \cup {Idle}]
  BY GroupsOK DEF TInv, TypeOK, Pending
<1>2. ASSUME NEW p \in Request, req' = [req EXCEPT ![r] = p] PROVE r \in Pending'
  BY <1>1, <1>2 DEF Pending
<1>3. CASE Act(r, q)
  BY <1>2, <1>3 DEF Act, Ends, GoesOn
<1>4. CASE Picks(r, q)
  BY <1>2, <1>4 DEF Picks
<1> QED
  BY <1>3, <1>4

LEMMA SavedStep ==
  ASSUME TInv, SavedMembers, NEW r \in Pending, NEW q \in Request, q = req[r], Whole(q),
         Act(r, q) \/ Picks(r, q) \/ Deletes(r, q), Moves(r, q)
  PROVE  SavedMembers'
<1>1. ASSUME NEW o \in Objects, NEW m \in Members, saved'.groups[o].members[m] # groups'[o].members[m]
      PROVE  \E x \in Pending' : req'[x].op = "delete" /\ req'[x].group = o
  <2>1. ~Save
    BY <1>1 DEF Save
  <2>2. saved' = saved
    BY <2>1 DEF Act, Picks, Deletes, StoreEffect, storeVars
  <2>3. ASSUME NEW x \in Pending, req[x].op = "delete", req[x].group = o
        PROVE  x \in Pending' /\ req'[x].op = "delete" /\ req'[x].group = o
    <3>1. CASE x = r
      <4>1. r \in Pending'
        BY <2>1, <2>3, <3>1, StillThere DEF Deletes
      <4> QED
        BY <2>3, <3>1, <4>1 DEF Moves
    <3>2. CASE x # r
      BY <2>3, <3>2 DEF Moves
    <3> QED
      BY <3>1, <3>2
  <2>4. CASE groups'[o].members[m] = groups[o].members[m]
    BY <1>1, <2>2, <2>3, <2>4 DEF SavedMembers
  <2>5. CASE q.op = "delete" /\ o = q.group
    BY <2>3, <2>5
  <2> QED
    BY <2>1, <2>4, <2>5, StepMembers
<1> QED
  BY <1>1 DEF SavedMembers

LEMMA DeleteLeftStep ==
  ASSUME TInv, Private, AloneLive, Unlisted, DeleteLeft, NEW r \in Pending, NEW q \in Request, q = req[r], Whole(q),
         Act(r, q) \/ Picks(r, q) \/ Deletes(r, q), Moves(r, q)
  PROVE  DeleteLeft'
<1>1. ASSUME NEW x \in Pending', NEW p \in Request, p = req'[x], p.op = "delete", p.group \in Live', NEW m \in Members,
             groups'[p.group].members[m] # NoMember, m \notin p.todo
      PROVE  <<"member", Gid(p)', m>> \in unsettled'
  <2>1. PICK w \in Request : /\ w = req[x] /\ p.op = w.op /\ p.group = w.group /\ p.alone = w.alone
                             /\ Gid(p)' = Gid(w) /\ (x = r => w = q) /\ (x # r => p = w)
    BY <1>1, MoveView
  <2> DEFINE c == <<"member", Gid(w), m>>
  <2>2. x \in Pending /\ w.group \in Live /\ w.group \in Objects
    BY <1>1, <2>1, LiveAfter, MoveView DEF Live
  <2>3. Kind(w) = "member"
    BY <1>1, <2>1 DEF Kind
  <2>4. ASSUME c \in unsettled, c \notin unsettled' PROVE q.alone /\ c \in Concerns(q) /\ q.port = m /\ OfMember(q) /\ Gid(q) = Gid(w)
    <3>1. q.alone /\ c \in Concerns(q) /\ c \in About(q, {q.port})
      BY <2>4 DEF Moves
    <3> QED
      BY <3>1 DEF About, Kind, OfMember, Request
  <2>5. CASE groups[w.group].members[m] # NoMember
    <3>1. m \in w.todo \/ c \in unsettled
      BY <1>1, <2>1, <2>2, <2>5 DEF DeleteLeft, Listed
    <3>2. CASE x # r
      <4> SUFFICES ASSUME c \in unsettled, c \notin unsettled' PROVE FALSE
        BY <1>1, <2>1, <3>1, <3>2
      <4>1. q.group \in Live /\ groups[q.group].id = groups[w.group].id
        BY <2>4 DEF AloneLive, Gid
      <4>2. q.group = w.group
        BY <2>2, <4>1 DEF TInv, TypeOK
      <4>3. Meets(q, w)
        BY <1>1, <2>1, <4>2 DEF Meets
      <4> QED
        BY <2>1, <2>2, <2>4, <3>2, <4>3 DEF Private
    <3>3. CASE x = r
      <4>1. Becomes(r, q, p)
        BY <1>1, <3>3, StepNext
      <4>2. CASE c \in unsettled
        <5> SUFFICES ASSUME c \notin unsettled' PROVE FALSE
          BY <2>1
        <5>1. q.alone /\ q.port = m
          BY <2>4, <4>2
        <5> QED
          BY <1>1, <2>1, <2>2, <2>5, <3>3, <5>1 DEF Unlisted, Listed
      <4>3. CASE m \in w.todo
        <5>1. p.todo # q.todo
          BY <1>1, <2>1, <3>3, <4>3
        <5>2. ~GoesOn(r, q, p)
          BY <5>1 DEF GoesOn, Alike
        <5>3. groups'[q.group].members[m] = NoMember \/ About(q, {m}) \subseteq unsettled'
          BY <1>1, <2>1, <3>3, <4>1, <4>3, <5>1, <5>2 DEF Becomes
        <5> QED
          BY <1>1, <2>1, <2>3, <3>3, <5>3 DEF About
      <4> QED
        BY <3>1, <4>2, <4>3
    <3> QED
      BY <3>2, <3>3
  <2>6. CASE groups[w.group].members[m] = NoMember
    <3>1. q.op = "add" /\ w.group = q.group /\ m = q.port
      BY <1>1, <2>1, <2>2, <2>6, StepMembers
    <3>2. x # r /\ Meets(q, w)
      BY <1>1, <2>1, <3>1 DEF Meets
    <3>3. ~q.alone
      BY <2>1, <2>2, <3>2 DEF Private
    <3>4. Concerns(q) \subseteq unsettled'
      BY <3>3 DEF Private, Moves
    <3>5. m # NoPort /\ Gid(q) = Gid(w) /\ Kind(q) = "member"
      BY <3>1, GroupsOK DEF Gid, Kind, Ports
    <3> QED
      BY <2>1, <3>1, <3>4, <3>5 DEF Concerns, About, PortsOf
  <2> QED
    BY <2>5, <2>6
<1>2. ASSUME NEW x \in Pending', req'[x].op = "delete", req'[x].group \in Live', NEW m \in Listed(req[x].group)'
      PROVE  m \in req'[x].todo \/ <<"member", Gid(req[x])', m>> \in unsettled'
  <2>1. PICK p \in Request : p = req'[x]
    BY MoveView
  <2>2. m \in Members /\ groups'[p.group].members[m] # NoMember
    BY <1>2, <2>1 DEF Listed
  <2>3. m \notin p.todo => <<"member", Gid(p)', m>> \in unsettled'
    BY <1>1, <1>2, <2>1, <2>2
  <2>4. Gid(p)' = Gid(req[x])'
    BY <2>1 DEF Gid
  <2> QED
    BY <2>1, <2>3, <2>4
<1> QED
  BY <1>2 DEF DeleteLeft

\* What was settled is in doubt no longer where the request has dealt with it.
LEMMA BecomesSettled ==
  ASSUME TInv, NEW r \in Pending, NEW q \in Request, Whole(q), Moves(r, q), NEW g \in Gids, NEW m \in Members,
         <<"member", g, m>> \in unsettled, <<"member", g, m>> \notin unsettled'
  PROVE  q.alone /\ OfMember(q) /\ q.pc # "next" /\ <<g, m>> = Grantee(q)
<1>1. q.alone /\ <<"member", g, m>> \in About(q, {q.port})
  BY DEF Moves
<1>2. OfMember(q) /\ g = Gid(q) /\ m = q.port
  BY <1>1 DEF About, Kind, OfMember, Request
<1>3. NoPort \notin Members
  BY GroupsOK DEF Ports
<1> QED
  BY <1>1, <1>2, <1>3 DEF Grantee, Whole, Form

LEMMA AclAgreeStep ==
  ASSUME TInv, Private, AclAgree, NEW r \in Pending, NEW q \in Request, q = req[r], Whole(q),
         Act(r, q) \/ Picks(r, q) \/ Deletes(r, q), Moves(r, q)
  PROVE  AclAgree'
<1>1. ASSUME NEW x \in Pending', NEW p \in Request, p = req'[x], p.pc \in {"grant", "revoke"},
             NEW g \in Gids, NEW m \in Members, Node(m) = Node(p.port),
             <<"member", g, m>> \notin unsettled', <<g, m>> # Grantee(p)'
      PROVE  <<g, m>> \in p.acl <=> <<g, m>> \in acl'[Node(m)]
  <2>1. PICK w \in Request : /\ w = req[x] /\ (x = r => w = q) /\ (x # r => p = w)
    BY <1>1, MoveView
  <2>2. x \in Pending /\ TypeOK /\ GroupsKept /\ Whole(w)
    BY <2>1, MoveView DEF TInv, Moves
  <2>3. CASE x = r
    <3>1. r \in Pending'
      BY <1>1, <2>3
    <3>2. PICK v \in Request : v = req'[r] /\ Becomes(r, q, v)
      BY <3>1, StepNext
    <3>3. v = p
      BY <1>1, <2>3, <3>2
    <3>4. GoesOn(r, q, p)
      BY <1>1, <3>2, <3>3 DEF Becomes
    <3> QED
      BY <1>1, <3>4 DEF GoesOn, Carries, Alike
  <2>4. CASE x # r
    <3>1. p = w /\ Grantee(p)' = Grantee(w) /\ w.pc \in {"grant", "revoke"}
      BY <1>1, <2>1, <2>2, <2>4, SameGroup
    <3>2. w.port # NoPort /\ Node(m) \in Nodes
      BY <2>2, <3>1, PortType DEF Nodes, Ports
    <3>3. CASE q.pc = "next" \/ Node(q.port) # Node(w.port)
      <4>1. acl'[Node(m)] = acl[Node(m)]
        BY <1>1, <2>2, <3>1, <3>2, <3>3, Elsewhere
      <4>2. <<"member", g, m>> \notin unsettled
        <5> SUFFICES ASSUME <<"member", g, m>> \in unsettled PROVE FALSE
          OBVIOUS
        <5>1. q.pc # "next" /\ m = q.port
          BY <1>1, BecomesSettled DEF Grantee
        <5> QED
          BY <1>1, <3>1, <3>3, <5>1
      <4> QED
        BY <1>1, <2>1, <2>2, <3>1, <4>1, <4>2 DEF AclAgree
    <3>4. CASE q.pc # "next" /\ Node(q.port) = Node(w.port)
      <4>1. q.port # NoPort
        BY <2>2, <3>4, PortType
      <4>2. Meets(q, w)
        BY <3>2, <3>4, <4>1 DEF Meets, NodesOf, PortsOf
      <4>3. ~q.alone
        BY <2>1, <2>2, <2>4, <4>2 DEF Private
      <4>4. Concerns(q) \subseteq unsettled /\ unsettled \subseteq unsettled'
        BY <4>3 DEF Private, Moves
      <4>5. ~OfMember(q) \/ <<g, m>> # Grantee(q)
        <5> SUFFICES ASSUME OfMember(q), <<g, m>> = Grantee(q) PROVE <<"member", g, m>> \in Concerns(q)
          BY <1>1, <4>4
        <5> QED
          BY <4>1 DEF OfMember, Grantee, Concerns, About, Kind, PortsOf
      <4>6. <<"member", g, m>> \notin unsettled
        BY <1>1, <4>4
      <4>7. <<g, m>> \in acl'[Node(m)] <=> <<g, m>> \in acl[Node(m)]
        BY <4>5, <4>6, OtherLists
      <4> QED
        BY <1>1, <2>1, <2>2, <3>1, <4>6, <4>7 DEF AclAgree
    <3> QED
      BY <3>3, <3>4
  <2> QED
    BY <2>3, <2>4
<1>2. ASSUME NEW x \in Pending', req'[x].pc \in {"grant", "revoke"},
             NEW g \in Gids, NEW m \in Members, Node(m) = Node(req'[x].port),
             <<"member", g, m>> \notin unsettled', <<g, m>> # Grantee(req[x])'
      PROVE  <<g, m>> \in req'[x].acl <=> <<g, m>> \in acl'[Node(m)]
  <2>1. PICK p \in Request : p = req'[x]
    BY MoveView
  <2>2. Grantee(p)' = Grantee(req[x])'
    BY <2>1 DEF Grantee, Gid
  <2> QED
    BY <1>1, <1>2, <2>1, <2>2
<1> QED
  BY <1>2 DEF AclAgree

LEMMA ListsKeptStep ==
  ASSUME TInv, Private, AloneLive, Unlisted, Own, AclAgree, ListsKept, paired' = paired,
         NEW r \in Pending, NEW q \in Request, q = req[r], Whole(q),
         Act(r, q) \/ Picks(r, q) \/ Deletes(r, q), Moves(r, q)
  PROVE  ListsKept'
<1>1. ASSUME NEW o \in Live', NEW m \in Members, groups'[o].members[m] = "ok",
             <<"member", groups'[o].id, m>> \notin unsettled', Node(m) \in paired'
      PROVE  groups'[o].id \in table'[m] /\ <<groups'[o].id, m>> \in acl'[Node(m)]
  <2>1. PICK g : g = groups[o].id
    OBVIOUS
  <2>2. TypeOK /\ GroupsKept /\ o \in Objects /\ o \in Live
    BY LiveAfter DEF TInv, Moves, Live
  <2>3. groups'[o].id = g /\ g \in Gids
    BY <2>1, <2>2 DEF GroupsKept, TypeOK, Group
  <2>4. CASE OfMember(q) /\ q.pc # "next" /\ <<g, m>> = Grantee(q)
    <3>1. g = Gid(q) /\ m = q.port /\ q.port # NoPort /\ Act(r, q)
      BY <2>2, <2>4, PortType DEF Grantee, Picks, Deletes
    <3>2. <<"member", g, m>> \in About(q, {q.port}) /\ About(q, {q.port}) \subseteq Concerns(q)
      BY <2>4, <3>1 DEF About, Kind, OfMember, Concerns, PortsOf
    <3>3. q.alone
      BY <1>1, <2>3, <3>2 DEF Private, Moves
    <3>4. q.group = o
      <4>1. q.group \in Live /\ groups[q.group].id = groups[o].id
        BY <2>1, <2>4, <3>1, <3>3 DEF AloneLive, Gid
      <4> QED
        BY <2>2, <4>1 DEF TypeOK
    <3>5. q.op = "add"
      <4> SUFFICES ASSUME q.op \in {"remove", "delete"} PROVE FALSE
        BY <2>4 DEF OfMember
      <4>1. groups[o].members[m] = NoMember
        BY <3>1, <3>3, <3>4 DEF Unlisted, Listed
      <4>2. groups'[o].members[m] = NoMember
        BY <2>2, <2>4, <4>1, StepMembers
      <4> QED
        BY <1>1, <4>2 DEF NoMember
    <3>6. Grantee(q)' = Grantee(q) /\ Gid(q)' = Gid(q)
      BY <2>2, SameGroup
    <3>7. CASE Ends(r, q)
      <4>1. Achieved(q)'
        BY <1>1, <2>3, <3>2, <3>3, <3>7 DEF Ends, Own
      <4> QED
        BY <2>3, <2>4, <3>1, <3>5, <3>6, <4>1 DEF Achieved
    <3>8. CASE \E p \in Request : GoesOn(r, q, p)
      <4>1. groups' = groups /\ unsettled' = unsettled
        BY <3>8 DEF GoesOn, storeVars
      <4>2. g \in table[m] /\ <<g, m>> \in acl[Node(m)]
        BY <1>1, <2>1, <2>2, <4>1 DEF ListsKept, Usable, Settled
      <4>3. q.pc \notin {"leave", "revoke", "unmap", "keyRemove", "enter", "drop"}
        BY <3>5 DEF Whole, Form, Providing
      <4>4. DevEffect(q) /\ Node(m) \in Nodes
        BY <3>1 DEF Act, Nodes, Ports
      <4>5. g \in table'[m]
        BY <2>2, <3>1, <4>2, <4>3, <4>4 DEF DevEffect, deviceVars, TypeOK
      <4>6. <<g, m>> \in acl'[Node(m)]
        <5>1. CASE acl' = acl
          BY <4>2, <5>1
        <5>2. CASE q.pc = "grant" /\ SetAcl(q, q.acl \cup {Grantee(q)})
          BY <2>2, <2>4, <3>1, <4>4, <5>2 DEF SetAcl, TypeOK
        <5> QED
          BY <4>3, <4>4, <5>1, <5>2 DEF DevEffect, deviceVars
      <4> QED
        BY <2>3, <4>5, <4>6
    <3> QED
      BY <3>1, <3>7, <3>8 DEF Act
  <2>5. CASE ~(OfMember(q) /\ q.pc # "next" /\ <<g, m>> = Grantee(q))
    <3>1. <<"member", g, m>> \notin unsettled
      BY <1>1, <2>3, <2>5, BecomesSettled
    <3>2. groups[o].members[m] = "ok"
      <4>1. CASE q.op = "add" /\ q.pc # "next" /\ o = q.group /\ m = q.port
        BY <2>1, <2>5, <4>1 DEF OfMember, Grantee, Gid
      <4>2. CASE groups'[o].members[m] = NoMember
        BY <1>1, <4>2 DEF NoMember
      <4> QED
        BY <1>1, <2>2, <4>1, <4>2, StepMembers
    <3>3. g \in table[m] /\ <<g, m>> \in acl[Node(m)]
      BY <1>1, <2>1, <2>2, <3>1, <3>2 DEF ListsKept, Usable, Settled
    <3>4. ~OfMember(q) \/ <<g, m>> # Grantee(q)
      <4> SUFFICES ASSUME q.pc = "next", m = q.port PROVE FALSE
        BY <2>5 DEF Grantee
      <4>1. NoPort \notin Members
        BY GroupsOK DEF Ports
      <4> QED
        BY <4>1 DEF Whole, Form
    <3> QED
      BY <2>3, <3>1, <3>3, <3>4, OtherLists
  <2> QED
    BY <2>4, <2>5
<1> QED
  BY <1>1 DEF ListsKept, Usable, Settled

\* What is under way stays so until it is done, or told of.
LEMMA UnderWayStep ==
  ASSUME TInv, NEW r \in Pending, NEW q \in Request, q = req[r], Whole(q),
         Act(r, q) \/ Picks(r, q) \/ Deletes(r, q), Moves(r, q),
         NEW g \in Gids, NEW m \in Members, UnderWay(g, m), ~UnderWay(g, m)',
         <<"member", g, m>> \notin unsettled'
  PROVE  OfMember(q) /\ q.pc # "next" /\ <<g, m>> = Grantee(q)
<1>1. PICK x \in Pending : <<"member", g, m>> \in Concerns(req[x])
  BY DEF UnderWay
<1>2. GroupsKept /\ NoPort \notin Members
  BY GroupsOK DEF Moves, Ports
<1>3. x = r
  <2> SUFFICES ASSUME x # r PROVE FALSE
    OBVIOUS
  <2>1. x \in Pending' /\ req'[x] = req[x]
    BY DEF Moves
  <2>2. Concerns(req[x])' = Concerns(req[x])
    <3>1. PICK w \in Request : w = req[x]
      BY <1>1 DEF TInv, TypeOK, Pending
    <3>2. Concerns(w)' = Concerns(w)
      BY <1>2, SameGroup
    <3>3. Concerns(req[x])' = Concerns(w)'
      BY <2>1, <3>1 DEF Concerns, About, Kind, Gid, PortsOf
    <3> QED
      BY <3>1, <3>2, <3>3
  <2> QED
    BY <1>1, <2>1, <2>2 DEF UnderWay
<1>4. Kind(q) = "member" /\ g = Gid(q) /\ m \in PortsOf(q)
  BY <1>1, <1>3 DEF Concerns, About
<1>5. OfMember(q)
  BY <1>4 DEF Kind, OfMember, Request
<1>6. CASE m = q.port
  BY <1>2, <1>4, <1>5, <1>6 DEF Grantee, Whole, Form
<1>7. CASE m \in q.todo
  <2> SUFFICES FALSE
    OBVIOUS
  <2>1. q.op = "delete" /\ ~Deletes(r, q)
    BY <1>7 DEF Whole, Form, Deletes
  <2>2. r \in Pending'
    BY <2>1, StillThere
  <2>3. PICK p \in Request : p = req'[r] /\ Becomes(r, q, p)
    BY <2>2, StepNext
  <2>4. p.op = q.op /\ p.group = q.group
    BY <2>3 DEF Becomes
  <2>5. m \notin PortsOf(p)
    <3> SUFFICES ASSUME m \in PortsOf(p) PROVE <<"member", g, m>> \in Concerns(req[r])'
      BY <2>2 DEF UnderWay
    <3>1. Gid(p)' = Gid(q)
      BY <1>2, <2>4 DEF Gid, GroupsKept, Request
    <3>2. <<"member", g, m>> \in Concerns(p)'
      BY <1>4, <2>1, <2>4, <3>1 DEF Concerns, About, Kind
    <3>3. Concerns(p)' = Concerns(req[r])'
      BY <2>3 DEF Concerns, About, Kind, Gid, PortsOf
    <3> QED
      BY <3>2, <3>3
  <2>6. m \notin p.todo /\ p.port # m
    BY <1>2, <2>5 DEF PortsOf
  <2>7. About(q, {m}) \subseteq unsettled'
    BY <1>7, <2>3, <2>6 DEF Becomes, GoesOn, Alike
  <2> QED
    BY <1>4, <2>7 DEF About
<1> QED
  BY <1>4, <1>6, <1>7 DEF PortsOf

LEMMA NothingLeftStep ==
  ASSUME TInv, Private, AloneLive, DeleteLeft, Own, AclAgree, NothingLeft, paired' = paired,
         NEW r \in Pending, NEW q \in Request, q = req[r], Whole(q),
         Act(r, q) \/ Picks(r, q) \/ Deletes(r, q), Moves(r, q)
  PROVE  NothingLeft'
<1>1. ASSUME NEW g \in Gids, NEW m \in Members, <<"member", g, m>> \notin unsettled', Node(m) \in paired',
             ~UnderWay(g, m)', \A o \in Live' : groups'[o].id = g => m \notin Listed(o)'
      PROVE  g \notin table'[m] /\ <<g, m>> \notin acl'[Node(m)]
  <2>1. TypeOK /\ GroupsKept /\ NoPort \notin Members
    BY GroupsOK DEF TInv, Moves, Ports
  <2>2. CASE OfMember(q) /\ q.pc # "next" /\ <<g, m>> = Grantee(q)
    <3>1. g = Gid(q) /\ m = q.port /\ q.port # NoPort /\ Act(r, q)
      BY <2>1, <2>2, PortType DEF Grantee, Picks, Deletes
    <3>2. <<"member", g, m>> \in About(q, {q.port})
      BY <2>2, <3>1 DEF About, Kind, OfMember
    <3>3. ASSUME NEW p \in Request, GoesOn(r, q, p) PROVE FALSE
      <4>1. r \in Pending' /\ req'[r] = p
        BY <3>3, GroupsOK DEF GoesOn, Pending, TInv, TypeOK
      <4>2. Gid(p)' = Gid(q) /\ p.op = q.op /\ p.port = q.port
        BY <2>1, <3>3 DEF GoesOn, Alike, Gid, GroupsKept, Request
      <4>3. <<"member", g, m>> \in Concerns(p)'
        BY <2>2, <3>1, <4>2 DEF Concerns, About, Kind, OfMember, PortsOf
      <4>4. Concerns(p)' = Concerns(req[r])'
        BY <4>1 DEF Concerns, About, Kind, Gid, PortsOf
      <4> QED
        BY <1>1, <4>1, <4>3, <4>4 DEF UnderWay
    <3>4. Ends(r, q)
      BY <3>1, <3>3 DEF Act
    <3>5. q.alone /\ Achieved(q)'
      BY <1>1, <3>2, <3>4 DEF Ends, Own
    <3>6. Grantee(q)' = Grantee(q) /\ Gid(q)' = Gid(q)
      BY <2>1, SameGroup
    <3>7. CASE q.op = "add"
      <4>1. q.group \in Live' /\ groups'[q.group].id = g
        <5>1. Live' = Live
          BY <2>1, <2>2, <3>1, ActGroups DEF Act
        <5> QED
          BY <2>2, <3>1, <3>5, <3>6, <5>1 DEF AloneLive, Gid
      <4>2. groups'[q.group].members[q.port] = "ok"
        BY <3>5, <3>7 DEF Achieved
      <4>3. m \in Listed(q.group)'
        BY <3>1, <4>2 DEF Listed, NoMember
      <4> QED
        BY <1>1, <4>1, <4>3
    <3>8. CASE q.op \in {"remove", "delete"}
      BY <2>2, <3>1, <3>5, <3>6, <3>8 DEF Achieved
    <3> QED
      BY <2>2, <3>7, <3>8 DEF OfMember
  <2>3. CASE ~(OfMember(q) /\ q.pc # "next" /\ <<g, m>> = Grantee(q))
    <3>1. <<"member", g, m>> \notin unsettled
      BY <1>1, <2>3, BecomesSettled
    <3>2. ~UnderWay(g, m)
      BY <1>1, <2>3, UnderWayStep
    <3>3. ASSUME NEW o \in Live, groups[o].id = g, groups[o].members[m] # NoMember PROVE FALSE
      <4>1. o \in Objects /\ groups'[o].id = g
        BY <2>1, <3>3 DEF Live, GroupsKept
      <4>2. CASE o \in Live'
        <5>1. groups'[o].members[m] = NoMember
          BY <1>1, <4>1, <4>2 DEF Listed
        <5>2. q.op = "delete" /\ q.pc = "next" /\ o = q.group /\ r \in Pending' /\ req'[r].port = m
          BY <3>3, <4>1, <5>1, StepMembers DEF NoMember
        <5>3. PICK p \in Request : p = req'[r] /\ Becomes(r, q, p)
          BY <5>2, StepNext
        <5>4. <<"member", g, m>> \in Concerns(p)'
          BY <2>1, <4>1, <5>2, <5>3 DEF Becomes, Concerns, About, Kind, Gid, PortsOf
        <5>5. Concerns(p)' = Concerns(req[r])'
          BY <5>3 DEF Concerns, About, Kind, Gid, PortsOf
        <5> QED
          BY <1>1, <5>2, <5>4, <5>5 DEF UnderWay
      <4>3. CASE o \notin Live'
        <5>1. Deletes(r, q) /\ o = q.group
          BY <4>3, <3>3, LiveAfter
        <5>2. m \in q.todo \/ <<"member", g, m>> \in unsettled
          BY <3>3, <5>1 DEF Deletes, DeleteLeft, Listed, Gid
        <5> QED
          BY <3>1, <5>1, <5>2 DEF Deletes
      <4> QED
        BY <4>2, <4>3
    <3>4. g \notin table[m] /\ <<g, m>> \notin acl[Node(m)]
      BY <1>1, <3>1, <3>2, <3>3 DEF NothingLeft, Settled, Listed
    <3>5. ~OfMember(q) \/ <<g, m>> # Grantee(q)
      <4> SUFFICES ASSUME q.pc = "next", m = q.port PROVE FALSE
        BY <2>3 DEF Grantee
      <4> QED
        BY <2>1 DEF Whole, Form
    <3> QED
      BY <3>1, <3>4, <3>5, OtherLists
  <2> QED
    BY <2>2, <2>3
<1> QED
  BY <1>1 DEF NothingLeft, Settled

-----------------------------------------------------------------------------
(* Tables and grants at what is not a step of a request *)

LEMMA StartMembers ==
  ASSUME TInv, NEW q \in Request, Starts(q), NEW o \in Objects, NEW m \in Members
  PROVE  \/ groups'[o].members[m] = groups[o].members[m]
         \/ q.op = "add" /\ o = q.group /\ m = q.port /\ groups'[o].members[m] = "pending" /\ Save
         \/ q.op = "remove" /\ o = q.group /\ m = q.port /\ groups'[o].members[m] = NoMember /\ Save
<1>1. TypeOK /\ q.group \in Objects
  BY DEF TInv, Request
<1>2. CASE q.op = "add"
  <2>1. q.port \in Members
    BY <1>2 DEF Starts, Whole, Form, Providing
  <2>2. SetStatus(q.group, q.port, "pending") /\ "pending" \in Status /\ Save
    BY <1>2 DEF Starts, Status
  <2> QED
    BY <1>1, <1>2, <2>1, <2>2, StatusSet
<1>3. CASE q.op = "remove"
  <2>1. q.port \in Members
    BY <1>3 DEF Starts, Whole, Form
  <2>2. SetStatus(q.group, q.port, NoMember) /\ NoMember \in Status /\ Save
    BY <1>3 DEF Starts, Status
  <2> QED
    BY <1>1, <1>3, <2>1, <2>2, StatusSet
<1>4. CASE q.op \in {"delete", "bind", "unbind"}
  BY <1>4 DEF Starts, storeVars
<1> QED
  BY <1>2, <1>3, <1>4 DEF Request

LEMMA StartsInv ==
  ASSUME ListsInv, TInv', NEW r \in Reqs, NEW q \in Request, Starts(q), Comes(r, q)
  PROVE  ListsInv'
<1>1. TInv /\ TypeOK /\ GroupsKept /\ Live' = Live /\ NoPort \notin Members
  BY StartStore, GroupsOK DEF ListsInv, TInv, Ports
<1>2. UNCHANGED <<paired, deviceVars>> /\ unsettled \subseteq unsettled' /\ Pending \subseteq Pending'
  BY DEF Comes
<1>3. Private'
  BY <1>1, PrivateComes DEF ListsInv
<1>4. \A x \in Objects : groups'[x].id = groups[x].id
  BY <1>1 DEF GroupsKept
<1>5. AloneLive'
  <2>1. ASSUME NEW x \in Pending', req'[x].alone, OfMember(req'[x]) PROVE req'[x].group \in Live'
    <3>1. PICK w, p \in Request : /\ p = req'[x] /\ Twin(w, p) /\ (x = r => w = q)
                                  /\ (x # r => x \in Pending /\ w = req[x] /\ (p.alone => p = w /\ ~Meets(q, w)))
      BY <1>1, ComesView
    <3>2. CASE x = r
      BY <1>1, <2>1, <3>1, <3>2 DEF Twin, OfMember, Starts
    <3>3. CASE x # r
      BY <1>1, <2>1, <3>1, <3>3 DEF ListsInv, AloneLive
    <3> QED
      BY <3>2, <3>3
  <2> QED
    BY <2>1 DEF AloneLive, OfMember
<1>6. SavedMembers'
  <2>1. CASE Save
    BY <2>1 DEF Save, SavedMembers
  <2>2. CASE ~Save
    <3>1. UNCHANGED storeVars
      BY <2>2 DEF Starts, Request
    <3>2. \A x \in Pending : x \in Pending' /\ req'[x].op = req[x].op /\ req'[x].group = req[x].group
      BY DEF Comes, Twin
    <3> QED
      BY <3>1, <3>2 DEF ListsInv, SavedMembers, storeVars
  <2> QED
    BY <2>1, <2>2
<1>7. DeleteLeft'
  <2>1. ASSUME NEW x \in Pending', req'[x].op = "delete", req'[x].group \in Live', NEW m \in Members,
               groups'[req'[x].group].members[m] # NoMember, m \notin req'[x].todo
        PROVE  <<"member", groups'[req'[x].group].id, m>> \in unsettled'
    <3>1. PICK w, p \in Request : /\ p = req'[x] /\ Twin(w, p) /\ (x = r => w = q)
                                  /\ (x # r => x \in Pending /\ w = req[x])
      BY <1>1, ComesView
    <3>2. w.op = "delete" /\ w.group \in Live /\ m \notin w.todo /\ w.group \in Objects
      BY <1>1, <2>1, <3>1 DEF Twin, Live
    <3>3. CASE x = r
      <4>1. w = q /\ groups' = groups
        BY <3>1, <3>2, <3>3 DEF Starts, storeVars
      <4> QED
        BY <2>1, <3>1, <3>2, <4>1 DEF Starts, Listed, Twin
    <3>4. CASE x # r /\ groups[w.group].members[m] # NoMember
      <4>1. <<"member", Gid(w), m>> \in unsettled
        BY <3>1, <3>2, <3>4 DEF ListsInv, DeleteLeft, Listed
      <4> QED
        BY <1>2, <1>4, <3>1, <3>2, <4>1 DEF Gid, Twin
    <3>5. CASE x # r /\ groups[w.group].members[m] = NoMember
      <4>1. q.op = "add" /\ w.group = q.group /\ m = q.port
        BY <1>1, <2>1, <3>1, <3>2, <3>5, StartMembers DEF Twin
      <4>2. Meets(q, w)
        BY <3>2, <4>1 DEF Meets
      <4>3. Concerns(q) \subseteq unsettled'
        BY <3>1, <3>5, <4>2 DEF Comes
      <4>4. <<"member", Gid(q), m>> \in Concerns(q)
        BY <1>1, <4>1 DEF Concerns, About, Kind, PortsOf
      <4> QED
        BY <1>4, <3>1, <3>2, <4>1, <4>3, <4>4 DEF Gid, Twin
    <3> QED
      BY <3>3, <3>4, <3>5
  <2>2. ASSUME NEW x \in Pending', req'[x].op = "delete", req'[x].group \in Live', NEW m \in Listed(req[x].group)'
        PROVE  m \in req'[x].todo \/ <<"member", Gid(req[x])', m>> \in unsettled'
    BY <2>1, <2>2 DEF Listed, Gid
  <2> QED
    BY <2>2 DEF DeleteLeft
<1>8. Unlisted'
  <2>1. ASSUME NEW x \in Pending', req'[x].alone, req'[x].op \in {"remove", "delete"}, req'[x].port \in Members,
               groups'[req'[x].group].members[req'[x].port] # NoMember
        PROVE  FALSE
    <3>1. PICK w, p \in Request : /\ p = req'[x] /\ Twin(w, p) /\ (x = r => w = q)
                                  /\ (x # r => x \in Pending /\ w = req[x] /\ (p.alone => p = w /\ ~Meets(q, w)))
      BY <1>1, ComesView
    <3>2. CASE x = r
      <4>1. q.op = "remove" /\ q.port \in Members
        BY <1>1, <2>1, <3>1, <3>2 DEF Twin, Starts, Whole, Form
      <4>2. groups'[q.group].members[q.port] = NoMember
        BY <1>1, <4>1, StatusSet DEF Starts, Status, Request
      <4> QED
        BY <2>1, <3>1, <3>2, <4>2 DEF Twin
    <3>3. CASE x # r
      <4>1. x \in Pending /\ w = req[x] /\ p = w /\ ~Meets(q, w)
        BY <2>1, <3>1, <3>3
      <4>2. groups[w.group].members[w.port] = NoMember /\ w.group \in Objects /\ w.port \in Members
        BY <2>1, <3>1, <4>1 DEF ListsInv, Unlisted, Listed, Request
      <4>3. w.port = q.port
        BY <1>1, <2>1, <3>1, <4>1, <4>2, StartMembers
      <4>4. Meets(q, w)
        BY <1>1, <4>2, <4>3 DEF Meets, NodesOf, PortsOf
      <4> QED
        BY <4>1, <4>4
    <3> QED
      BY <3>2, <3>3
  <2> QED
    BY <2>1 DEF Unlisted, Listed
<1>9. Own'
  <2>1. ASSUME NEW x \in Pending', req'[x].alone PROVE OwnLists(req[x])'
    <3>1. PICK w, p \in Request : /\ p = req'[x] /\ Twin(w, p) /\ (x = r => w = q) /\ Gid(p)' = Gid(w) /\ Grantee(p)' = Grantee(w)
                                  /\ (x # r => x \in Pending /\ w = req[x] /\ (p.alone => p = w /\ ~Meets(q, w)))
      BY <1>1, ComesView
    <3>2. CASE x = r
      <4>1. p.pc \in {"keys", "leave", "next", "list"} /\ p.op = q.op /\ (q.op = "add" => p.pc = "keys")
        BY <3>1, <3>2 DEF Twin, Starts, Request
      <4>2. OwnLists(p)'
        BY <4>1 DEF OwnLists, Dropping
      <4> QED
        BY <3>1, <4>2
    <3>3. CASE x # r
      <4>1. OwnLists(w) /\ p = w
        BY <2>1, <3>1, <3>3 DEF ListsInv, Own
      <4>2. OwnLists(p)'
        BY <1>2, <3>1, <4>1 DEF OwnLists, deviceVars
      <4> QED
        BY <3>1, <4>2
    <3> QED
      BY <3>2, <3>3
  <2> QED
    BY <2>1 DEF Own
<1>10. AclAgree'
  <2>1. ASSUME NEW x \in Pending', req'[x].pc \in {"grant", "revoke"},
               NEW g \in Gids, NEW m \in Members, Node(m) = Node(req'[x].port),
               <<"member", g, m>> \notin unsettled', <<g, m>> # Grantee(req[x])'
        PROVE  <<g, m>> \in req'[x].acl <=> <<g, m>> \in acl'[Node(m)]
    <3>1. PICK w, p \in Request : /\ p = req'[x] /\ Twin(w, p) /\ (x = r => w = q) /\ Grantee(p)' = Grantee(w)
                                  /\ (x # r => x \in Pending /\ w = req[x])
      BY <1>1, ComesView
    <3>2. x # r
      BY <2>1, <3>1 DEF Twin, Starts, Request
    <3>3. Grantee(req[x])' = Grantee(w)
      BY <3>1 DEF Grantee, Gid
    <3>4. acl' = acl /\ <<"member", g, m>> \notin unsettled
      BY <1>2, <2>1 DEF deviceVars
    <3>5. w.pc \in {"grant", "revoke"} /\ w.port = p.port /\ w.acl = p.acl
      BY <2>1, <3>1 DEF Twin
    <3> QED
      BY <2>1, <3>1, <3>2, <3>3, <3>4, <3>5 DEF ListsInv, AclAgree
  <2> QED
    BY <2>1 DEF AclAgree
<1>11. ListsKept'
  <2>1. ASSUME NEW o \in Live', NEW m \in Members, groups'[o].members[m] = "ok",
               <<"member", groups'[o].id, m>> \notin unsettled', Node(m) \in paired'
        PROVE  groups'[o].id \in table'[m] /\ <<groups'[o].id, m>> \in acl'[Node(m)]
    <3>1. o \in Live /\ o \in Objects
      BY <1>1 DEF Live
    <3>2. groups[o].members[m] = "ok"
      BY <1>1, <2>1, <3>1, StartMembers DEF NoMember
    <3>3. Usable(o, m)
      BY <1>2, <1>4, <2>1, <3>1, <3>2 DEF Usable, Settled
    <3>4. groups[o].id \in table[m] /\ <<groups[o].id, m>> \in acl[Node(m)]
      BY <3>1, <3>3 DEF ListsInv, ListsKept
    <3> QED
      BY <1>2, <1>4, <3>1, <3>4 DEF deviceVars
  <2> QED
    BY <2>1 DEF ListsKept, Usable, Settled
<1>12. NothingLeft'
  <2>1. ASSUME NEW g \in Gids, NEW m \in Members, <<"member", g, m>> \notin unsettled', Node(m) \in paired',
               ~UnderWay(g, m)', \A o \in Live' : groups'[o].id = g => m \notin Listed(o)'
        PROVE  g \notin table'[m] /\ <<g, m>> \notin acl'[Node(m)]
    <3>1. ASSUME NEW x \in Pending' PROVE <<"member", g, m>> \notin Concerns(req[x])'
      BY <2>1 DEF UnderWay
    <3>2. ~UnderWay(g, m)
      <4> SUFFICES ASSUME NEW x \in Pending, <<"member", g, m>> \in Concerns(req[x]) PROVE FALSE
        BY DEF UnderWay
      <4>1. x \in Pending' /\ x # r
        BY <1>2 DEF Comes
      <4>2. PICK w, p \in Request : p = req'[x] /\ Concerns(p)' = Concerns(w) /\ w = req[x]
        BY <1>1, <4>1, ComesView
      <4>3. Concerns(p)' = Concerns(req[x])'
        BY <4>2 DEF Concerns, About, Kind, Gid, PortsOf
      <4> QED
        BY <3>1, <4>1, <4>2, <4>3
    <3>3. ASSUME NEW o \in Live, groups[o].id = g, groups[o].members[m] # NoMember PROVE FALSE
      <4>1. o \in Objects /\ o \in Live'
        BY <1>1 DEF Live
      <4>2. groups'[o].members[m] = NoMember
        BY <1>4, <2>1, <3>3, <4>1 DEF Listed
      <4>3. q.op = "remove" /\ o = q.group /\ m = q.port
        BY <1>1, <3>3, <4>1, <4>2, StartMembers DEF NoMember
      <4>4. r \in Pending'
        BY DEF Comes
      <4>5. PICK w, p \in Request : p = req'[r] /\ Concerns(p)' = Concerns(w) /\ w = q
        BY <1>1, <4>4, ComesView
      <4>6. <<"member", g, m>> \in Concerns(q)
        BY <1>1, <3>3, <4>3 DEF Concerns, About, Kind, Gid, PortsOf
      <4>7. Concerns(p)' = Concerns(req[r])'
        BY <4>5 DEF Concerns, About, Kind, Gid, PortsOf
      <4> QED
        BY <3>1, <4>4, <4>5, <4>6, <4>7
    <3>4. Settled("member", g, m)
      BY <1>2, <2>1 DEF Settled
    <3> QED
      BY <1>2, <3>2, <3>3, <3>4 DEF ListsInv, NothingLeft, Listed, deviceVars
  <2> QED
    BY <2>1 DEF NothingLeft, Settled
<1> QED
  BY <1>3, <1>5, <1>6, <1>7, <1>8, <1>9, <1>10, <1>11, <1>12 DEF ListsInv

\* What a request is about does not change with other groups.
LEMMA SameElse ==
  ASSUME TInv, req' = req, NEW x \in Pending, groups'[req[x].group] = groups[req[x].group]
  PROVE  /\ Gid(req[x])' = Gid(req[x]) /\ Grantee(req[x])' = Grantee(req[x]) /\ Concerns(req[x])' = Concerns(req[x])
         /\ KeySet(req[x])' = KeySet(req[x]) /\ Listed(req[x].group)' = Listed(req[x].group)
  BY DEF Gid, Grantee, Concerns, About, Kind, PortsOf, KeySet, Listed

LEMMA SamePending ==
  ASSUME req' = req
  PROVE  Pending' = Pending /\ \A x, y \in Pending : Meets(req[x], req[y])' <=> Meets(req[x], req[y])
  BY DEF Pending, Meets, NodesOf, PortsOf

LEMMA CreateInv ==
  ASSUME ListsInv, NEW o \in Objects, NEW g \in Gids, NEW k \in Gids, Creates(o, g, k)
  PROVE  ListsInv'
<1>1. /\ TInv /\ TInv' /\ Live' = Live \cup {o} /\ o \notin Live /\ Listed(o)' = {}
      /\ \A x \in Objects \ {o} : groups'[x] = groups[x]
      /\ \A x \in Pending : req[x].group # o
  BY CreateTInv DEF ListsInv
<1>2. UNCHANGED <<paired, deviceVars, req, unsettled>> /\ Save
  BY DEF Creates
<1>3. Pending' = Pending
  BY <1>2, SamePending
<1>4. \A x \in Pending : /\ Gid(req[x])' = Gid(req[x]) /\ Grantee(req[x])' = Grantee(req[x])
                         /\ Concerns(req[x])' = Concerns(req[x]) /\ Listed(req[x].group)' = Listed(req[x].group)
  <2>1. \A x \in Pending : req[x].group \in Objects \ {o}
    BY <1>1 DEF TInv, TypeOK, Pending, Request
  <2> QED
    BY <1>1, <1>2, <2>1, SameElse
<1>5. Private'
  BY <1>2, <1>3, <1>4, SamePending DEF ListsInv, Private
<1>6. AloneLive' /\ SavedMembers'
  BY <1>1, <1>2, <1>3 DEF ListsInv, AloneLive, OfMember, SavedMembers, Save
<1>7. DeleteLeft'
  BY <1>1, <1>2, <1>3, <1>4 DEF ListsInv, DeleteLeft
<1>8. Unlisted'
  BY <1>2, <1>3, <1>4 DEF ListsInv, Unlisted
<1>9. Own'
  <2>1. ASSUME NEW x \in Pending, req[x].alone PROVE OwnLists(req[x])'
    <3>1. OwnLists(req[x])
      BY <2>1 DEF ListsInv, Own
    <3> QED
      BY <1>2, <1>4, <3>1 DEF OwnLists, deviceVars
  <2> QED
    BY <1>2, <1>3, <2>1 DEF Own
<1>10. AclAgree'
  BY <1>2, <1>3, <1>4 DEF ListsInv, AclAgree, deviceVars
<1>11. ASSUME NEW x \in Live', NEW m \in Members, groups'[x].members[m] # NoMember
       PROVE  x \in Live /\ groups'[x] = groups[x]
  BY <1>1, <1>11 DEF Listed, Live
<1>12. ListsKept'
  <2>1. ASSUME NEW x \in Live', NEW m \in Members, Usable(x, m)'
        PROVE  groups'[x].id \in table'[m] /\ <<groups'[x].id, m>> \in acl'[Node(m)]
    <3>1. x \in Live /\ groups'[x] = groups[x]
      BY <1>11, <2>1 DEF Usable, NoMember
    <3>2. Usable(x, m)
      BY <1>2, <2>1, <3>1 DEF Usable, Settled
    <3> QED
      BY <1>2, <3>1, <3>2 DEF ListsInv, ListsKept, deviceVars
  <2> QED
    BY <2>1 DEF ListsKept
<1>13. NothingLeft'
  <2>1. ASSUME NEW i \in Gids, NEW m \in Members, Settled("member", i, m)', ~UnderWay(i, m)',
               \A x \in Live' : groups'[x].id = i => m \notin Listed(x)'
        PROVE  i \notin table'[m] /\ <<i, m>> \notin acl'[Node(m)]
    <3>1. Settled("member", i, m) /\ ~UnderWay(i, m)
      BY <1>2, <1>3, <1>4, <2>1 DEF Settled, UnderWay
    <3>2. \A x \in Live : groups[x].id = i => m \notin Listed(x)
      BY <1>1, <2>1 DEF Live, Listed
    <3> QED
      BY <1>2, <3>1, <3>2 DEF ListsInv, NothingLeft, deviceVars
  <2> QED
    BY <2>1 DEF NothingLeft
<1> QED
  BY <1>1, <1>5, <1>6, <1>7, <1>8, <1>9, <1>10, <1>12, <1>13 DEF ListsInv

\* A device that comes, goes or is removed, and nothing at all.
LEMMA RestInv ==
  ASSUME ListsInv, TInv', UNCHANGED <<deviceVars, storeVars, req, unsettled>>, paired' \subseteq paired
  PROVE  ListsInv'
<1>1. Pending' = Pending /\ Live' = Live /\ groups' = groups /\ saved' = saved
  BY DEF Pending, Live, storeVars
<1>2. /\ \A x : Listed(x)' = Listed(x)
      /\ \A x \in Pending : /\ Gid(req[x])' = Gid(req[x]) /\ Grantee(req[x])' = Grantee(req[x])
                            /\ Concerns(req[x])' = Concerns(req[x])
  BY <1>1 DEF Gid, Grantee, Concerns, About, Kind, PortsOf, Listed
<1>3. Private'
  BY <1>1, <1>2, SamePending DEF ListsInv, Private
<1>4. AloneLive' /\ SavedMembers' /\ DeleteLeft' /\ Unlisted'
  BY <1>1, <1>2 DEF ListsInv, AloneLive, OfMember, SavedMembers, DeleteLeft, Unlisted
<1>5. Own'
  <2>1. ASSUME NEW x \in Pending, req[x].alone PROVE OwnLists(req[x])'
    <3>1. OwnLists(req[x])
      BY <2>1 DEF ListsInv, Own
    <3> QED
      BY <1>2, <3>1 DEF OwnLists, deviceVars
  <2> QED
    BY <1>1, <2>1 DEF Own
<1>6. AclAgree'
  BY <1>1, <1>2 DEF ListsInv, AclAgree, deviceVars
<1>7. ListsKept'
  BY <1>1 DEF ListsInv, ListsKept, Usable, Settled, deviceVars
<1>8. NothingLeft'
  <2>1. ASSUME NEW i \in Gids, NEW m \in Members, Settled("member", i, m)', ~UnderWay(i, m)',
               \A x \in Live' : groups'[x].id = i => m \notin Listed(x)'
        PROVE  i \notin table'[m] /\ <<i, m>> \notin acl'[Node(m)]
    <3>1. Settled("member", i, m) /\ ~UnderWay(i, m)
      BY <1>1, <1>2, <2>1 DEF Settled, UnderWay
    <3>2. \A x \in Live : groups[x].id = i => m \notin Listed(x)
      BY <1>1, <1>2, <2>1
    <3> QED
      BY <3>1, <3>2 DEF ListsInv, NothingLeft, deviceVars
  <2> QED
    BY <2>1 DEF NothingLeft
<1> QED
  BY <1>3, <1>4, <1>5, <1>6, <1>7, <1>8 DEF ListsInv

\* Where the store read back is not what it was, a deletion was under way.
LEMMA CrashSame ==
  ASSUME ListsInv, Crash, NEW o \in Live, NEW m \in Members, <<"member", groups[o].id, m>> \notin unsettled'
  PROVE  groups'[o].members[m] = groups[o].members[m]
<1>1. /\ groups' = saved.groups
      /\ \A x \in Pending : req[x].op = "delete" => About(req[x], Members) \subseteq unsettled'
  BY CrashGroups DEF ListsInv
<1> SUFFICES ASSUME groups'[o].members[m] # groups[o].members[m] PROVE FALSE
  OBVIOUS
<1>2. PICK x \in Pending : req[x].op = "delete" /\ req[x].group = o
  BY <1>1 DEF ListsInv, SavedMembers, Live
<1>3. <<"member", groups[o].id, m>> \in About(req[x], Members)
  BY <1>2 DEF About, Kind, Gid
<1> QED
  BY <1>1, <1>2, <1>3

LEMMA CrashInv ==
  ASSUME ListsInv, Crash
  PROVE  ListsInv'
<1>1. /\ TInv' /\ GroupsKept /\ Live' = Live /\ Pending' = {}
      /\ groups' = saved.groups /\ UNCHANGED <<paired, deviceVars, saved>> /\ unsettled \subseteq unsettled'
      /\ \A x \in Pending : Concerns(req[x]) \subseteq unsettled' /\ (req[x].op = "delete" => About(req[x], Members) \subseteq unsettled')
  BY CrashGroups DEF ListsInv
<1>2. Private' /\ AloneLive' /\ DeleteLeft' /\ Unlisted' /\ Own' /\ AclAgree' /\ SavedMembers'
  BY <1>1 DEF Private, AloneLive, DeleteLeft, Unlisted, Own, AclAgree, SavedMembers
<1>3. ASSUME NEW o \in Live, NEW m \in Members, <<"member", groups[o].id, m>> \notin unsettled'
      PROVE  groups'[o].members[m] = groups[o].members[m]
  BY <1>3, CrashSame
<1>4. \A o \in Live : groups'[o].id = groups[o].id
  BY <1>1 DEF GroupsKept, Live
<1>5. ListsKept'
  <2>1. ASSUME NEW o \in Live', NEW m \in Members, Usable(o, m)'
        PROVE  groups'[o].id \in table'[m] /\ <<groups'[o].id, m>> \in acl'[Node(m)]
    <3>1. Usable(o, m)
      BY <1>1, <1>3, <1>4, <2>1 DEF Usable, Settled
    <3> QED
      BY <1>1, <1>4, <3>1 DEF ListsInv, ListsKept, deviceVars
  <2> QED
    BY <2>1 DEF ListsKept
<1>6. NothingLeft'
  <2>1. ASSUME NEW i \in Gids, NEW m \in Members, Settled("member", i, m)',
               \A x \in Live' : groups'[x].id = i => m \notin Listed(x)'
        PROVE  i \notin table'[m] /\ <<i, m>> \notin acl'[Node(m)]
    <3>1. Settled("member", i, m) /\ ~UnderWay(i, m)
      BY <1>1, <2>1 DEF Settled, UnderWay
    <3>2. \A x \in Live : groups[x].id = i => m \notin Listed(x)
      BY <1>1, <1>3, <1>4, <2>1 DEF Settled, Listed
    <3> QED
      BY <1>1, <3>1, <3>2 DEF ListsInv, NothingLeft, deviceVars
  <2> QED
    BY <2>1 DEF NothingLeft
<1> QED
  BY <1>1, <1>2, <1>5, <1>6 DEF ListsInv

LEMMA InitLists == Init => ListsInv
<1> SUFFICES ASSUME Init PROVE ListsInv
  OBVIOUS
<1>1. TInv /\ Pending = {}
  BY InitTInv DEF Init, Pending
<1>2. Private /\ AloneLive /\ DeleteLeft /\ Unlisted /\ Own /\ AclAgree /\ SavedMembers
  BY <1>1 DEF Private, AloneLive, DeleteLeft, Unlisted, Own, AclAgree, SavedMembers, Init
<1>3. PICK joined \in Start :
        /\ groups = InitGroups(joined)
        /\ table = [p \in Members |-> {o \in 1 .. Made : <<o, p>> \in joined}]
        /\ acl = [n \in Nodes |-> {x \in joined : Node(x[2]) = n}]
  BY DEF Init
<1>n. Made \in Nat /\ MaxObjects \in Nat /\ Made <= MaxObjects
  BY GroupsOK
<1>i. ASSUME NEW o \in Objects
      PROVE  /\ o > Made => ~groups[o].live
             /\ ~(o > Made) => groups[o] = [id |-> o, ks |-> SharedSet, live |-> TRUE,
                                            members |-> [p \in Members |-> IF <<o, p>> \in joined THEN "ok" ELSE NoMember]]
  <2>1. o > Made => groups[o] = NotMade
    BY <1>3 DEF InitGroups
  <2>2. ~(o > Made) => groups[o] = [id |-> o, ks |-> SharedSet, live |-> TRUE,
                                    members |-> [p \in Members |-> IF <<o, p>> \in joined THEN "ok" ELSE NoMember]]
    BY <1>3 DEF InitGroups, NewGroup
  <2>3. ~NotMade.live
    BY DEF NotMade
  <2> QED
    BY <2>1, <2>2, <2>3
<1>4. ASSUME NEW o \in Live, NEW m \in Members
      PROVE  o \in 1 .. Made /\ groups[o].id = o /\ groups[o].members[m] = IF <<o, m>> \in joined THEN "ok" ELSE NoMember
  <2>1. o \in Objects /\ groups[o].live
    BY DEF Live
  <2>2. ~(o > Made)
    BY <1>i, <2>1
  <2>3. o \in 1 .. Made
    BY <1>n, <2>1, <2>2 DEF Objects
  <2>4. groups[o] = [id |-> o, ks |-> SharedSet, live |-> TRUE,
                     members |-> [p \in Members |-> IF <<o, p>> \in joined THEN "ok" ELSE NoMember]]
    BY <1>i, <2>1, <2>2
  <2> QED
    BY <2>3, <2>4
<1>5. \A m \in Members : Node(m) \in Nodes
  BY DEF Nodes, Ports
<1>6. ListsKept
  BY <1>3, <1>4, <1>5 DEF ListsKept, Usable, NoMember
<1>7. NothingLeft
  <2>1. ASSUME NEW g \in Gids, NEW m \in Members, \A o \in Live : groups[o].id = g => m \notin Listed(o)
        PROVE  <<g, m>> \notin joined
    <3> SUFFICES ASSUME <<g, m>> \in joined PROVE FALSE
      OBVIOUS
    <3>1. g \in 1 .. Made /\ g \in Objects
      BY <1>n, GroupsOK DEF Objects
    <3>2. ~(g > Made)
      BY <1>n, <3>1
    <3>3. g \in Live
      <4>1. groups[g] = [id |-> g, ks |-> SharedSet, live |-> TRUE,
                         members |-> [p \in Members |-> IF <<g, p>> \in joined THEN "ok" ELSE NoMember]]
        BY <1>i, <3>1, <3>2
      <4>2. groups[g].live
        BY <4>1
      <4> QED
        BY <3>1, <4>2 DEF Live
    <3> QED
      BY <1>4, <2>1, <3>3 DEF Listed, NoMember
  <2> QED
    BY <1>3, <1>5, <2>1 DEF NothingLeft
<1> QED
  BY <1>1, <1>2, <1>6, <1>7 DEF ListsInv

LEMMA StepInv ==
  ASSUME ListsInv, NEW r \in Reqs, RequestStep(r)
  PROVE  ListsInv'
<1>1. TInv' /\ TInv
  BY StepTInv DEF ListsInv
<1>2. PICK q \in Request : q = req[r] /\ Whole(q) /\ (Act(r, q) \/ Picks(r, q) \/ Deletes(r, q))
  BY <1>1, StepActs
<1>3. r \in Pending /\ paired' = paired
  BY <1>1, StepActs
<1>4. Moves(r, q)
  BY <1>1, <1>2, <1>3, StepIsMove
<1>5. Private'
  BY <1>1, <1>2, <1>3, <1>4, PrivateStep DEF ListsInv
<1>6. AloneLive'
  BY <1>1, <1>2, <1>3, <1>4, AloneLiveStep DEF ListsInv
<1>7. SavedMembers'
  BY <1>1, <1>2, <1>3, <1>4, SavedStep DEF ListsInv
<1>8. DeleteLeft'
  BY <1>1, <1>2, <1>3, <1>4, DeleteLeftStep DEF ListsInv
<1>9. Unlisted'
  BY <1>1, <1>2, <1>3, <1>4, UnlistedStep DEF ListsInv
<1>10. Own'
  BY <1>1, <1>2, <1>3, <1>4, OwnStep DEF ListsInv
<1>11. AclAgree'
  BY <1>1, <1>2, <1>3, <1>4, AclAgreeStep DEF ListsInv
<1>12. ListsKept'
  BY <1>1, <1>2, <1>3, <1>4, ListsKeptStep DEF ListsInv
<1>13. NothingLeft'
  BY <1>1, <1>2, <1>3, <1>4, NothingLeftStep DEF ListsInv
<1> QED
  BY <1>1, <1>5, <1>6, <1>7, <1>8, <1>9, <1>10, <1>11, <1>12, <1>13 DEF ListsInv

LEMMA NextLists == ListsInv /\ [Next]_vars => ListsInv'
<1> SUFFICES ASSUME ListsInv, [Next]_vars PROVE ListsInv'
  OBVIOUS
<1>1. TInv /\ TInv'
  BY NextTInv DEF ListsInv
<1>2. CASE UNCHANGED vars
  BY <1>1, <1>2, RestInv DEF vars
<1>3. ASSUME NEW own \in BOOLEAN, Create(own) PROVE ListsInv'
  BY <1>1, <1>3, CreateCreates, CreateInv DEF TInv
<1>4. ASSUME NEW r \in Reqs, NEW o \in Objects, Arrivals(r, o) PROVE ListsInv'
  BY <1>1, <1>4, ArrivalsStart, StartsInv DEF TInv
<1>5. ASSUME NEW r \in Reqs, RequestStep(r) PROVE ListsInv'
  BY <1>5, StepInv
<1>6. ASSUME NEW n \in Nodes, GoOffline(n) \/ ComeOnline(n) \/ Unpair(n) PROVE ListsInv'
  BY <1>1, <1>6, DevicesTInv, RestInv
<1>7. CASE Crash
  BY <1>7, CrashInv
<1> QED
  BY <1>2, <1>3, <1>4, <1>5, <1>6, <1>7, NextIs

\* An endpoint in no group's list is in no group's table and has no grant,
\* where the answer to the last request about it told of no problem: for all
\* groups, with or without key sets of their own, deletions cut short by a
\* crash, lost answers and devices removed included.  This is what removeGroupMember
\* and deleteGroup promise with an answer without warnings.
THEOREM NothingIsLeft == Spec => []NothingLeft
<1>1. Init => ListsInv
  BY InitLists
<1>2. ListsInv /\ [Next]_vars => ListsInv'
  BY NextLists
<1>3. ListsInv => NothingLeft
  BY DEF ListsInv
<1> QED
  BY <1>1, <1>2, <1>3, PTL DEF Spec

-----------------------------------------------------------------------------
(* Key set and map, where all groups share one key set *)

\* No endpoint of a bound source's device is in a group or bound too: a removal
\* asks the members of one group only (controller.js:1145, 1424).
SourcesApart ==
  /\ \A s \in Sources, p \in Members : Node(s) # Node(p)
  /\ \A s, t \in Sources : Node(s) = Node(t) => s = t

\* A device needs the group: for a member, or for a source.
NeedsMember(g, n) == \E o \in Live, p \in Members : Node(p) = n /\ groups[o].id = g /\ Usable(o, p)
NeedsSource(g, n) ==
  SourcesApart /\ \E s \in Sources : Node(s) = n /\ g \in bound[s] /\ Settled("source", g, s)
Needs(g, n) == NeedsMember(g, n) \/ NeedsSource(g, n)

OwnKeySet == \A r \in Pending : req[r].alone => OwnKey(req[r])
\* A Binding list about to be written is the device's, the entries in doubt
\* and its own aside.
BoundAgree ==
  \A r \in Pending : req[r].pc \in {"enter", "drop"} =>
    \A g \in Gids : <<"source", g, req[r].port>> \notin unsettled /\ g # Gid(req[r]) =>
      (g \in req[r].list <=> g \in bound[req[r].port])
\* What is needed is there, and in every map that is written back.
KeysKept == \A g \in Gids, n \in Nodes : Needs(g, n) => KeyThere(g, n) /\ sets[SharedSet].key # 0
MapKept ==
  \A r \in Pending : UsesMap(req[r]) =>
    \A g \in Gids : Needs(g, Node(req[r].port)) => req[r].map[g] = SharedSet
\* What is being dropped is not needed.
DropOK ==
  \A r \in Pending : req[r].pc \in Dropping =>
    /\ ~Needs(Gid(req[r]), Node(req[r].port))
    /\ req[r].pc = "keyRemove" => \A g \in Gids : ~Needs(g, Node(req[r].port))
\* A request whose group is gone has met those that come to a group with the
\* same number.
DeadOK ==
  \A r \in Pending : OfMember(req[r]) /\ req[r].group \notin Live =>
    \A o \in Live, p \in Members : groups[o].id = Gid(req[r]) /\ Node(p) \in NodesOf(req[r]) => ~Usable(o, p)
KeyInv ==
  /\ ListsInv /\ OneKey /\ OwnKeySet /\ BoundAgree
  /\ KeysKept /\ MapKept /\ DropOK /\ DeadOK

-----------------------------------------------------------------------------
(* A step of a request *)

LEMMA OneKeyStep ==
  ASSUME TInv, OneKey, NEW r \in Pending, NEW q \in Request, q = req[r], Whole(q),
         Act(r, q) \/ Picks(r, q) \/ Deletes(r, q), Moves(r, q)
  PROVE  OneKey' /\ sets' = sets
<1>1. TypeOK /\ GroupsKept /\ 1 \in Gids /\ SharedSet \in Gids
  BY GroupsOK DEF TInv, Moves, SharedSet
<1>2. KeySet(q) = SharedSet /\ sets[SharedSet].key # 0 /\ sets[SharedSet].shared
  BY Shares DEF Whole, OneKey
<1>3. sets' = sets
  BY <1>2 DEF Act, Picks, Deletes, StoreEffect, storeVars
<1>4. ASSUME NEW n \in Nodes PROVE keys'[n][SharedSet] \in {0, sets'[SharedSet].key}
  <2>1. CASE q.pc = "next" \/ n # Node(q.port)
    BY <1>1, <1>3, <2>1, Elsewhere DEF OneKey
  <2>2. CASE q.pc # "next" /\ keys' = keys
    BY <1>3, <2>2 DEF OneKey
  <2>3. CASE q.pc # "next" /\ n = Node(q.port)
             /\ SetKey(q, IF q.pc = "keyWrite" THEN sets[KeySet(q)].key ELSE 0)
    <3>1. keys'[n][SharedSet] = IF q.pc = "keyWrite" THEN sets[KeySet(q)].key ELSE 0
      BY <1>1, <1>2, <2>3 DEF SetKey, TypeOK
    <3> QED
      BY <1>2, <1>3, <3>1
  <2> QED
    BY <2>1, <2>2, <2>3 DEF Act, Picks, Deletes, DevEffect, deviceVars
<1> QED
  BY <1>1, <1>3, <1>4 DEF OneKey, GroupsKept

LEMMA OtherBound ==
  ASSUME TInv, BoundAgree, NEW r \in Pending, NEW q \in Request, q = req[r], Whole(q),
         Act(r, q) \/ Picks(r, q) \/ Deletes(r, q),
         NEW g \in Gids, NEW s \in Sources,
         <<"source", g, s>> \notin unsettled,
         OfMember(q) \/ <<g, s>> # Grantee(q)
  PROVE  g \in bound'[s] <=> g \in bound[s]
<1>1. TypeOK
  BY DEF TInv
<1>2. CASE UNCHANGED bound
  BY <1>2
<1>3. CASE q.pc \in {"enter", "drop"} /\ SetBound(q, q.list)
  <2>1. ~OfMember(q) /\ q.port \in Sources
    BY <1>3 DEF Whole, Form, Providing, Dropping, OfMember, Request
  <2>2. CASE s # q.port
    BY <1>1, <1>3, <2>1, <2>2 DEF SetBound, TypeOK
  <2>3. CASE s = q.port
    <3>1. bound'[s] = q.list
      BY <1>1, <1>3, <2>3 DEF SetBound, TypeOK
    <3>2. g # Gid(q)
      BY <2>1, <2>3 DEF Grantee
    <3> QED
      BY <1>3, <2>3, <3>1, <3>2 DEF BoundAgree
  <2> QED
    BY <2>2, <2>3
<1> QED
  BY <1>2, <1>3 DEF Act, Picks, Deletes, DevEffect, deviceVars

LEMMA SourceSettled ==
  ASSUME TInv, NEW r \in Pending, NEW q \in Request, Whole(q), Moves(r, q), NEW g \in Gids, NEW s \in Sources,
         <<"source", g, s>> \in unsettled, <<"source", g, s>> \notin unsettled'
  PROVE  q.alone /\ ~OfMember(q) /\ q.pc # "next" /\ <<g, s>> = Grantee(q)
<1>1. q.alone /\ <<"source", g, s>> \in About(q, {q.port})
  BY DEF Moves
<1>2. ~OfMember(q) /\ g = Gid(q) /\ s = q.port
  BY <1>1 DEF About, Kind, OfMember
<1>3. NoPort \notin Sources
  BY GroupsOK DEF Ports
<1> QED
  BY <1>1, <1>2, <1>3 DEF Grantee, Whole, Form

LEMMA BoundAgreeStep ==
  ASSUME TInv, Private, BoundAgree, NEW r \in Pending, NEW q \in Request, q = req[r], Whole(q),
         Act(r, q) \/ Picks(r, q) \/ Deletes(r, q), Moves(r, q)
  PROVE  BoundAgree'
<1>1. ASSUME NEW x \in Pending', NEW p \in Request, p = req'[x], p.pc \in {"enter", "drop"},
             NEW g \in Gids, <<"source", g, p.port>> \notin unsettled', g # Gid(p)'
      PROVE  g \in p.list <=> g \in bound'[p.port]
  <2>1. PICK w \in Request : w = req[x] /\ (x = r => w = q) /\ (x # r => p = w) /\ Gid(p)' = Gid(w)
    BY <1>1, MoveView
  <2>2. x \in Pending /\ TypeOK /\ GroupsKept /\ Whole(w)
    BY <2>1, MoveView DEF TInv, Moves
  <2>3. CASE x = r
    <3>1. r \in Pending'
      BY <1>1, <2>3
    <3>2. PICK v \in Request : v = req'[r] /\ Becomes(r, q, v)
      BY <3>1, StepNext
    <3>3. v = p
      BY <1>1, <2>3, <3>2
    <3>4. GoesOn(r, q, p)
      BY <1>1, <3>2, <3>3 DEF Becomes
    <3> QED
      BY <1>1, <2>1, <2>3, <3>4 DEF GoesOn, Carries, Alike
  <2>4. CASE x # r
    <3>1. p = w /\ w.pc \in {"enter", "drop"} /\ w.port \in Sources /\ w.port # NoPort
      BY <1>1, <2>1, <2>2, <2>4, PortType DEF Whole, Form, Providing, Dropping, Request
    <3>2. CASE w.port # q.port
      <4>1. bound'[w.port] = bound[w.port]
        BY <2>2, <3>1, <3>2, Elsewhere
      <4>2. <<"source", g, w.port>> \notin unsettled
        <5> SUFFICES ASSUME <<"source", g, w.port>> \in unsettled PROVE FALSE
          OBVIOUS
        <5>1. w.port = q.port
          BY <1>1, <3>1, SourceSettled DEF Grantee
        <5> QED
          BY <3>2, <5>1
      <4> QED
        BY <1>1, <2>1, <2>2, <3>1, <4>1, <4>2 DEF BoundAgree
    <3>3. CASE w.port = q.port
      <4>1. Meets(q, w)
        BY <3>1, <3>3 DEF Meets, NodesOf, PortsOf
      <4>2. ~q.alone
        BY <2>1, <2>2, <2>4, <4>1 DEF Private
      <4>3. Concerns(q) \subseteq unsettled /\ unsettled \subseteq unsettled'
        BY <4>2 DEF Private, Moves
      <4>4. OfMember(q) \/ <<g, w.port>> # Grantee(q)
        <5> SUFFICES ASSUME ~OfMember(q), <<g, w.port>> = Grantee(q) PROVE <<"source", g, w.port>> \in Concerns(q)
          BY <1>1, <3>1, <4>3
        <5> QED
          BY <3>1, <3>3 DEF OfMember, Grantee, Concerns, About, Kind, PortsOf, Request
      <4>5. <<"source", g, w.port>> \notin unsettled
        BY <1>1, <3>1, <4>3
      <4>6. g \in bound'[w.port] <=> g \in bound[w.port]
        BY <3>1, <4>4, <4>5, OtherBound
      <4> QED
        BY <1>1, <2>1, <2>2, <3>1, <4>5, <4>6 DEF BoundAgree
    <3> QED
      BY <3>2, <3>3
  <2> QED
    BY <2>3, <2>4
<1>2. ASSUME NEW x \in Pending', req'[x].pc \in {"enter", "drop"},
             NEW g \in Gids, <<"source", g, req'[x].port>> \notin unsettled', g # Gid(req[x])'
      PROVE  g \in req'[x].list <=> g \in bound'[req'[x].port]
  <2>1. PICK p \in Request : p = req'[x]
    BY MoveView
  <2>2. Gid(p)' = Gid(req[x])'
    BY <2>1 DEF Gid
  <2> QED
    BY <1>1, <1>2, <2>1, <2>2
<1> QED
  BY <1>2 DEF BoundAgree

LEMMA OwnKeySetStep ==
  ASSUME TInv, Private, OneKey, OwnKeySet, NEW r \in Pending, NEW q \in Request, q = req[r], Whole(q),
         Act(r, q) \/ Picks(r, q) \/ Deletes(r, q), Moves(r, q)
  PROVE  OwnKeySet'
<1>0. sets' = sets
  BY OneKeyStep
<1>1. ASSUME NEW x \in Pending', req'[x].alone PROVE OwnKey(req[x])'
  <2>1. PICK w, p \in Request : /\ w = req[x] /\ p = req'[x] /\ p.op = w.op /\ p.group = w.group /\ p.alone = w.alone
                                /\ Gid(w)' = Gid(w) /\ (x = r => w = q) /\ (x # r => p = w)
    BY MoveView
  <2>2. x \in Pending /\ OwnKey(w) /\ Whole(w) /\ TypeOK /\ GroupsKept
    BY <1>1, <2>1, MoveView DEF OwnKeySet, TInv, Moves
  <2>3. OwnKey(p)'
    <3>1. CASE x = r
      <4>1. CASE GoesOn(r, q, p)
        BY <2>1, <2>2, <3>1, <4>1 DEF GoesOn, Carries
      <4>2. CASE p.op = "delete" /\ p.pc \in {"next", "leave"}
        BY <4>2 DEF OwnKey
      <4>0. r \in Pending' /\ p = req'[r]
        BY <1>1, <2>1, <3>1
      <4>3. PICK v \in Request : v = req'[r] /\ Becomes(r, q, v)
        BY <4>0, StepNext
      <4>4. GoesOn(r, q, p) \/ (p.op = "delete" /\ p.pc \in {"next", "leave"})
        BY <2>1, <3>1, <4>0, <4>3 DEF Becomes
      <4> QED
        BY <4>1, <4>2, <4>4
    <3>2. CASE x # r
      <4>1. CASE w.pc = "next"
        <5>1. w.op = "delete"
          BY <2>2, <4>1 DEF Whole, Form, Providing, Dropping, Request
        <5> QED
          BY <2>1, <3>2, <4>1, <5>1 DEF OwnKey
      <4>2. CASE w.pc # "next" /\ (q.pc = "next" \/ Node(w.port) # Node(q.port))
        <5>1. Node(w.port) \in Nodes
          BY <2>2, <4>2, PortType
        <5>2. keys'[Node(w.port)] = keys[Node(w.port)] /\ keyMap'[Node(w.port)] = keyMap[Node(w.port)]
          BY <2>2, <4>2, <5>1, Elsewhere
        <5>3. OwnKey(w)'
          BY <1>0, <2>1, <2>2, <5>2 DEF OwnKey, KeyThere
        <5> QED
          BY <2>1, <3>2, <5>3
      <4>3. CASE w.pc # "next" /\ q.pc # "next" /\ Node(w.port) = Node(q.port)
        <5>1. w.port # NoPort /\ q.port # NoPort
          BY <2>2, <4>3, PortType
        <5>2. Meets(w, q)
          BY <4>3, <5>1 DEF Meets, NodesOf, PortsOf
        <5> QED
          BY <1>1, <2>1, <2>2, <3>2, <5>2 DEF Private
      <4> QED
        BY <4>1, <4>2, <4>3
    <3> QED
      BY <3>1, <3>2
  <2> QED
    BY <2>1, <2>3
<1> QED
  BY <1>1 DEF OwnKeySet

\* A need that is new: the key set has been provided for it.
NewNeed(r, q, g, n) ==
  /\ q.alone /\ q.op \in {"add", "bind"} /\ q.pc # "next" /\ g = Gid(q) /\ n = Node(q.port)
  /\ KeyThere(g, n)'
  /\ r \in Pending' => ~UsesMap(req'[r])

LEMMA EndsProvided ==
  ASSUME TInv, OneKey, OwnKeySet, NEW r \in Pending, NEW q \in Request, q = req[r], Whole(q), Moves(r, q),
         q.alone, q.op \in {"add", "bind"}, q.pc # "next", Ends(r, q), ~(About(q, {q.port}) \subseteq unsettled')
  PROVE  NewNeed(r, q, Gid(q), Node(q.port))
<1>1. Gid(q)' = Gid(q)
  BY SameGroup DEF Moves
<1>2. KeyThere(Gid(q), Node(q.port))'
  BY DEF Ends, OwnKeySet
<1>3. r \notin Pending'
  BY DEF Ends, Pending, TInv, TypeOK
<1> QED
  BY <1>1, <1>2, <1>3 DEF NewNeed, KeyThere

LEMMA NewMember ==
  ASSUME ListsInv, OneKey, OwnKeySet, paired' = paired,
         NEW r \in Pending, NEW q \in Request, q = req[r], Whole(q),
         Act(r, q) \/ Picks(r, q) \/ Deletes(r, q), Moves(r, q),
         NEW o \in Live', NEW m \in Members, Usable(o, m)', ~Usable(o, m)
  PROVE  NewNeed(r, q, groups[o].id, Node(m)) /\ q.op = "add" /\ m = q.port
<1>0. TInv /\ TypeOK /\ GroupsKept /\ o \in Objects /\ o \in Live
  BY LiveAfter DEF ListsInv, TInv, Moves, Live
<1>1. PICK g : g = groups[o].id
  OBVIOUS
<1>2. groups'[o].id = g /\ g \in Gids
  BY <1>0, <1>1 DEF GroupsKept, TypeOK, Group
<1>3. groups'[o].members[m] = "ok" /\ <<"member", g, m>> \notin unsettled' /\ Node(m) \in paired
  BY <1>2 DEF Usable, Settled
<1>4. OfMember(q) /\ q.pc # "next" /\ <<g, m>> = Grantee(q)
  <2> SUFFICES ASSUME ~(OfMember(q) /\ q.pc # "next" /\ <<g, m>> = Grantee(q)) PROVE FALSE
    OBVIOUS
  <2>1. <<"member", g, m>> \notin unsettled
    BY <1>0, <1>2, <1>3, BecomesSettled
  <2>2. groups[o].members[m] = "ok"
    <3>1. CASE q.op = "add" /\ q.pc # "next" /\ o = q.group /\ m = q.port
      BY <1>1, <3>1 DEF OfMember, Grantee, Gid
    <3>2. CASE groups'[o].members[m] = NoMember
      BY <1>3, <3>2 DEF NoMember
    <3> QED
      BY <1>0, <1>3, <3>1, <3>2, StepMembers
  <2> QED
    BY <1>1, <1>3, <2>1, <2>2 DEF Usable, Settled
<1>5. g = Gid(q) /\ m = q.port /\ q.port # NoPort /\ Act(r, q)
  BY <1>0, <1>4, PortType DEF Grantee, Picks, Deletes
<1>6. <<"member", g, m>> \in About(q, {q.port}) /\ About(q, {q.port}) \subseteq Concerns(q)
  BY <1>4, <1>5 DEF About, Kind, OfMember, Concerns, PortsOf
<1>7. q.alone
  BY <1>3, <1>6 DEF ListsInv, Private, Moves
<1>8. q.group = o
  <2>1. q.group \in Live /\ groups[q.group].id = groups[o].id
    BY <1>1, <1>4, <1>5, <1>7 DEF ListsInv, AloneLive, Gid
  <2> QED
    BY <1>0, <2>1 DEF TypeOK
<1>9. q.op = "add"
  <2> SUFFICES ASSUME q.op \in {"remove", "delete"} PROVE FALSE
    BY <1>4 DEF OfMember
  <2>1. groups[o].members[m] = NoMember
    BY <1>5, <1>7, <1>8 DEF ListsInv, Unlisted, Listed
  <2>2. groups'[o].members[m] = NoMember
    BY <1>0, <1>4, <2>1, StepMembers
  <2> QED
    BY <1>3, <2>2 DEF NoMember
<1>10. ASSUME NEW p \in Request, GoesOn(r, q, p) PROVE FALSE
  <2>1. groups' = groups /\ unsettled' = unsettled
    BY <1>10 DEF GoesOn, storeVars
  <2> QED
    BY <1>1, <1>3, <2>1 DEF Usable, Settled
<1>11. Ends(r, q)
  BY <1>5, <1>10 DEF Act
<1> QED
  BY <1>0, <1>1, <1>3, <1>4, <1>5, <1>6, <1>7, <1>9, <1>11, EndsProvided

LEMMA NewSource ==
  ASSUME ListsInv, OneKey, OwnKeySet, BoundAgree, paired' = paired,
         NEW r \in Pending, NEW q \in Request, q = req[r], Whole(q),
         Act(r, q) \/ Picks(r, q) \/ Deletes(r, q), Moves(r, q),
         NEW g \in Gids, NEW s \in Sources, g \in bound'[s], Settled("source", g, s)',
         ~(g \in bound[s] /\ Settled("source", g, s))
  PROVE  NewNeed(r, q, g, Node(s))
<1>0. TInv /\ TypeOK /\ GroupsKept
  BY DEF ListsInv, TInv, Moves
<1>1. <<"source", g, s>> \notin unsettled' /\ Node(s) \in paired
  BY DEF Settled
<1>2. ~OfMember(q) /\ q.pc # "next" /\ <<g, s>> = Grantee(q)
  <2> SUFFICES ASSUME ~(~OfMember(q) /\ q.pc # "next" /\ <<g, s>> = Grantee(q)) PROVE FALSE
    OBVIOUS
  <2>1. <<"source", g, s>> \notin unsettled
    BY <1>0, <1>1, SourceSettled
  <2>2. OfMember(q) \/ <<g, s>> # Grantee(q)
    <3> SUFFICES ASSUME q.pc = "next" PROVE OfMember(q)
      OBVIOUS
    <3> QED
      BY DEF Whole, Form, OfMember, Providing, Dropping, Request
  <2>3. g \in bound[s]
    BY <1>0, <2>1, <2>2, OtherBound DEF ListsInv
  <2> QED
    BY <1>1, <2>1, <2>3 DEF Settled
<1>3. g = Gid(q) /\ s = q.port /\ q.port # NoPort /\ Act(r, q) /\ Kind(q) = "source" /\ q.op \in {"bind", "unbind"}
  BY <1>0, <1>2, PortType DEF Grantee, Picks, Deletes, Kind, OfMember
<1>4. <<"source", g, s>> \in About(q, {q.port}) /\ About(q, {q.port}) \subseteq Concerns(q)
  BY <1>3 DEF About, Concerns, PortsOf
<1>5. q.alone
  BY <1>1, <1>4 DEF ListsInv, Private, Moves
<1>6. Gid(q)' = Gid(q) /\ OwnLists(q) /\ OwnKey(q)
  BY <1>0, <1>5, SameGroup DEF ListsInv, Own, OwnKeySet
<1>7. CASE Ends(r, q)
  <2>1. CASE q.op = "bind"
    BY <1>0, <1>1, <1>2, <1>3, <1>4, <1>5, <1>7, <2>1, EndsProvided
  <2>2. CASE q.op = "unbind"
    <3>1. Achieved(q)'
      BY <1>1, <1>4, <1>6, <1>7 DEF Ends
    <3>2. Gid(q) \notin bound'[q.port]
      BY <1>6, <2>2, <3>1 DEF Achieved
    <3> QED
      BY <1>3, <3>2
  <2> QED
    BY <1>3, <2>1, <2>2
<1>8. ASSUME NEW p \in Request, GoesOn(r, q, p) PROVE NewNeed(r, q, g, Node(s))
  <2>1. unsettled' = unsettled /\ Alike(q, p) /\ Carries(q, p)
    BY <1>8 DEF GoesOn
  <2>2. g \notin bound[s]
    BY <1>1, <2>1 DEF Settled
  <2>3. q.pc \in {"enter", "drop"} /\ SetBound(q, q.list)
    BY <1>3, <2>2 DEF Act, DevEffect, deviceVars
  <2>4. bound'[s] = q.list
    BY <1>0, <1>3, <2>3 DEF SetBound, TypeOK
  <2>5. q.op = "bind" /\ q.pc = "enter"
    BY <1>3, <2>3, <2>4 DEF Whole, Form, Providing, Dropping
  <2>6. p.pc = "entered" /\ p.op = "bind" /\ p.port = q.port /\ p.group = q.group
    BY <2>1, <2>5 DEF Carries, Alike
  <2>7. KeyThere(Gid(p), Node(p.port))'
    BY <1>6, <2>1, <2>6 DEF Carries, OwnKey, Providing
  <2>8. KeyThere(g, Node(s))'
    BY <1>3, <1>6, <2>6, <2>7 DEF KeyThere, Gid
  <2>9. req'[r] = p
    BY <1>0, <1>8 DEF GoesOn, TypeOK, Pending
  <2> QED
    BY <1>3, <1>5, <2>5, <2>6, <2>8, <2>9 DEF NewNeed, UsesMap
<1> QED
  BY <1>3, <1>7, <1>8 DEF Act

LEMMA NeedsAfter ==
  ASSUME ListsInv, OneKey, OwnKeySet, BoundAgree, paired' = paired,
         NEW r \in Pending, NEW q \in Request, q = req[r], Whole(q),
         Act(r, q) \/ Picks(r, q) \/ Deletes(r, q), Moves(r, q),
         NEW g \in Gids, NEW n, Needs(g, n)'
  PROVE  Needs(g, n) \/ NewNeed(r, q, g, n)
<1>1. CASE NeedsMember(g, n)'
  <2>1. PICK o \in Live', m \in Members : Node(m) = n /\ groups'[o].id = g /\ Usable(o, m)'
    BY <1>1 DEF NeedsMember
  <2>2. o \in Live /\ groups[o].id = g
    BY <2>1, LiveAfter DEF ListsInv, Moves, GroupsKept, Live
  <2>3. CASE Usable(o, m)
    BY <2>1, <2>2, <2>3 DEF Needs, NeedsMember
  <2>4. CASE ~Usable(o, m)
    BY <2>1, <2>2, <2>4, NewMember
  <2> QED
    BY <2>3, <2>4
<1>2. CASE NeedsSource(g, n)'
  <2>1. PICK s \in Sources : SourcesApart /\ Node(s) = n /\ g \in bound'[s] /\ Settled("source", g, s)'
    BY <1>2 DEF NeedsSource
  <2>2. CASE g \in bound[s] /\ Settled("source", g, s)
    BY <2>1, <2>2 DEF Needs, NeedsSource
  <2>3. CASE ~(g \in bound[s] /\ Settled("source", g, s))
    BY <2>1, <2>3, NewSource
  <2> QED
    BY <2>2, <2>3
<1> QED
  BY <1>1, <1>2 DEF Needs

\* Another request on the device does not bring a new need.
LEMMA NewIsElsewhere ==
  ASSUME TInv, Private, NEW r \in Pending, NEW q \in Request, q = req[r], Whole(q),
         NEW x \in Pending, x # r, NEW w \in Request, w = req[x], NEW g, NEW n, n \in NodesOf(w)
  PROVE  ~NewNeed(r, q, g, n)
<1> SUFFICES ASSUME NewNeed(r, q, g, n) PROVE FALSE
  OBVIOUS
<1>1. q.port # NoPort /\ n = Node(q.port) /\ q.alone
  BY PortType DEF NewNeed, TInv
<1>2. n \in NodesOf(q)
  BY <1>1 DEF NodesOf, PortsOf
<1>3. Meets(q, w)
  BY <1>2 DEF Meets
<1> QED
  BY <1>1, <1>3 DEF Private

LEMMA KeysKeptStep ==
  ASSUME KeyInv, paired' = paired, NEW r \in Pending, NEW q \in Request, q = req[r], Whole(q),
         Act(r, q) \/ Picks(r, q) \/ Deletes(r, q), Moves(r, q)
  PROVE  KeysKept'
<1>0. TInv /\ TypeOK /\ 1 \in Gids /\ SharedSet \in Gids /\ SharedSet # 0
  BY GroupsOK DEF KeyInv, ListsInv, TInv, SharedSet
<1>1. KeySet(q) = SharedSet /\ sets' = sets /\ sets[SharedSet].key # 0
  BY <1>0, Shares, OneKeyStep DEF KeyInv, Whole
<1>2. ASSUME NEW g \in Gids, NEW n \in Nodes, Needs(g, n) PROVE KeyThere(g, n)'
  <2>1. keyMap[n][g] = SharedSet /\ keys[n][SharedSet] = sets[SharedSet].key
    BY <1>2 DEF KeyInv, KeysKept, KeyThere
  <2>2. CASE n # Node(q.port) \/ q.pc = "next"
    BY <1>0, <1>1, <2>1, <2>2, Elsewhere DEF KeyThere
  <2>3. CASE n = Node(q.port) /\ q.pc # "next"
    <3>1. DevEffect(q)
      BY <2>3 DEF Act, Picks, Deletes
    <3>2. q.pc \in Dropping => g # Gid(q)
      BY <1>2, <2>3 DEF KeyInv, DropOK
    <3>3. q.pc # "keyRemove"
      BY <1>2, <2>3 DEF KeyInv, DropOK, Dropping
    <3>4. UsesMap(q) => q.map[g] = SharedSet
      BY <1>2, <2>3 DEF KeyInv, MapKept
    <3>5. keys'[n][SharedSet] = sets[SharedSet].key
      <4>1. CASE UNCHANGED keys
        BY <2>1, <4>1
      <4>2. CASE q.pc = "keyWrite" /\ SetKey(q, sets[KeySet(q)].key)
        BY <1>0, <1>1, <2>3, <4>2 DEF SetKey, TypeOK
      <4> QED
        BY <3>1, <3>3, <4>1, <4>2 DEF DevEffect, deviceVars
    <3>6. keyMap'[n][g] = SharedSet
      <4>1. CASE UNCHANGED keyMap
        BY <2>1, <4>1
      <4>2. CASE q.pc = "mapWrite" /\ SetMap(q, Mapped(q))
        <5>1. keyMap'[n] = Mapped(q)
          BY <1>0, <2>3, <4>2 DEF SetMap, TypeOK
        <5>2. Mapped(q)[g] = SharedSet
          BY <1>1, <3>4, <4>2 DEF Mapped, UsesMap, Request, Maps
        <5> QED
          BY <5>1, <5>2
      <4>3. CASE q.pc = "unmap" /\ SetMap(q, Unmapped(q))
        <5>1. keyMap'[n] = Unmapped(q)
          BY <1>0, <2>3, <4>3 DEF SetMap, TypeOK
        <5>2. Unmapped(q)[g] = SharedSet
          BY <3>2, <3>4, <4>3 DEF Unmapped, UsesMap, Request, Maps, Dropping
        <5> QED
          BY <5>1, <5>2
      <4> QED
        BY <3>1, <4>1, <4>2, <4>3 DEF DevEffect, deviceVars
    <3> QED
      BY <1>1, <3>5, <3>6 DEF KeyThere
  <2> QED
    BY <2>2, <2>3
<1>3. ASSUME NEW g \in Gids, NEW n \in Nodes, Needs(g, n)' PROVE KeyThere(g, n)'
  <2>1. Needs(g, n) \/ NewNeed(r, q, g, n)
    BY <1>3, NeedsAfter DEF KeyInv
  <2> QED
    BY <1>2, <2>1 DEF NewNeed
<1> QED
  BY <1>1, <1>3 DEF KeysKept

LEMMA MapKeptStep ==
  ASSUME KeyInv, paired' = paired, NEW r \in Pending, NEW q \in Request, q = req[r], Whole(q),
         Act(r, q) \/ Picks(r, q) \/ Deletes(r, q), Moves(r, q)
  PROVE  MapKept'
<1>0. TInv /\ TypeOK /\ Private
  BY DEF KeyInv, ListsInv, TInv
<1>1. ASSUME NEW x \in Pending', NEW p \in Request, p = req'[x], UsesMap(p), NEW g \in Gids, Needs(g, Node(p.port))'
      PROVE  p.map[g] = SharedSet
  <2>1. PICK w \in Request : w = req[x] /\ (x = r => w = q) /\ (x # r => p = w)
    BY <1>0, <1>1, MoveView
  <2>2. x \in Pending /\ Whole(w)
    BY <1>0, <1>1, <2>1, MoveView DEF TInv
  <2>3. Needs(g, Node(p.port)) \/ NewNeed(r, q, g, Node(p.port))
    BY <1>1, NeedsAfter DEF KeyInv
  <2>4. CASE x = r
    <3>1. r \in Pending'
      BY <1>1, <2>4
    <3>2. PICK v \in Request : v = req'[r] /\ Becomes(r, q, v)
      BY <1>0, <3>1, StepNext
    <3>3. v = p
      BY <1>1, <2>4, <3>2
    <3>4. GoesOn(r, q, p)
      BY <1>1, <3>2, <3>3 DEF Becomes, UsesMap
    <3>5. p.port = q.port /\ Whole(q) /\ q.pc # "next"
      BY <1>1, <3>4 DEF GoesOn, Alike, Whole, Form, UsesMap
    <3>6. Node(q.port) \in Nodes
      BY <1>0, <3>5, PortType
    <3>7. Needs(g, Node(q.port))
      BY <1>1, <2>3, <2>4, <3>1, <3>5 DEF NewNeed
    <3>8. keyMap[Node(q.port)][g] = SharedSet
      BY <3>6, <3>7 DEF KeyInv, KeysKept, KeyThere
    <3>9. UsesMap(q) => q.map[g] = SharedSet
      BY <3>7 DEF KeyInv, MapKept
    <3> QED
      BY <1>1, <3>4, <3>8, <3>9 DEF GoesOn, Carries
  <2>5. CASE x # r
    <3>1. p = w /\ w.pc # "next"
      BY <1>1, <2>1, <2>5 DEF UsesMap
    <3>2. Node(w.port) \in NodesOf(w)
      BY <1>0, <2>2, <3>1, PortType DEF NodesOf, PortsOf
    <3>3. Needs(g, Node(w.port))
      BY <1>0, <2>1, <2>2, <2>3, <2>5, <3>1, <3>2, NewIsElsewhere
    <3> QED
      BY <1>1, <2>1, <2>2, <3>1, <3>3 DEF KeyInv, MapKept
  <2> QED
    BY <2>4, <2>5
<1>2. ASSUME NEW x \in Pending', UsesMap(req[x])', NEW g \in Gids, Needs(g, Node(req[x].port))'
      PROVE  req'[x].map[g] = SharedSet
  <2>1. PICK p \in Request : p = req'[x]
    BY <1>0, MoveView
  <2>2. UsesMap(p)
    BY <1>2, <2>1 DEF UsesMap
  <2>3. Needs(g, Node(p.port))'
    BY <1>2, <2>1
  <2> QED
    BY <1>1, <2>1, <2>2, <2>3
<1> QED
  BY <1>2 DEF MapKept

LEMMA DropStepOK ==
  ASSUME KeyInv, paired' = paired, NEW r \in Pending, NEW q \in Request, q = req[r], Whole(q),
         Act(r, q) \/ Picks(r, q) \/ Deletes(r, q), Moves(r, q), MapKept'
  PROVE  DropOK'
<1>0. TInv /\ TypeOK /\ Private /\ GroupsKept
  BY DEF KeyInv, ListsInv, TInv, Moves
<1>1. ASSUME NEW x \in Pending', NEW p \in Request, p = req'[x], p.pc \in Dropping
      PROVE  /\ ~Needs(Gid(p), Node(p.port))'
             /\ p.pc = "keyRemove" => \A g \in Gids : ~Needs(g, Node(p.port))'
  <2>1. PICK w \in Request : w = req[x] /\ (x = r => w = q) /\ (x # r => p = w) /\ Gid(p)' = Gid(w)
    BY <1>0, <1>1, MoveView
  <2>2. x \in Pending /\ Whole(w)
    BY <1>0, <1>1, <2>1, MoveView DEF TInv
  <2>3. CASE x # r
    <3>1. p = w /\ w.pc # "next"
      BY <1>1, <2>1, <2>3 DEF Dropping
    <3>2. Node(w.port) \in NodesOf(w) /\ Gid(w) \in Gids
      BY <1>0, <2>2, <3>1, PortType DEF NodesOf, PortsOf
    <3>3. \A g \in Gids : Needs(g, Node(w.port))' => Needs(g, Node(w.port))
      <4>1. ASSUME NEW g \in Gids PROVE ~NewNeed(r, q, g, Node(w.port))
        BY <1>0, <2>1, <2>2, <2>3, <3>2, NewIsElsewhere
      <4>2. ASSUME NEW g \in Gids, Needs(g, Node(w.port))' PROVE Needs(g, Node(w.port)) \/ NewNeed(r, q, g, Node(w.port))
        BY <4>2, NeedsAfter DEF KeyInv
      <4> QED
        BY <4>1, <4>2
    <3>4. PICK i \in Gids : i = Gid(w)
      BY <3>2
    <3>5. ~Needs(i, Node(w.port))'
      BY <1>1, <2>1, <2>2, <3>1, <3>3, <3>4 DEF KeyInv, DropOK
    <3>6. p.pc = "keyRemove" => \A g \in Gids : ~Needs(g, Node(p.port))'
      BY <1>1, <2>1, <2>2, <3>1, <3>3 DEF KeyInv, DropOK
    <3>7. ~Needs(Gid(p), Node(p.port))'
      BY <2>1, <3>1, <3>4, <3>5
    <3> QED
      BY <3>6, <3>7
  <2>4. CASE x = r
    <3>1. r \in Pending'
      BY <1>1, <2>4
    <3>2. PICK v \in Request : v = req'[r] /\ Becomes(r, q, v)
      BY <1>0, <3>1, StepNext
    <3>3. v = p
      BY <1>1, <2>4, <3>2
    <3>4. GoesOn(r, q, p) /\ Carries(q, p) /\ Alike(q, p)
      BY <1>1, <3>2, <3>3 DEF Becomes, GoesOn, Dropping
    <3>5. p.port = q.port /\ p.op = q.op /\ q.op \in {"remove", "delete", "unbind"} /\ q.pc # "next"
      BY <1>1, <3>4 DEF GoesOn, Alike, Whole, Form, Dropping, Providing, Request
    <3>6. Node(q.port) \in Nodes /\ Gid(q) \in Gids /\ q.port \in Ports /\ q.port # NoPort /\ (OfMember(q) => q.port \in Members)
      BY <1>0, <3>5, PortType DEF Whole
    <3>7. \A g \in Gids : Needs(g, Node(q.port))' => Needs(g, Node(q.port))
      BY <3>5, NeedsAfter DEF NewNeed, KeyInv
    <3>g. PICK i \in Gids : i = Gid(q)
      BY <3>6
    <3>8. ~Needs(i, Node(q.port))'
      <4>1. CASE p.pc # "unmapRead"
        <5>1. q.pc \in Dropping
          BY <1>1, <3>4, <4>1 DEF Carries, Dropping
        <5> QED
          BY <3>7, <3>g, <5>1 DEF KeyInv, DropOK
      <4>2. CASE p.pc = "unmapRead" /\ q.op = "unbind"
        <5>1. ASSUME NeedsMember(Gid(q), Node(q.port)) PROVE FALSE
          <6>1. PICK o \in Live, m \in Members : Node(m) = Node(q.port) /\ groups[o].id = Gid(q) /\ groups[o].members[m] = "ok"
            BY <5>1 DEF NeedsMember, Usable
          <6>2. m \in Listed(o)
            BY <6>1 DEF Listed, NoMember
          <6> QED
            BY <3>4, <4>2, <6>1, <6>2 DEF Carries
        <5>2. ASSUME NeedsSource(i, Node(q.port))' PROVE FALSE
          <6>1. PICK s \in Sources : SourcesApart /\ Node(s) = Node(q.port) /\ i \in bound'[s]
            BY <5>2 DEF NeedsSource
          <6>2. q.port \in Sources
            BY <4>2 DEF Whole, Form
          <6>3. s = q.port
            BY <6>1, <6>2 DEF SourcesApart
          <6> QED
            BY <3>4, <3>g, <4>2, <6>1, <6>3 DEF Carries
        <5>3. ASSUME NeedsMember(i, Node(q.port))' PROVE FALSE
          <6>3. PICK o \in Live', m \in Members : Node(m) = Node(q.port) /\ groups'[o].id = i /\ Usable(o, m)'
            BY <5>3 DEF NeedsMember
          <6>4. o \in Live /\ groups[o].id = i
            BY <1>0, <6>3, LiveAfter DEF GroupsKept, Live
          <6>5. Usable(o, m)
            BY <3>5, <6>3, NewMember DEF KeyInv
          <6> QED
            BY <3>g, <5>1, <6>3, <6>4, <6>5 DEF NeedsMember
        <5> QED
          BY <5>2, <5>3 DEF Needs
      <4>3. CASE p.pc = "unmapRead" /\ q.op \in {"remove", "delete"}
        <5>1. OfMember(q) /\ ~StillMember(q)
          BY <3>4, <4>3 DEF Carries, OfMember
        <5>2. ~NeedsSource(Gid(q), Node(q.port))
          BY <3>6, <5>1 DEF NeedsSource, SourcesApart
        <5>3. ASSUME NEW o \in Live, NEW m \in Members, Node(m) = Node(q.port), groups[o].id = Gid(q), Usable(o, m) PROVE FALSE
          <6>1. CASE q.group \notin Live
            <7>1. Node(m) \in NodesOf(q)
              BY <3>6, <5>3 DEF NodesOf, PortsOf
            <7> QED
              BY <5>1, <5>3, <6>1, <7>1 DEF KeyInv, DeadOK
          <6>2. CASE q.group \in Live
            <7>1. o = q.group
              BY <1>0, <5>3, <6>2 DEF TypeOK, Gid
            <7>2. m \in Listed(q.group)
              BY <5>3, <7>1 DEF Usable, Listed, NoMember
            <7>3. m = q.port
              BY <5>1, <5>3, <7>2 DEF StillMember
            <7>4. ~q.alone
              BY <4>3, <7>2, <7>3 DEF KeyInv, ListsInv, Unlisted
            <7>5. <<"member", groups[o].id, m>> \in unsettled
              <8>1. <<"member", groups[o].id, m>> \in Concerns(q)
                BY <3>6, <4>3, <5>3, <7>3 DEF Concerns, About, Kind, PortsOf
              <8> QED
                BY <1>0, <7>4, <8>1 DEF Private
            <7> QED
              BY <5>3, <7>5 DEF Usable, Settled
          <6> QED
            BY <6>1, <6>2
        <5>4. ~NeedsMember(Gid(q), Node(q.port))
          BY <5>3 DEF NeedsMember
        <5>5. ~Needs(Gid(q), Node(q.port))
          BY <5>2, <5>4 DEF Needs
        <5> QED
          BY <3>7, <3>g, <5>5
      <4> QED
        BY <3>5, <4>1, <4>2, <4>3
    <3>9. ASSUME p.pc = "keyRemove", NEW g \in Gids, Needs(g, Node(q.port))' PROVE FALSE
      <4>1. q.pc \in Dropping
        BY <3>4, <3>9 DEF Carries, Dropping
      <4>2. g # Gid(q)
        BY <3>8, <3>g, <3>9
      <4>3. p.map[g] # KeySet(q)
        BY <3>4, <3>9, <4>2 DEF Carries
      <4>4. KeySet(q) = SharedSet
        BY Shares DEF KeyInv, Whole
      <4>5. UsesMap(p)
        BY <3>9 DEF UsesMap
      <4>6. UsesMap(req[r])'
        BY <1>1, <2>4, <4>5 DEF UsesMap
      <4>7. Needs(g, Node(req[r].port))'
        BY <1>1, <2>4, <3>5, <3>9
      <4>8. req'[r].map[g] = SharedSet
        BY <3>1, <4>6, <4>7 DEF MapKept
      <4> QED
        BY <1>1, <2>4, <4>3, <4>4, <4>8
    <3>10. Gid(p)' = i
      BY <2>1, <2>4, <3>g
    <3>11. ~Needs(Gid(p), Node(p.port))'
      BY <3>5, <3>8, <3>10
    <3> QED
      BY <3>5, <3>9, <3>11
  <2> QED
    BY <2>3, <2>4
<1>2. ASSUME NEW x \in Pending', req'[x].pc \in Dropping
      PROVE  /\ ~Needs(Gid(req[x]), Node(req[x].port))'
             /\ req'[x].pc = "keyRemove" => \A g \in Gids : ~Needs(g, Node(req[x].port))'
  <2>1. PICK p \in Request : p = req'[x]
    BY <1>0, MoveView
  <2>2. PICK i : i = Gid(p)'
    OBVIOUS
  <2>3. Gid(req[x])' = i
    BY <2>1, <2>2 DEF Gid
  <2>4. ~Needs(Gid(p), Node(p.port))' /\ (p.pc = "keyRemove" => \A g \in Gids : ~Needs(g, Node(p.port))')
    BY <1>1, <1>2, <2>1
  <2>5. ~Needs(i, Node(p.port))'
    BY <2>2, <2>4
  <2>6. ~Needs(Gid(req[x]), Node(req[x].port))'
    BY <2>1, <2>3, <2>5
  <2> QED
    BY <2>1, <2>4, <2>6
<1> QED
  BY <1>2 DEF DropOK

LEMMA DeadStepOK ==
  ASSUME KeyInv, paired' = paired, NEW r \in Pending, NEW q \in Request, q = req[r], Whole(q),
         Act(r, q) \/ Picks(r, q) \/ Deletes(r, q), Moves(r, q)
  PROVE  DeadOK'
<1>0. TInv /\ TypeOK /\ Private /\ AloneLive /\ GroupsKept
  BY DEF KeyInv, ListsInv, TInv, Moves
<1>1. ASSUME NEW x \in Pending', NEW p \in Request, p = req'[x], OfMember(p), p.group \notin Live',
             NEW o \in Live', NEW m \in Members, groups'[o].id = Gid(p)', Node(m) \in NodesOf(p), Usable(o, m)'
      PROVE  FALSE
  <2>1. PICK w \in Request : /\ w = req[x] /\ (x = r => w = q) /\ (x # r => p = w) /\ Gid(p)' = Gid(w)
                             /\ p.op = w.op /\ p.group = w.group /\ PortsOf(p) \subseteq PortsOf(w) /\ p.alone = w.alone
    BY <1>0, <1>1, MoveView
  <2>2. x \in Pending /\ OfMember(w) /\ Node(m) \in NodesOf(w)
    BY <1>0, <1>1, <2>1, MoveView DEF OfMember, NodesOf
  <2>3. o \in Live /\ groups[o].id = Gid(w)
    BY <1>0, <1>1, <2>1, LiveAfter DEF GroupsKept, Live
  <2>4. CASE Usable(o, m)
    <3>1. CASE w.group \notin Live
      BY <2>1, <2>2, <2>3, <2>4, <3>1 DEF KeyInv, DeadOK
    <3>2. CASE w.group \in Live
      <4>1. o = w.group
        BY <1>0, <2>3, <3>2 DEF TypeOK, Gid
      <4> QED
        BY <1>1, <2>1, <4>1
    <3> QED
      BY <3>1, <3>2
  <2>5. CASE ~Usable(o, m)
    <3>1. NewNeed(r, q, groups[o].id, Node(m)) /\ q.op = "add"
      BY <1>1, <2>5, NewMember DEF KeyInv
    <3>2. x = r
      BY <1>0, <2>1, <2>2, <3>1, NewIsElsewhere
    <3>3. q.group \in Live
      BY <2>1, <2>2, <3>1, <3>2 DEF AloneLive, NewNeed, KeyInv, ListsInv
    <3>4. Live' = Live
      BY <1>0, <3>1, LiveAfter DEF Deletes
    <3> QED
      BY <1>1, <2>1, <3>2, <3>3, <3>4
  <2> QED
    BY <2>4, <2>5
<1>2. ASSUME NEW x \in Pending', OfMember(req[x])', req'[x].group \notin Live',
             NEW o \in Live', NEW m \in Members, groups'[o].id = Gid(req[x])', Node(m) \in NodesOf(req[x])'
      PROVE  ~Usable(o, m)'
  <2>1. PICK p \in Request : p = req'[x]
    BY <1>0, MoveView
  <2>2. OfMember(p) /\ Gid(p)' = Gid(req[x])' /\ NodesOf(p) = NodesOf(req[x])'
    BY <1>2, <2>1 DEF OfMember, Gid, NodesOf, PortsOf
  <2> QED
    BY <1>1, <1>2, <2>1, <2>2
<1> QED
  BY <1>2 DEF DeadOK

LEMMA StepKeyInv ==
  ASSUME KeyInv, NEW r \in Reqs, RequestStep(r)
  PROVE  KeyInv'
<1>1. TInv /\ ListsInv' /\ Private
  BY StepInv DEF KeyInv, ListsInv
<1>2. PICK q \in Request : q = req[r] /\ Whole(q) /\ (Act(r, q) \/ Picks(r, q) \/ Deletes(r, q))
  BY <1>1, StepActs
<1>3. r \in Pending /\ paired' = paired
  BY <1>1, StepActs
<1>4. Moves(r, q)
  BY <1>1, <1>2, <1>3, StepIsMove
<1>5. OneKey'
  BY <1>1, <1>2, <1>3, <1>4, OneKeyStep DEF KeyInv
<1>6. OwnKeySet'
  BY <1>1, <1>2, <1>3, <1>4, OwnKeySetStep DEF KeyInv
<1>7. BoundAgree'
  BY <1>1, <1>2, <1>3, <1>4, BoundAgreeStep DEF KeyInv
<1>8. KeysKept'
  BY <1>2, <1>3, <1>4, KeysKeptStep
<1>9. MapKept'
  BY <1>2, <1>3, <1>4, MapKeptStep
<1>10. DropOK'
  BY <1>2, <1>3, <1>4, <1>9, DropStepOK
<1>11. DeadOK'
  BY <1>2, <1>3, <1>4, DeadStepOK
<1> QED
  BY <1>1, <1>5, <1>6, <1>7, <1>8, <1>9, <1>10, <1>11 DEF KeyInv

-----------------------------------------------------------------------------
(* What is not a step of a request brings no need and touches no device *)

\* A request that has just come
Fresh(q) ==
  /\ q.pc \in {"keys", "leave", "next", "list"}
  /\ q.op \in {"add", "bind"} => q.pc = "keys"
  /\ OfMember(q) => q.group \in Live'
Quiet ==
  /\ UNCHANGED deviceVars /\ paired' \subseteq paired /\ unsettled \subseteq unsettled' /\ Live \subseteq Live'
  /\ \A o \in Live', m \in Members : Usable(o, m)' => o \in Live /\ Usable(o, m)
  /\ \A o \in Live : groups'[o].id = groups[o].id
  /\ OneKey' /\ (sets[SharedSet].key # 0 => sets'[SharedSet] = sets[SharedSet])
  /\ \A x \in Pending' :
       \E w, p \in Request : /\ p = req'[x] /\ Twin(w, p) /\ Gid(p)' = Gid(w)
                             /\ (x \in Pending /\ w = req[x]) \/ Fresh(w)

LEMMA QuietNeeds ==
  ASSUME TypeOK, Quiet, NEW g \in Gids, NEW n, Needs(g, n)'
  PROVE  Needs(g, n)
<1>1. CASE NeedsMember(g, n)'
  <2>1. PICK o \in Live', m \in Members : Node(m) = n /\ groups'[o].id = g /\ Usable(o, m)'
    BY <1>1 DEF NeedsMember
  <2>2. o \in Live /\ Usable(o, m) /\ groups[o].id = g
    BY <2>1 DEF Quiet
  <2> QED
    BY <2>1, <2>2 DEF Needs, NeedsMember
<1>2. CASE NeedsSource(g, n)'
  BY <1>2 DEF Needs, NeedsSource, Quiet, deviceVars, Settled
<1> QED
  BY <1>1, <1>2 DEF Needs

LEMMA QuietKeyInv ==
  ASSUME KeyInv, ListsInv', Quiet
  PROVE  KeyInv'
<1>0. TInv /\ TypeOK /\ OneKey
  BY DEF KeyInv, ListsInv, TInv
<1>1. \A g \in Gids : \A n : Needs(g, n)' => Needs(g, n)
  BY <1>0, QuietNeeds
<1>2. UNCHANGED <<keys, keyMap, table, acl, bound>> /\ unsettled \subseteq unsettled'
  BY DEF Quiet, deviceVars
<1>3. \A x \in Pending : Whole(req[x]) /\ sets'[SharedSet] = sets[SharedSet]
  <2>1. ASSUME NEW x \in Pending PROVE Whole(req[x]) /\ sets[SharedSet].key # 0
    <3>1. req[x] \in Request /\ Whole(req[x])
      BY <1>0 DEF TInv, TypeOK, Pending
    <3> QED
      BY <1>0, <3>1, Shares DEF Whole
  <2> QED
    BY <2>1 DEF Quiet
<1>4. OwnKeySet'
  <2>1. ASSUME NEW x \in Pending', req'[x].alone PROVE OwnKey(req[x])'
    <3>1. PICK w, p \in Request : /\ p = req'[x] /\ Twin(w, p) /\ Gid(p)' = Gid(w)
                                  /\ (x \in Pending /\ w = req[x]) \/ Fresh(w)
      BY DEF Quiet
    <3>2. CASE Fresh(w)
      <4>1. OwnKey(p)'
        BY <3>1, <3>2 DEF Fresh, Twin, OwnKey, Providing
      <4> QED
        BY <3>1, <4>1
    <3>3. CASE x \in Pending /\ w = req[x]
      <4>1. OwnKey(w) /\ sets'[SharedSet] = sets[SharedSet]
        BY <1>3, <2>1, <3>1, <3>3 DEF Twin, KeyInv, OwnKeySet
      <4>2. OwnKey(p)'
        BY <1>2, <3>1, <4>1 DEF Twin, OwnKey, KeyThere
      <4> QED
        BY <3>1, <4>2
    <3> QED
      BY <3>1, <3>2, <3>3
  <2> QED
    BY <2>1 DEF OwnKeySet
<1>5. ASSUME NEW x \in Pending', req'[x].pc \notin {"keys", "leave", "next", "list"}
      PROVE  /\ x \in Pending /\ Twin(req[x], req'[x]) /\ Gid(req[x])' = Gid(req[x]) /\ Gid(req[x]) \in Gids
  <2>1. PICK w, p \in Request : /\ p = req'[x] /\ Twin(w, p) /\ Gid(p)' = Gid(w)
                                /\ (x \in Pending /\ w = req[x]) \/ Fresh(w)
    BY DEF Quiet
  <2>2. x \in Pending /\ w = req[x]
    BY <1>5, <2>1 DEF Fresh, Twin
  <2>3. Gid(w) \in Gids
    BY <1>0, <1>3, <2>1, <2>2 DEF Gid, Whole, TypeOK, Group, Request
  <2>4. Gid(p)' = Gid(req[x])'
    BY <2>1 DEF Gid
  <2> QED
    BY <2>1, <2>2, <2>3, <2>4
<1>6. BoundAgree'
  <2>1. ASSUME NEW x \in Pending', req'[x].pc \in {"enter", "drop"},
               NEW g \in Gids, <<"source", g, req'[x].port>> \notin unsettled', g # Gid(req[x])'
        PROVE  g \in req'[x].list <=> g \in bound'[req'[x].port]
    <3>1. x \in Pending /\ Twin(req[x], req'[x]) /\ Gid(req[x])' = Gid(req[x])
      BY <1>5, <2>1
    <3>2. <<"source", g, req[x].port>> \notin unsettled /\ g # Gid(req[x]) /\ req[x].pc \in {"enter", "drop"}
      BY <1>2, <2>1, <3>1 DEF Twin
    <3>3. g \in req[x].list <=> g \in bound[req[x].port]
      BY <3>1, <3>2 DEF KeyInv, BoundAgree
    <3> QED
      BY <1>2, <3>1, <3>3 DEF Twin
  <2> QED
    BY <2>1 DEF BoundAgree
<1>7. KeysKept'
  <2>1. ASSUME NEW g \in Gids, NEW n \in Nodes, Needs(g, n)' PROVE KeyThere(g, n)' /\ sets'[SharedSet].key # 0
    <3>1. KeyThere(g, n) /\ sets[SharedSet].key # 0
      BY <1>1, <2>1 DEF KeyInv, KeysKept
    <3> QED
      BY <1>2, <3>1 DEF Quiet, KeyThere
  <2> QED
    BY <2>1 DEF KeysKept
<1>8. MapKept'
  <2>1. ASSUME NEW x \in Pending', UsesMap(req[x])', NEW g \in Gids, Needs(g, Node(req[x].port))'
        PROVE  req'[x].map[g] = SharedSet
    <3>1. x \in Pending /\ Twin(req[x], req'[x]) /\ UsesMap(req[x])
      BY <1>5, <2>1 DEF UsesMap, Twin
    <3>2. PICK n : n = Node(req'[x].port)
      OBVIOUS
    <3>3. Needs(g, n)'
      BY <2>1, <3>2
    <3>4. Needs(g, Node(req[x].port))
      BY <1>1, <3>1, <3>2, <3>3 DEF Twin
    <3> QED
      BY <3>1, <3>4 DEF KeyInv, MapKept, Twin
  <2> QED
    BY <2>1 DEF MapKept
<1>9. DropOK'
  <2>1. ASSUME NEW x \in Pending', req'[x].pc \in Dropping
        PROVE  /\ ~Needs(Gid(req[x]), Node(req[x].port))'
               /\ req'[x].pc = "keyRemove" => \A g \in Gids : ~Needs(g, Node(req[x].port))'
    <3>1. x \in Pending /\ Twin(req[x], req'[x]) /\ Gid(req[x])' = Gid(req[x]) /\ Gid(req[x]) \in Gids
      BY <1>5, <2>1 DEF Dropping
    <3>2. PICK n : n = Node(req[x].port)
      OBVIOUS
    <3>3. PICK i \in Gids : i = Gid(req[x])
      BY <3>1
    <3>4. Node(req[x].port)' = n /\ Gid(req[x])' = i
      BY <3>1, <3>2, <3>3 DEF Twin
    <3>5. ~Needs(i, n) /\ (req[x].pc = "keyRemove" => \A g \in Gids : ~Needs(g, n))
      BY <2>1, <3>1, <3>2, <3>3 DEF KeyInv, DropOK, Twin
    <3>6. ~Needs(i, n)' /\ (req'[x].pc = "keyRemove" => \A g \in Gids : ~Needs(g, n)')
      BY <1>1, <3>1, <3>5 DEF Twin
    <3> QED
      BY <3>4, <3>6
  <2> QED
    BY <2>1 DEF DropOK
<1>10. DeadOK'
  <2>1. ASSUME NEW x \in Pending', OfMember(req[x])', req'[x].group \notin Live',
               NEW o \in Live', NEW m \in Members, groups'[o].id = Gid(req[x])', Node(m) \in NodesOf(req[x])', Usable(o, m)'
        PROVE  FALSE
    <3>1. PICK w, p \in Request : /\ p = req'[x] /\ Twin(w, p) /\ Gid(p)' = Gid(w)
                                  /\ (x \in Pending /\ w = req[x]) \/ Fresh(w)
      BY DEF Quiet
    <3>2. OfMember(w) /\ w.group \notin Live' /\ Node(m) \in NodesOf(w) /\ Gid(req[x])' = Gid(w)
      BY <2>1, <3>1 DEF OfMember, Twin, NodesOf, PortsOf, Gid
    <3>3. x \in Pending /\ w = req[x] /\ w.group \notin Live
      BY <3>1, <3>2 DEF Fresh, Quiet
    <3>4. o \in Live /\ Usable(o, m) /\ groups[o].id = Gid(w)
      BY <2>1, <3>2 DEF Quiet
    <3> QED
      BY <3>2, <3>3, <3>4 DEF KeyInv, DeadOK
  <2> QED
    BY <2>1 DEF DeadOK
<1> QED
  BY <1>4, <1>6, <1>7, <1>8, <1>9, <1>10 DEF KeyInv, Quiet

LEMMA StartsKeyInv ==
  ASSUME KeyInv, ListsInv', NEW r \in Reqs, NEW q \in Request, Starts(q), Comes(r, q)
  PROVE  KeyInv'
<1>1. /\ TInv /\ GroupsKept /\ Live' = Live /\ sets' = sets
      /\ UNCHANGED <<paired, deviceVars>> /\ unsettled \subseteq unsettled'
  BY StartStore DEF KeyInv, ListsInv, Comes
<1>2. \A o \in Objects : groups'[o].id = groups[o].id /\ groups'[o].ks = groups[o].ks
  BY <1>1 DEF GroupsKept
<1>3. OneKey'
  BY <1>1, <1>2 DEF KeyInv, OneKey, deviceVars
<1>4. ASSUME NEW o \in Live', NEW m \in Members, Usable(o, m)' PROVE o \in Live /\ Usable(o, m)
  <2>1. o \in Live /\ o \in Objects
    BY <1>1 DEF Live
  <2>2. groups[o].members[m] = "ok"
    BY <1>1, <1>4, <2>1, StartMembers DEF Usable, NoMember
  <2> QED
    BY <1>1, <1>2, <1>4, <2>1, <2>2 DEF Usable, Settled
<1>5. ASSUME NEW x \in Pending'
      PROVE  \E w, p \in Request : /\ p = req'[x] /\ Twin(w, p) /\ Gid(p)' = Gid(w)
                                   /\ (x \in Pending /\ w = req[x]) \/ Fresh(w)
  <2>1. PICK w, p \in Request : /\ p = req'[x] /\ Twin(w, p) /\ Gid(p)' = Gid(w) /\ (x = r => w = q)
                                /\ (x # r => x \in Pending /\ w = req[x])
    BY <1>1, <1>5, ComesView
  <2>2. x = r => Fresh(w)
    BY <1>1, <2>1 DEF Starts, Fresh, OfMember, Request
  <2>3. (x \in Pending /\ w = req[x]) \/ Fresh(w)
    BY <2>1, <2>2
  <2> QED
    BY <2>1, <2>3
<1>6. Quiet
  BY <1>1, <1>2, <1>3, <1>4, <1>5 DEF Quiet, Live
<1> QED
  BY <1>6, QuietKeyInv

\* Who is there stays the same request.
LEMMA SameQuiet ==
  ASSUME TInv, req' = req, NEW x \in Pending, Gid(req[x])' = Gid(req[x])
  PROVE  \E w, p \in Request : /\ p = req'[x] /\ Twin(w, p) /\ Gid(p)' = Gid(w)
                               /\ (x \in Pending /\ w = req[x]) \/ Fresh(w)
<1>1. PICK w \in Request : w = req[x]
  BY DEF TInv, TypeOK, Pending
<1>2. w = req'[x] /\ Twin(w, w) /\ Gid(w)' = Gid(w)
  BY <1>1 DEF Twin, Gid
<1>3. w = req'[x] /\ Twin(w, w) /\ Gid(w)' = Gid(w) /\ ((x \in Pending /\ w = req[x]) \/ Fresh(w))
  BY <1>1, <1>2
<1> QED
  BY <1>3

LEMMA CreateKeyInv ==
  ASSUME OwnKeys = FALSE, KeyInv, ListsInv', NEW o \in Objects, NEW g \in Gids, NEW k \in Gids, Creates(o, g, k)
  PROVE  KeyInv'
<1>1. /\ TInv /\ TypeOK /\ Live' = Live \cup {o} /\ o \notin Live /\ Listed(o)' = {}
      /\ \A x \in Objects \ {o} : groups'[x] = groups[x]
      /\ \A x \in Pending : req[x].group # o
  BY CreateTInv DEF KeyInv, ListsInv, TInv
<1>2. UNCHANGED <<paired, deviceVars, req, unsettled>> /\ k = SharedSet /\ SharedSet \in Gids
  BY DEF Creates
<1>3. sets[SharedSet].key # 0 => sets'[SharedSet] = sets[SharedSet]
  BY <1>2 DEF Creates, NoSet
<1>4. groups'[o].id = g /\ groups'[o].ks = SharedSet
  BY <1>1, <1>2 DEF Creates, NewGroup, TypeOK
<1>5. sets'[SharedSet].key # 0 /\ sets'[SharedSet].shared
  <2>1. CASE sets' = sets
    <3>1. sets[SharedSet] # NoSet
      BY <1>2, <2>1 DEF Creates
    <3> QED
      BY <1>1, <1>2, <2>1, <3>1 DEF TInv, KeyInv, OneKey
  <2>2. CASE \E v \in Set : v.key = o /\ v.shared /\ sets' = [sets EXCEPT ![k] = v]
    <3>1. PICK v \in Set : v.key = o /\ v.shared /\ sets' = [sets EXCEPT ![k] = v]
      BY <2>2
    <3>2. sets'[SharedSet] = v
      BY <1>1, <1>2, <3>1 DEF TypeOK
    <3>3. o # 0
      BY GroupsOK DEF Objects
    <3> QED
      BY <3>1, <3>2, <3>3
  <2> QED
    BY <2>1, <2>2 DEF Creates
<1>6. OneKey'
  <2>1. ASSUME NEW n \in Nodes PROVE keys'[n][SharedSet] \in {0, sets'[SharedSet].key}
    <3>1. keys'[n][SharedSet] \in {0, sets[SharedSet].key}
      BY <1>2 DEF KeyInv, OneKey, deviceVars
    <3> QED
      BY <1>3, <3>1
  <2>2. ASSUME NEW x \in Objects, groups'[x].id # 0 PROVE groups'[x].ks = SharedSet
    BY <1>1, <1>4, <2>2 DEF KeyInv, OneKey
  <2> QED
    BY <1>5, <2>1, <2>2 DEF OneKey
<1>7. ASSUME NEW x \in Live', NEW m \in Members, Usable(x, m)' PROVE x \in Live /\ Usable(x, m)
  <2>1. x # o
    BY <1>1, <1>7 DEF Usable, Listed, NoMember
  <2>2. x \in Live /\ groups'[x] = groups[x]
    BY <1>1, <2>1 DEF Live
  <2> QED
    BY <1>2, <1>7, <2>2 DEF Usable, Settled
<1>8. Pending' = Pending
  BY <1>2, SamePending
<1>9. \A x \in Pending : req[x].group \in Objects \ {o}
  BY <1>1 DEF TypeOK, Pending, Request
<1>10. \A x \in Pending : Gid(req[x])' = Gid(req[x])
  BY <1>1, <1>2, <1>9, SameElse
<1>11. \A x \in Live : groups'[x].id = groups[x].id
  BY <1>1 DEF Live
<1>12. \A x \in Pending' :
         \E w, p \in Request : /\ p = req'[x] /\ Twin(w, p) /\ Gid(p)' = Gid(w)
                               /\ (x \in Pending /\ w = req[x]) \/ Fresh(w)
  BY <1>1, <1>2, <1>8, <1>10, SameQuiet
<1>13. Quiet
  BY <1>1, <1>2, <1>3, <1>6, <1>7, <1>11, <1>12 DEF Quiet
<1> QED
  BY <1>13, QuietKeyInv

LEMMA RestKeyInv ==
  ASSUME KeyInv, ListsInv', UNCHANGED <<deviceVars, storeVars, req, unsettled>>, paired' \subseteq paired
  PROVE  KeyInv'
<1>1. TInv /\ Pending' = Pending /\ Live' = Live /\ groups' = groups /\ sets' = sets
  BY DEF Pending, Live, storeVars, KeyInv, ListsInv
<1>2. \A x \in Pending : Gid(req[x])' = Gid(req[x])
  BY <1>1 DEF Gid
<1>3. OneKey'
  BY <1>1 DEF KeyInv, OneKey, deviceVars
<1>4. \A x \in Pending' :
        \E w, p \in Request : /\ p = req'[x] /\ Twin(w, p) /\ Gid(p)' = Gid(w)
                              /\ (x \in Pending /\ w = req[x]) \/ Fresh(w)
  BY <1>1, <1>2, SameQuiet
<1>5. \A o \in Live', m \in Members : Usable(o, m)' => o \in Live /\ Usable(o, m)
  BY <1>1 DEF Usable, Settled
<1>6. Quiet
  BY <1>1, <1>3, <1>4, <1>5 DEF Quiet
<1> QED
  BY <1>6, QuietKeyInv

LEMMA CrashKeyInv ==
  ASSUME KeyInv, ListsInv', Crash
  PROVE  KeyInv'
<1>1. /\ GroupsKept /\ Live' = Live /\ sets' = sets /\ Pending' = {}
      /\ UNCHANGED <<paired, deviceVars>> /\ unsettled \subseteq unsettled'
  BY CrashGroups DEF KeyInv, ListsInv
<1>2. \A o \in Objects : groups'[o].id = groups[o].id /\ groups'[o].ks = groups[o].ks
  BY <1>1 DEF GroupsKept
<1>3. OneKey'
  BY <1>1, <1>2 DEF KeyInv, OneKey, deviceVars
<1>4. ASSUME NEW o \in Live', NEW m \in Members, Usable(o, m)' PROVE o \in Live /\ Usable(o, m)
  <2>1. o \in Live /\ groups'[o].id = groups[o].id
    BY <1>1, <1>2 DEF Live
  <2>2. groups'[o].members[m] = groups[o].members[m]
    BY <1>4, <2>1, CrashSame DEF KeyInv, Usable, Settled
  <2> QED
    BY <1>1, <1>4, <2>1, <2>2 DEF Usable, Settled
<1>5. Quiet
  BY <1>1, <1>2, <1>3, <1>4 DEF Quiet, Live
<1> QED
  BY <1>5, QuietKeyInv

LEMMA InitKey == Init => KeyInv
<1> SUFFICES ASSUME Init PROVE KeyInv
  OBVIOUS
<1>1. ListsInv /\ TypeOK /\ Pending = {}
  BY InitLists DEF Init, Pending, ListsInv, TInv
<1>2. OwnKeySet /\ BoundAgree /\ MapKept /\ DropOK /\ DeadOK
  BY <1>1 DEF OwnKeySet, BoundAgree, MapKept, DropOK, DeadOK
<1>3. PICK joined \in Start :
        /\ groups = InitGroups(joined)
        /\ keys = [n \in Nodes |-> [k \in Gids |->
                     IF k = SharedSet /\ {x[1] : x \in {y \in joined : Node(y[2]) = n}} # {} THEN 1 ELSE 0]]
        /\ keyMap = [n \in Nodes |-> [g \in Gids |->
                       IF g \in {x[1] : x \in {y \in joined : Node(y[2]) = n}} THEN SharedSet ELSE 0]]
  BY DEF Init
<1>4. Made \in Nat /\ SharedSet \in Gids /\ joined \subseteq (1 .. Made) \X Members
  BY GroupsOK DEF SharedSet
<1>5. /\ sets[SharedSet] = IF Made > 0 THEN [key |-> 1, shared |-> TRUE] ELSE NoSet
      /\ bound = [s \in Sources |-> {}]
  BY <1>4 DEF Init
<1>6. ASSUME NEW o \in Objects
      PROVE  /\ o > Made => groups[o].id = 0 /\ ~groups[o].live
             /\ ~(o > Made) => groups[o].ks = SharedSet /\ groups[o].id = o
                               /\ groups[o].members = [p \in Members |-> IF <<o, p>> \in joined THEN "ok" ELSE NoMember]
  <2>1. o > Made => groups[o] = NotMade
    BY <1>3 DEF InitGroups
  <2>2. ~(o > Made) => groups[o] = [id |-> o, ks |-> SharedSet, live |-> TRUE,
                                    members |-> [p \in Members |-> IF <<o, p>> \in joined THEN "ok" ELSE NoMember]]
    BY <1>3 DEF InitGroups, NewGroup
  <2>3. ~NotMade.live /\ NotMade.id = 0
    BY DEF NotMade
  <2>4. CASE o > Made
    BY <2>1, <2>3, <2>4
  <2>5. CASE ~(o > Made)
    <3>1. groups[o] = [id |-> o, ks |-> SharedSet, live |-> TRUE,
                       members |-> [p \in Members |-> IF <<o, p>> \in joined THEN "ok" ELSE NoMember]]
      BY <2>2, <2>5
    <3> QED
      BY <2>5, <3>1
  <2> QED
    BY <2>4, <2>5
<1>i. \A o \in Objects : groups[o].id # 0 => ~(o > Made) /\ groups[o].ks = SharedSet
  BY <1>6
<1>7. /\ sets[SharedSet].key # 0 => sets[SharedSet].shared
      /\ Made > 0 => sets[SharedSet].key = 1
      /\ ~(Made > 0) => sets[SharedSet].key = 0
  <2>1. CASE Made > 0
    <3>1. sets[SharedSet] = [key |-> 1, shared |-> TRUE]
      BY <1>5, <2>1
    <3> QED
      BY <2>1, <3>1
  <2>2. CASE ~(Made > 0)
    <3>1. sets[SharedSet] = NoSet
      BY <1>5, <2>2
    <3> QED
      BY <2>2, <3>1 DEF NoSet
  <2> QED
    BY <2>1, <2>2
<1>8. OneKey
  <2>1. ASSUME NEW n \in Nodes PROVE keys[n][SharedSet] \in {0, sets[SharedSet].key}
    <3>1. CASE {x[1] : x \in {y \in joined : Node(y[2]) = n}} = {}
      BY <1>3, <1>4, <3>1
    <3>2. CASE {x[1] : x \in {y \in joined : Node(y[2]) = n}} # {}
      <4>1. Made > 0
        BY <1>4, <3>2
      <4> QED
        BY <1>3, <1>4, <1>7, <3>2, <4>1
    <3> QED
      BY <3>1, <3>2
  <2>2. ASSUME NEW o \in Objects, groups[o].id # 0 PROVE groups[o].ks = SharedSet /\ sets[SharedSet].key # 0
    <3>1. ~(o > Made) /\ groups[o].ks = SharedSet
      BY <1>i, <2>2
    <3>2. o \in Nat /\ o > 0
      BY GroupsOK DEF Objects
    <3>3. Made > 0
      BY <1>4, <3>1, <3>2
    <3> QED
      BY <1>7, <3>1, <3>3
  <2> QED
    BY <1>7, <2>1, <2>2 DEF OneKey
<1>9. KeysKept
  <2>1. ASSUME NEW g \in Gids, NEW n \in Nodes, Needs(g, n) PROVE KeyThere(g, n) /\ sets[SharedSet].key # 0
    <3>1. ~NeedsSource(g, n)
      BY <1>5 DEF NeedsSource
    <3>2. PICK o \in Live, m \in Members : Node(m) = n /\ groups[o].id = g /\ groups[o].members[m] = "ok"
      BY <2>1, <3>1 DEF Needs, NeedsMember, Usable
    <3>3. o \in Objects /\ ~(o > Made)
      BY <1>6, <3>2 DEF Live
    <3>4. <<g, m>> \in joined
      BY <1>6, <3>2, <3>3 DEF NoMember
    <3>5. g \in {x[1] : x \in {y \in joined : Node(y[2]) = n}}
      BY <3>2, <3>4
    <3>6. Made > 0
      BY <1>4, <3>4
    <3>7. keyMap[n][g] = SharedSet
      BY <1>3, <3>5
    <3>8. keys[n][SharedSet] = 1
      BY <1>3, <1>4, <3>5
    <3> QED
      BY <1>7, <3>6, <3>7, <3>8 DEF KeyThere
  <2> QED
    BY <2>1 DEF KeysKept
<1> QED
  BY <1>1, <1>2, <1>8, <1>9 DEF KeyInv

LEMMA NextKey ==
  ASSUME OwnKeys = FALSE
  PROVE  KeyInv /\ [Next]_vars => KeyInv'
<1> SUFFICES ASSUME KeyInv, [Next]_vars PROVE KeyInv'
  OBVIOUS
<1>1. TInv /\ TypeOK /\ ListsInv /\ ListsInv'
  BY NextLists DEF KeyInv, ListsInv, TInv
<1>2. CASE UNCHANGED vars
  BY <1>1, <1>2, RestKeyInv DEF vars
<1>3. ASSUME NEW own \in BOOLEAN, Create(own) PROVE KeyInv'
  BY <1>1, <1>3, CreateCreates, CreateKeyInv
<1>4. ASSUME NEW r \in Reqs, NEW o \in Objects, Arrivals(r, o) PROVE KeyInv'
  BY <1>1, <1>4, ArrivalsStart, StartsKeyInv
<1>5. ASSUME NEW r \in Reqs, RequestStep(r) PROVE KeyInv'
  BY <1>5, StepKeyInv
<1>6. ASSUME NEW n \in Nodes, GoOffline(n) \/ ComeOnline(n) \/ Unpair(n) PROVE KeyInv'
  BY <1>1, <1>6, DevicesTInv, RestKeyInv
<1>7. CASE Crash
  BY <1>1, <1>7, CrashKeyInv
<1> QED
  BY <1>2, <1>3, <1>4, <1>5, <1>6, <1>7, NextIs

LEMMA KeyInvUsable ==
  ASSUME KeyInv
  PROVE  MemberUsable /\ (SourcesApart => BoundUsable)
<1>1. TypeOK /\ \A p \in Ports : Node(p) \in Nodes
  BY DEF KeyInv, ListsInv, TInv, Nodes
<1>2. ASSUME NEW o \in Live, NEW n \in Nodes, Needs(groups[o].id, n) PROVE HasKey(o, n)
  <2>1. o \in Objects /\ groups[o].id \in Gids /\ groups[o].id # 0
    BY <1>1 DEF TypeOK, Group, Live
  <2>2. KeyThere(groups[o].id, n) /\ groups[o].ks = SharedSet
    BY <1>2, <2>1 DEF KeyInv, KeysKept, OneKey
  <2> QED
    BY <2>2 DEF HasKey, KeyThere
<1>3. ASSUME NEW o \in Live, NEW p \in Members, Usable(o, p)
      PROVE  HasKey(o, Node(p)) /\ groups[o].id \in table[p] /\ <<groups[o].id, p>> \in acl[Node(p)]
  <2>1. Needs(groups[o].id, Node(p)) /\ Node(p) \in Nodes
    BY <1>1, <1>3 DEF Needs, NeedsMember, Ports
  <2> QED
    BY <1>2, <1>3, <2>1 DEF KeyInv, ListsInv, ListsKept
<1>4. ASSUME SourcesApart, NEW o \in Live, NEW s \in Sources, groups[o].id \in bound[s], Settled("source", groups[o].id, s)
      PROVE  HasKey(o, Node(s))
  <2>1. Needs(groups[o].id, Node(s)) /\ Node(s) \in Nodes
    BY <1>1, <1>4 DEF Needs, NeedsSource, Ports
  <2> QED
    BY <1>2, <2>1
<1> QED
  BY <1>3, <1>4 DEF MemberUsable, BoundUsable, Usable

\* Where all groups share one key set, a member shown as "ok" whose last answer
\* told of no problem has the group's map entry, the very key, the group in its
\* table and the grant, whatever requests for other endpoints, other groups and
\* bindings of its device take away, meet or leave half done
\* (_deprovisionMember, _dropKeySetOnDevice, _removeGroupBinding).
THEOREM MembersUsable ==
  ASSUME OwnKeys = FALSE
  PROVE  Spec => []MemberUsable
<1>1. Init => KeyInv
  BY InitKey
<1>2. KeyInv /\ [Next]_vars => KeyInv'
  BY NextKey
<1>3. KeyInv => MemberUsable
  BY KeyInvUsable
<1> QED
  BY <1>1, <1>2, <1>3, PTL DEF Spec

\* The same of a source that is bound to a group, where no other endpoint of its
\* device is in a group or bound to one.
THEOREM SourcesUsable ==
  ASSUME OwnKeys = FALSE, SourcesApart
  PROVE  Spec => []BoundUsable
<1>1. Init => KeyInv
  BY InitKey
<1>2. KeyInv /\ [Next]_vars => KeyInv'
  BY NextKey
<1>3. KeyInv => BoundUsable
  BY KeyInvUsable
<1> QED
  BY <1>1, <1>2, <1>3, PTL DEF Spec

=============================================================================
