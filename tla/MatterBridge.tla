---------------------------- MODULE MatterBridge ----------------------------
(***************************************************************************)
(* The Matter <-> MQTT bridge (src/matter/mqtt-bridge.js) between the      *)
(* controller's event feed and the broker's retained topics.               *)
(*                                                                         *)
(* The bridge publishes one attribute and the online flag of every paired  *)
(* node under the node's MQTT name.  It never reads the broker: what it    *)
(* has to clear it finds in the state store, where a retained topic is     *)
(* known once its echo is in, and what it publishes while the broker is    *)
(* away is dropped.  Payload formats, `ts`, `lc`, events (never retained)  *)
(* and the text of topics are left out: the topics of two templates never  *)
(* coincide, and no MQTT name reads like a node id.                        *)
(***************************************************************************)
EXTENDS Naturals, FiniteSets, Sequences

CONSTANTS Node,         \* the Matter nodes that may be paired
          First,        \* the node paired when the daemon first starts
          Value,        \* values of the attribute
          Template,     \* topic templates the user may choose, for both keys at once
          NamedBy,      \* what of a template names the node: ${device}, ${nodeId} or nothing
          Default,      \* the template the bridge starts with
          MaxName,      \* MQTT names: every device has the label "1"
          EarlyStart,   \* the 30 s of index.js:874 may pass before the controller is up
          MaxEvents,    \* bound: requests, reports, nodes coming and going
          MaxFaults     \* bound: disconnects, restarts, starts without the retained state

ASSUME BridgeAssumption ==
  /\ First \in Node /\ Default \in Template
  /\ NamedBy \in [Template -> {"device", "nodeId", "none"}]
  /\ Node \cap (0..MaxName) = {}
  /\ Value # {} /\ "none" \notin Value
  /\ MaxName \in Nat /\ MaxName >= Cardinality(Node)
  /\ EarlyStart \in BOOLEAN
  /\ MaxEvents \in Nat /\ MaxFaults \in Nat

Name == 1..MaxName
Keys == {"attribute", "online"}
Places(tpl) ==
  CASE NamedBy[tpl] = "device" -> Name \cup Node
    [] NamedBy[tpl] = "nodeId" -> Node
    [] OTHER -> {0}
Topic == {t \in Template \X (Name \cup Node \cup {0}) \X Keys : t[2] \in Places(t[1])}
           \cup (Template \X {0} \X {"connected"})
Payload == Value \cup {"true", "false", "2", "0"}
None == "none"          \* the empty payload: it clears a retained topic
Publication == Topic \X (Payload \cup {None})
Batch == [by : {"she", "broker"}, pubs : SUBSET Publication] \* "broker": a replay
NoEntry == [name |-> 0, publish |-> TRUE]

VARIABLES
  ctrl,       \* the controller has been initialised (listPaired is empty before)
  paired, online,
  populated,  \* nodes whose endpoint structure matter.js has filled in
  watched,    \* _attrBroadcastNodes: nodes whose changes are emitted
  val,        \* the controller's mirror of the attribute
  settings,   \* _settings.enabled and .templates
  devices,    \* _settings.devices
  started,    \* _started (and _listening)
  connected,  \* she's MQTT connection
  known,      \* retained topics in the state store
  out,        \* batches on their way to the broker, or replayed by it
  retained,   \* the broker's retained topics
  lost,       \* history: topics whose last publication never arrived
  unsettled,  \* history: templates cleared while she could not see or reach all of it
  events, faults

nodeVars == <<paired, online, populated, watched, val>>
setVars == <<settings, devices>>
mqttVars == <<connected, known, out, retained, lost, unsettled>>
vars == <<ctrl, paired, online, populated, watched, val, settings, devices, started,
          connected, known, out, retained, lost, unsettled, events, faults>>

-----------------------------------------------------------------------------
(* Names *)

Entry(d, n) == d[n] # NoEntry
Publishes(d, n) == d[n].publish
NamesOf(d) == {d[n].name : n \in {m \in Node : Entry(d, m)}}
NameOf(d, n) == IF Entry(d, n) THEN d[n].name ELSE n     \* n: `node_${nodeId}`

\* What stands for the node in its topics; without a placeholder all nodes share them.
Place(tpl, d, n) ==
  CASE NamedBy[tpl] = "device" -> NameOf(d, n)
    [] NamedBy[tpl] = "nodeId" -> n
    [] OTHER -> 0

ListPaired == IF ctrl THEN paired ELSE {}

\* lamp, lamp_2, lamp_3, ...: new nodes take the first free name in turn, in
\* whatever order they are listed.
UniqueNames(taken, new) ==
  {name \in [new -> Name \ taken] :
     \A n \in new :
       /\ \A m \in new \ {n} : name[m] # name[n]
       /\ \A k \in Name \ taken : k < name[n] => \E m \in new : name[m] = k}

NamesFrom(d, new) ==
  {[n \in Node |-> IF n \in new THEN [name |-> name[n], publish |-> TRUE] ELSE d[n]] :
     name \in UniqueNames(NamesOf(d), new)}

\* Mutant: names are given anew.
MutEnsureNames(d, nodes) == NamesFrom([n \in Node |-> NoEntry], nodes)

\* Every paired node gets an entry; an entry is never taken away.
EnsureNames(d, nodes) == NamesFrom(d, {n \in nodes : ~Entry(d, n)})

MutNameFree(d, n, name) == TRUE
\* setDevice takes no name another device has.
NameFree(d, n, name) == \A m \in Node \ {n} : d[m].name # name

-----------------------------------------------------------------------------
(* Publishing.  A batch is what one event makes the bridge publish: a set  *)
(* of <<topic, payload>>, at most one payload for a topic.                 *)

Topics(batch) == {p[1] : p \in batch}
Clears(topics) == {<<t, None>> : t \in topics}
ConnectedTopic(tpl) == <<tpl, 0, "connected">>

PublishAttr(d, n, v) ==
  IF settings.enabled /\ Publishes(d, n) THEN {<<<<settings.template, Place(settings.template, d, n), "attribute">>, v>>} ELSE {}

PublishOnline(s, d, n, on) ==
  IF s.enabled /\ Publishes(d, n) THEN {<<<<s.template, Place(s.template, d, n), "online">>, IF on THEN "true" ELSE "false">>} ELSE {}

\* The cached state of a node that is online, and its online flag.
PublishNode(s, d, n, on, filled) ==
  PublishOnline(s, d, n, on)
    \cup IF s.enabled /\ Publishes(d, n) /\ on /\ n \in filled
           THEN {<<<<s.template, Place(s.template, d, n), "attribute">>, val[n]>>} ELSE {}

\* Of nodes that share a topic the last one's payload stays; which is not told apart.
Lasting(pubs) == {p \in pubs : p = CHOOSE q \in pubs : q[1] = p[1]}
PublishAll(s, d, nodes, on, filled) == Lasting(UNION {PublishNode(s, d, n, n \in on, filled) : n \in nodes})

\* What _cleanup finds in the state store, and what of it is not of a live device:
\* a topic that names none, or a paired node by its id, always counts as live.
Retained(tpl) == {t \in known : t[1] = tpl /\ t[3] \in Keys}
LiveNames(d, nodes) == {d[n].name : n \in {m \in nodes : Entry(d, m) /\ Publishes(d, m)}}
MutStale(tpl, d, nodes) == {t \in Retained(tpl) : t[2] \notin NamesOf(d)}
Stale(tpl, d, nodes) ==
  {t \in Retained(tpl) : /\ NamedBy[tpl] # "none"
                         /\ t[2] \notin LiveNames(d, nodes)
                         /\ NamedBy[tpl] = "nodeId" => t[2] \notin nodes}

\* A later publication of the same event replaces an earlier one.
Then(batch, later) == {p \in batch : p[1] \notin Topics(later)} \cup later

\* What is published anew, after the topics that are no longer of a live device.
Refresh(s, d, nodes) ==
  {<<ConnectedTopic(s.template), "2">>}
    \cup Then(Clears(Stale(s.template, d, nodes)), PublishAll(s, d, nodes, online, populated))

\* _out: nothing leaves while the connection is down.  `cleaned` names the
\* templates this event has looked through for topics to clear.
Send(batch, cleaned) ==
  /\ out' = IF connected /\ batch # {} THEN Append(out, [by |-> "she", pubs |-> batch]) ELSE out
  /\ lost' = IF connected THEN lost ELSE lost \cup Topics({p \in batch : p[2] # None})
  /\ unsettled' = IF connected /\ out = <<>> THEN unsettled \ cleaned ELSE unsettled \cup cleaned
  /\ UNCHANGED <<connected, known, retained>>

Silent == UNCHANGED <<connected, known, out, retained, lost, unsettled>>

-----------------------------------------------------------------------------
(* The controller's events, as the bridge hears them once it has started.  *)

OnAttr(n, v) == IF started THEN Send(PublishAttr(devices, n, v), {}) ELSE Silent

MutOnStatus(n, on) == IF started THEN Send(PublishOnline(settings, devices, n, on), {}) ELSE Silent

OnStatus(n, on) ==
  IF started THEN Send(IF on THEN PublishNode(settings, devices, n, TRUE, populated)
                             ELSE PublishOnline(settings, devices, n, FALSE), {})
             ELSE Silent

OnDeviceList(nodes, on, filled) ==
  IF started /\ settings.enabled
    THEN \E d \in EnsureNames(devices, nodes) :
         /\ devices' = d
         /\ Send(Then(Clears(Stale(settings.template, d, nodes)), PublishAll(settings, d, nodes, on, filled)), {settings.template})
    ELSE UNCHANGED devices /\ Silent
-----------------------------------------------------------------------------
(* The nodes and the controller *)

Commission(n) ==
  /\ ctrl /\ events < MaxEvents
  /\ n \notin paired \cup populated     \* a node id is used once
  /\ paired' = paired \cup {n} /\ online' = online \cup {n}
  /\ \E filled \in SUBSET {n} : populated' = populated \cup filled /\ watched' = watched \cup filled
  /\ val' = val
  /\ OnDeviceList(paired', online', populated')
  /\ events' = events + 1
  /\ UNCHANGED <<ctrl, settings, started, faults>>

Unpair(n) ==
  /\ n \in paired \ online /\ n \in populated /\ ctrl /\ events < MaxEvents
  /\ paired' = paired \ {n}
  /\ OnDeviceList(paired', online, populated)
  /\ events' = events + 1
  /\ UNCHANGED <<ctrl, online, populated, watched, val, settings, started, faults>>

\* A label changes on the device: the device list is emitted again, names stay.
Relabel(n) ==
  /\ n \in watched \cap online /\ ctrl /\ events < MaxEvents
  /\ OnDeviceList(paired, online, populated)
  /\ events' = events + 1
  /\ UNCHANGED <<ctrl, nodeVars, settings, started, faults>>

\* matter.js fills in the endpoints of a node commissioned without them.
Populate(n) ==
  /\ ctrl /\ n \in (paired \cap online) \ populated
  /\ populated' = populated \cup {n}
  /\ UNCHANGED <<ctrl, paired, online, watched, val, settings, devices, started, events, faults>> /\ Silent

\* 'online': the status event first, then the watchers that are not there yet.
Online(n) ==
  /\ ctrl /\ n \in paired \ online /\ events < MaxEvents
  /\ online' = online \cup {n}
  /\ OnStatus(n, TRUE)
  /\ watched' = watched \cup ({n} \cap populated)
  /\ events' = events + 1
  /\ UNCHANGED <<ctrl, paired, populated, val, settings, devices, started, faults>>

Offline(n) ==
  /\ ctrl /\ n \in paired \cap online /\ events < MaxEvents
  /\ online' = online \ {n}
  /\ OnStatus(n, FALSE)
  /\ events' = events + 1
  /\ UNCHANGED <<ctrl, paired, populated, watched, val, settings, devices, started, faults>>

\* A report changes the mirror; a watched node's change is emitted.
Report(n, v) ==
  /\ ctrl /\ n \in paired \cap online \cap populated /\ v # val[n] /\ events < MaxEvents
  /\ val' = [val EXCEPT ![n] = v]
  /\ IF n \in watched THEN OnAttr(n, v) ELSE Silent
  /\ events' = events + 1
  /\ UNCHANGED <<ctrl, paired, online, populated, watched, settings, devices, started, faults>>

\* Nodes that are online by now get their watchers, and no status event.
ControllerUp ==
  /\ ~ctrl
  /\ ctrl' = TRUE
  /\ online' \in SUBSET paired
  /\ watched' = online' \cap populated
  /\ UNCHANGED <<paired, populated, val, settings, devices, started, events, faults>> /\ Silent

-----------------------------------------------------------------------------
(* The bridge's own operations *)

\* start(): once the retained state is in, or a timeout of the start gates.
Start ==
  /\ ~started /\ (ctrl \/ EarlyStart)
  /\ IF connected /\ out = <<>> THEN faults' = faults ELSE faults < MaxFaults /\ faults' = faults + 1
  /\ started' = TRUE
  /\ IF settings.enabled
       THEN \E d \in EnsureNames(devices, ListPaired) :
            /\ devices' = d
            /\ Send(Refresh(settings, d, ListPaired), {settings.template})
       ELSE UNCHANGED devices /\ Silent
  /\ UNCHANGED <<ctrl, nodeVars, settings, events>>

\* A settings change clears what was published under the old template and
\* publishes all of it under the new one.
UpdateSettings(next) ==
  LET old == settings
      moved == next.template # old.template
      leaving == old.enabled /\ (moved \/ ~next.enabled)
      entering == started /\ next.enabled /\ (~old.enabled \/ moved)
      gone == IF leaving THEN Clears(Retained(old.template) \cup IF moved THEN {ConnectedTopic(old.template)} ELSE {}) ELSE {}
      off == IF leaving /\ ~next.enabled THEN {<<ConnectedTopic(old.template), "0">>} ELSE {}
  IN /\ next # old /\ events < MaxEvents /\ events' = events + 1
     /\ settings' = next
     /\ \E d \in IF entering THEN EnsureNames(devices, ListPaired) ELSE {devices} :
          /\ devices' = d
          /\ Send(Then(Then(gone, off), IF entering THEN Refresh(next, d, ListPaired) ELSE {}),
                  {t \in Template : (leaving /\ t = old.template) \/ (entering /\ t = next.template)})
     /\ UNCHANGED <<ctrl, nodeVars, started, faults>>

\* A rename or a switch is refused (no such node, a name that is taken or invalid):
\* by then the nodes without a name have got theirs.
RefuseDevice ==
  /\ events < MaxEvents /\ events' = events + 1
  /\ devices' \in EnsureNames(devices, ListPaired)
  /\ UNCHANGED <<ctrl, nodeVars, settings, started, faults>> /\ Silent

\* A rename, or the switch of one node.
SetDevice(n, name, publish) ==
  /\ events < MaxEvents /\ events' = events + 1
  /\ \E named \in EnsureNames(devices, ListPaired) :
       LET d == [named EXCEPT ![n] = [name |-> name, publish |-> publish]]
           old == named[n]
           clear == name # old.name \/ ~publish
       IN /\ Entry(named, n) /\ NameFree(named, n, name)
          /\ devices' = d
          /\ IF d[n] # old /\ settings.enabled /\ started
               THEN Send(Then(IF clear THEN Clears({t \in Retained(settings.template) : t[2] = old.name}
                                                   \cup Stale(settings.template, d, ListPaired)) ELSE {},
                              IF publish /\ n \in ListPaired THEN PublishNode(settings, d, n, n \in online, populated) ELSE {}),
                         IF clear THEN {settings.template} ELSE {})
               ELSE Silent
  /\ UNCHANGED <<ctrl, nodeVars, settings, started, faults>>

\* An inbound `get` publishes the cached value, of an offline node too.
Get(n) ==
  /\ started /\ settings.enabled /\ connected /\ Entry(devices, n)
  /\ n \in ListPaired \cap populated
  /\ events < MaxEvents /\ events' = events + 1
  /\ Send(PublishAttr(devices, n, val[n]), {})
  /\ UNCHANGED <<ctrl, nodeVars, setVars, started, faults>>

-----------------------------------------------------------------------------
(* The broker and the connection *)

Write(topics, batch) ==
  [t \in Topic |-> IF t \in Topics(batch) THEN (CHOOSE p \in batch : p[1] = t)[2] ELSE topics[t]]

\* A batch reaches the broker, and its echo (or the replay) the state store.
Deliver ==
  /\ out # <<>>
  /\ LET b == Head(out) cleared == Topics({p \in b.pubs : p[2] = None}) IN
     /\ out' = Tail(out)
     /\ known' = (known \cup Topics(b.pubs)) \ cleared
     /\ IF b.by = "she" THEN retained' = Write(retained, b.pubs) /\ lost' = lost \ Topics(b.pubs)
                        ELSE UNCHANGED <<retained, lost>>
  /\ UNCHANGED <<ctrl, nodeVars, setVars, started, connected, unsettled, events, faults>>

\* The broker replays its retained topics to the new subscription.
Connect ==
  /\ ~connected /\ connected' = TRUE
  /\ LET all == {<<t, retained[t]>> : t \in {u \in Topic : retained[u] # None}} IN
     out' = IF all = {} THEN <<>> ELSE <<[by |-> "broker", pubs |-> all]>>
  /\ UNCHANGED <<ctrl, nodeVars, setVars, started, known, retained, lost, unsettled, events, faults>>

\* What she published in the batches i..k of what was under way, and its last word
\* on each topic.
Hers(sent, i, k) == UNION {sent[j].pubs : j \in {j \in i..k : sent[j].by = "she"}}
Whole(sent, k) ==
  {p \in Hers(sent, 1, k) :
     \E i \in 1..k : p \in Hers(sent, i, i) /\ p[1] \notin Topics(Hers(sent, i + 1, k))}

\* The connection breaks: of what was on its way a first part has arrived,
\* without its echo, the rest is lost.  Inside a batch the cut is after its
\* clears, which go out first.
Break(sent) ==
  \E k \in 0..Len(sent) :
    \E part \in {{}} \cup IF k < Len(sent) THEN {{p \in Hers(sent, k + 1, k + 1) : p[2] = None}} ELSE {} :
      LET arrived == Then(Whole(sent, k), part)
          missed == Hers(sent, k + 1, Len(sent)) \ part
      IN /\ retained' = Write(retained, arrived)
         /\ lost' = (lost \ Topics(arrived)) \cup Topics({p \in missed : p[2] # None})
         /\ unsettled' = unsettled \cup {t[1] : t \in Topics({p \in missed : p[2] = None})}
         /\ out' = <<>> /\ connected' = FALSE

Close ==
  /\ connected /\ faults < MaxFaults
  /\ Break(out)
  /\ faults' = faults + 1
  /\ UNCHANGED <<ctrl, nodeVars, setVars, started, known, events>>

\* A crash, or a shutdown, which says `0` first; settings and names are in
\* their file after every change.
Restart ==
  /\ faults < MaxFaults /\ faults' = faults + 1
  /\ \E bye \in BOOLEAN :
       Break(IF bye /\ settings.enabled /\ connected
               THEN Append(out, [by |-> "she", pubs |-> {<<ConnectedTopic(settings.template), "0">>}]) ELSE out)
  /\ known' = {} /\ started' = FALSE /\ ctrl' = FALSE /\ watched' = {}
  /\ UNCHANGED <<paired, online, populated, val, setVars, events>>

-----------------------------------------------------------------------------
Init ==
  /\ ctrl = FALSE /\ paired = {First} /\ online = {} /\ populated = {First} /\ watched = {}
  /\ val \in [Node -> {CHOOSE v \in Value : TRUE}]
  /\ settings \in [enabled : BOOLEAN, template : {Default}]
  /\ devices = [n \in Node |-> NoEntry]
  /\ started = FALSE /\ connected = FALSE /\ known = {} /\ out = <<>>
  /\ retained = [t \in Topic |-> None]
  /\ lost = {} /\ unsettled = {}
  /\ events = 0 /\ faults = 0

NodeStep ==
  \/ ControllerUp
  \/ \E n \in Node : Commission(n) \/ Unpair(n) \/ Relabel(n) \/ Populate(n) \/ Online(n) \/ Offline(n)
  \/ \E n \in Node, v \in Value : Report(n, v)

BridgeStep ==
  \/ Start
  \/ \E next \in [enabled : BOOLEAN, template : Template] : UpdateSettings(next)
  \/ \E n \in Node, name \in Name, publish \in BOOLEAN : SetDevice(n, name, publish)
  \/ RefuseDevice
  \/ \E n \in Node : Get(n)

Next == NodeStep \/ BridgeStep \/ Deliver \/ Connect \/ Close \/ Restart

Spec == Init /\ [][Next]_vars

-----------------------------------------------------------------------------
(* Properties *)

\* The state has the types above, the bridge knows no more than can be
\* retained, and two nodes never publish under one name.
TypeOK ==
  /\ ctrl \in BOOLEAN /\ started \in BOOLEAN /\ connected \in BOOLEAN
  /\ paired \subseteq Node /\ online \subseteq Node /\ populated \subseteq Node
  /\ watched \subseteq populated
  /\ val \in [Node -> Value]
  /\ settings \in [enabled : BOOLEAN, template : Template]
  /\ devices \in [Node -> [name : Name, publish : BOOLEAN] \cup {NoEntry}]
  /\ \A m, n \in Node : Entry(devices, m) /\ Entry(devices, n) /\ m # n => devices[m].name # devices[n].name
  /\ known \subseteq Topic /\ lost \subseteq Topic /\ unsettled \subseteq Template
  /\ retained \in [Topic -> Payload \cup {None}]
  /\ out \in Seq(Batch)
  /\ out # <<>> => connected
  /\ events \in 0..MaxEvents /\ faults \in 0..MaxFaults

Quiet == started /\ connected /\ out = <<>>

\* Once what she sent has arrived, the retained topics hold the current state
\* of every bridged node: its online flag and, where its changes are watched,
\* the attribute of a node that is online; and the bridge's own flag says 2.
\* Only a publication that was dropped while the broker was away, or lost on
\* the way, is excused, until the topic is published again, and topics that nodes
\* share.
Current ==
  Quiet /\ settings.enabled =>
    \A p \in {<<ConnectedTopic(settings.template), "2">>} \cup PublishAll(settings, devices, ListPaired, online, populated) :
      \/ retained[p[1]] = p[2]
      \/ p[1] \in lost
      \/ p[1][3] = "attribute" /\ \E n \in ListPaired \ watched : Place(settings.template, devices, n) = p[1][2]
      \/ p[1][3] \in Keys /\ NamedBy[settings.template] = "none"

\* What may stay retained when all has arrived, and whose template was not cleared
\* while the broker was away, or before the echo of her own publications was in.
Remaining == {t \in Topic : retained[t] # None /\ t[3] \in Keys /\ t[1] \notin unsettled}

\* No retained topic outlives what it was published for: a disabled bridge, an
\* old template and an unpaired node leave nothing, nor does a node that was renamed
\* or switched off where its MQTT name is in the topic.  Excused is a template that
\* could not be cleared, until it is cleared again, and what names no node.
NothingStale ==
  Quiet =>
    \A t \in Remaining :
      /\ settings.enabled /\ t[1] = settings.template
      /\ CASE NamedBy[t[1]] = "device" -> t[2] \in LiveNames(devices, ListPaired)
           [] NamedBy[t[1]] = "nodeId" -> t[2] \in ListPaired
           [] OTHER -> TRUE

\* Switching a node's publishing off clears its topics, whatever they name it by:
\* what is retained is of a node that is paired and bridged.  It does not hold:
\* the cleanup passes over topics with the id of a paired node, and those that name none.
OffClears ==
  Quiet =>
    \A t \in Remaining :
      \E n \in ListPaired : Publishes(devices, n) /\ t[2] = Place(t[1], devices, n)

\* A node keeps the MQTT name it first got, whatever its label becomes and even
\* when it is gone: only a request for this very node changes it.
NameKept ==
  [][\A n \in Node : Entry(devices, n) /\ devices'[n] # devices[n] =>
       /\ Entry(devices', n)
       /\ \A m \in Node \ {n} : Entry(devices, m) => devices'[m] = devices[m]
       /\ UNCHANGED <<paired, settings, started>>]_vars
=============================================================================
