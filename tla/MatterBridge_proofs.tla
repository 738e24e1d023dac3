-------------------------- MODULE MatterBridge_proofs --------------------------
(***************************************************************************)
(* Proofs about MatterBridge, for any nodes, values, templates and bounds: *)
(* types, names, and that the retained topics show what is and no more.    *)
(* Both of the last follow from what a topic will hold once all that is    *)
(* under way has arrived (Ends below).                                     *)
(***************************************************************************)
EXTENDS MatterBridge, SequenceTheorems, TLAPS

Entries == [name : Name, publish : BOOLEAN]
Settings == [enabled : BOOLEAN, template : Template]

\* No two nodes have one name.
Names(d) ==
  /\ d \in [Node -> Entries \cup {NoEntry}]
  /\ \A m, n \in Node : Entry(d, m) /\ Entry(d, n) /\ m # n => d[m].name # d[n].name

OnlinePub(s, d, n, on) == <<<<s.template, Place(s.template, d, n), "online">>, IF on THEN "true" ELSE "false">>
AttrPub(s, d, n, v) == <<<<s.template, Place(s.template, d, n), "attribute">>, v>>

-----------------------------------------------------------------------------
(* Names *)

LEMMA NoEntryApart == NoEntry \notin Entries
<1>1. NoEntry.name = 0 /\ 0 \notin Name
  BY BridgeAssumption DEF NoEntry, Name
<1> QED
  BY <1>1 DEF Entries

LEMMA EntryMade ==
  ASSUME NEW x \in Name, NEW b \in BOOLEAN
  PROVE  /\ [name |-> x, publish |-> b] \in Entries
         /\ [name |-> x, publish |-> b].name = x /\ [name |-> x, publish |-> b].publish = b
<1>1. [name |-> x, publish |-> b] \in [name : Name, publish : BOOLEAN]
  OBVIOUS
<1> QED
  BY <1>1 DEF Entries

LEMMA EntryIs ==
  ASSUME NEW d, Names(d), NEW n \in Node
  PROVE  /\ Entry(d, n) <=> d[n] \in Entries
         /\ Entry(d, n) => d[n].name \in Name /\ d[n].publish \in BOOLEAN /\ NameOf(d, n) = d[n].name
         /\ ~Entry(d, n) => d[n] = NoEntry
         /\ NameOf(d, n) \in Name \cup Node
<1>1. d[n] \in Entries \cup {NoEntry}
  BY DEF Names
<1> QED
  BY <1>1, NoEntryApart DEF Entry, Entries, NameOf

\* uniqueName gives every new node a name of its own, and nobody loses one.
LEMMA Assigned ==
  ASSUME NEW d0, Names(d0), NEW nodes \in SUBSET Node, NEW d \in EnsureNames(d0, nodes)
  PROVE  /\ Names(d)
         /\ \A n \in nodes : Entry(d, n)
         /\ \A n \in Node : Entry(d0, n) => d[n] = d0[n]
         /\ \A n \in Node : Entry(d, n) => n \in nodes \/ Entry(d0, n)
<1>1. PICK new \in SUBSET nodes : new = {n \in nodes : ~Entry(d0, n)}
  OBVIOUS
<1>2. PICK f \in UniqueNames(NamesOf(d0), new) :
        d = [n \in Node |-> IF n \in new THEN [name |-> f[n], publish |-> TRUE] ELSE d0[n]]
  BY <1>1 DEF EnsureNames, NamesFrom
<1>3. f \in [new -> Name \ NamesOf(d0)] /\ \A m, n \in new : m # n => f[m] # f[n]
  BY <1>2 DEF UniqueNames
<1>4. \A n \in new : d[n] = [name |-> f[n], publish |-> TRUE] /\ f[n] \in Name /\ f[n] \notin NamesOf(d0)
  BY <1>2, <1>3
<1>5. \A n \in Node \ new : d[n] = d0[n]
  BY <1>2
<1>6. \A n \in new : d[n] \in Entries /\ d[n].name = f[n]
  <2> SUFFICES ASSUME NEW n \in new PROVE d[n] \in Entries /\ d[n].name = f[n]
    OBVIOUS
  <2>1. d[n] = [name |-> f[n], publish |-> TRUE] /\ f[n] \in Name /\ TRUE \in BOOLEAN
    BY <1>4
  <2>2. [name |-> f[n], publish |-> TRUE] \in Entries /\ [name |-> f[n], publish |-> TRUE].name = f[n]
    BY <2>1, EntryMade
  <2> QED
    BY <2>1, <2>2
<1>7. d \in [Node -> Entries \cup {NoEntry}]
  <2>1. \A n \in Node : d[n] \in Entries \cup {NoEntry}
    BY <1>5, <1>6 DEF Names
  <2> QED
    BY <1>2, <2>1
<1>8. \A n \in new : Entry(d, n)
  BY <1>6, NoEntryApart DEF Entry
<1>9. \A n \in Node \ new : Entry(d, n) <=> Entry(d0, n)
  BY <1>5 DEF Entry
<1>10. \A m, n \in Node : Entry(d, m) /\ Entry(d, n) /\ m # n => d[m].name # d[n].name
  <2>1. \A m \in Node : Entry(d0, m) => d0[m].name \in NamesOf(d0)
    BY DEF NamesOf
  <2> QED
    BY <1>3, <1>4, <1>5, <1>6, <1>9, <2>1 DEF Names
<1>11. \A n \in Node : Entry(d0, n) => d[n] = d0[n]
  BY <1>1, <1>5
<1>12. \A n \in nodes : Entry(d, n)
  BY <1>1, <1>8, <1>9
<1> QED
  BY <1>1, <1>7, <1>9, <1>10, <1>11, <1>12 DEF Names

LEMMA PlaceIs ==
  ASSUME NEW tpl \in Template, NEW d, Names(d), NEW n \in Node
  PROVE  Place(tpl, d, n) \in Places(tpl) /\ Place(tpl, d, n) \in Name \cup Node \cup {0}
  BY EntryIs DEF Place, Places

LEMMA NewName ==
  ASSUME NEW d0, Names(d0), NEW n \in Node, NEW name \in Name, NEW publish \in BOOLEAN,
         NameFree(d0, n, name)
  PROVE  Names([d0 EXCEPT ![n] = [name |-> name, publish |-> publish]])
<1>1. PICK e \in Entries : e = [name |-> name, publish |-> publish] /\ e.name = name
  BY EntryMade
<1>2. PICK d : d = [d0 EXCEPT ![n] = e]
  OBVIOUS
<1>3. d \in [Node -> Entries \cup {NoEntry}] /\ d[n] = e /\ \A m \in Node \ {n} : d[m] = d0[m]
  BY <1>2 DEF Names
<1>4. \A m \in Node \ {n} : d[m].name # name
  BY <1>3 DEF NameFree
<1>5. \A l, m \in Node : Entry(d, l) /\ Entry(d, m) /\ l # m => d[l].name # d[m].name
  BY <1>1, <1>3, <1>4 DEF Names, Entry
<1> QED
  BY <1>1, <1>2, <1>3, <1>5 DEF Names

-----------------------------------------------------------------------------
(* What is published *)

LEMMA NodePubs ==
  ASSUME NEW s, NEW d, NEW n, NEW on, NEW filled, NEW p
  PROVE  p \in PublishNode(s, d, n, on, filled) <=>
           /\ s.enabled /\ Publishes(d, n)
           /\ \/ p = OnlinePub(s, d, n, on)
              \/ on /\ n \in filled /\ p = AttrPub(s, d, n, val[n])
  BY DEF PublishNode, PublishOnline, OnlinePub, AttrPub

LEMMA PubTypes ==
  ASSUME NEW s \in Settings, NEW d, Names(d), NEW n \in Node
  PROVE  /\ \A on : OnlinePub(s, d, n, on) \in Topic \X Payload
         /\ \A v \in Value : AttrPub(s, d, n, v) \in Topic \X Payload
<1>1. /\ s.template \in Template
      /\ Place(s.template, d, n) \in Places(s.template) /\ Place(s.template, d, n) \in Name \cup Node \cup {0}
  BY PlaceIs DEF Settings
<1>2. \A k \in Keys : <<s.template, Place(s.template, d, n), k>> \in Topic
  <2> SUFFICES ASSUME NEW k \in Keys PROVE <<s.template, Place(s.template, d, n), k>> \in Topic
    OBVIOUS
  <2>1. PICK t : t = <<s.template, Place(s.template, d, n), k>>
    OBVIOUS
  <2>2. t[1] = s.template /\ t[2] = Place(s.template, d, n) /\ t \in Template \X (Name \cup Node \cup {0}) \X Keys
    BY <1>1, <2>1
  <2> QED
    BY <1>1, <2>1, <2>2 DEF Topic
<1>3. "online" \in Keys /\ "attribute" \in Keys
  BY DEF Keys
<1> QED
  BY <1>2, <1>3 DEF OnlinePub, AttrPub, Payload

LEMMA NonePayload == None \notin Payload
  BY BridgeAssumption DEF None, Payload

LEMMA NodePubTypes ==
  ASSUME NEW s \in Settings, NEW d, Names(d), NEW n \in Node, NEW on, NEW filled, val \in [Node -> Value]
  PROVE  PublishNode(s, d, n, on, filled) \subseteq Topic \X Payload
<1>1. val[n] \in Value
  OBVIOUS
<1>2. OnlinePub(s, d, n, on) \in Topic \X Payload /\ AttrPub(s, d, n, val[n]) \in Topic \X Payload
  BY <1>1, PubTypes
<1> QED
  BY <1>2, NodePubs

LEMMA AllPubTypes ==
  ASSUME NEW s \in Settings, NEW d, Names(d), NEW nodes \in SUBSET Node, NEW on, NEW filled, val \in [Node -> Value]
  PROVE  PublishAll(s, d, nodes, on, filled) \subseteq Topic \X Payload
  BY NodePubTypes DEF PublishAll, Lasting

LEMMA ClearTypes ==
  ASSUME NEW topics \in SUBSET Topic
  PROVE  Clears(topics) \subseteq Publication /\ Topics(Clears(topics)) = topics
<1>1. Clears(topics) \subseteq Publication
  BY DEF Clears, Publication
<1>2. \A t \in topics : <<t, None>> \in Clears(topics) /\ <<t, None>>[1] = t
  BY DEF Clears
<1>3. \A p \in Clears(topics) : p[1] \in topics
  BY DEF Clears
<1>4. Topics(Clears(topics)) = topics
  BY <1>2, <1>3 DEF Topics
<1> QED
  BY <1>1, <1>4

LEMMA ConnectedTypes ==
  ASSUME NEW t \in Template
  PROVE  ConnectedTopic(t) \in Topic /\ ConnectedTopic(t) = <<t, 0, "connected">>
  BY DEF ConnectedTopic, Topic

-----------------------------------------------------------------------------
(* Types *)

\* What a handler does to the connection: it publishes a batch or nothing.
Speaks == Silent \/ \E batch \in SUBSET Publication, cleaned \in SUBSET Template : Send(batch, cleaned)

MqttTypes ==
  /\ connected \in BOOLEAN
  /\ known \subseteq Topic /\ lost \subseteq Topic /\ unsettled \subseteq Template
  /\ retained \in [Topic -> Payload \cup {None}]
  /\ out \in Seq(Batch)
  /\ out # <<>> => connected

NodeTypes ==
  /\ ctrl \in BOOLEAN
  /\ paired \subseteq Node /\ online \subseteq Node /\ populated \subseteq Node
  /\ watched \subseteq populated
  /\ val \in [Node -> Value]

BridgeTypes ==
  /\ started \in BOOLEAN /\ settings \in Settings /\ Names(devices)
  /\ events \in 0..MaxEvents /\ faults \in 0..MaxFaults

LEMMA TypeParts == TypeOK <=> NodeTypes /\ BridgeTypes /\ MqttTypes
  BY DEF TypeOK, NodeTypes, BridgeTypes, MqttTypes, Names, Entries, Settings

LEMMA BatchMade ==
  ASSUME NEW batch \in SUBSET Publication, NEW by \in {"she", "broker"}
  PROVE  [by |-> by, pubs |-> batch] \in Batch
  BY DEF Batch

LEMMA PubsOf ==
  ASSUME NEW batch \in SUBSET Publication
  PROVE  /\ Topics(batch) \subseteq Topic
         /\ \A p \in batch : p = <<p[1], p[2]>> /\ p[1] \in Topic /\ p[2] \in Payload \cup {None}
  BY DEF Publication, Topics

LEMMA SpeakTypes ==
  ASSUME MqttTypes, Speaks
  PROVE  MqttTypes'
<1>1. CASE Silent
  BY <1>1 DEF Silent, MqttTypes
<1>2. ASSUME NEW batch \in SUBSET Publication, NEW cleaned \in SUBSET Template, Send(batch, cleaned)
      PROVE  MqttTypes'
  <2>1. UNCHANGED <<connected, known, retained>>
    BY <1>2 DEF Send
  <2>2. lost' \subseteq Topic
    <3>1. Topics({p \in batch : p[2] # None}) \subseteq Topic
      BY PubsOf
    <3> QED
      BY <1>2, <3>1 DEF Send, MqttTypes
  <2>3. unsettled' \subseteq Template
    BY <1>2 DEF Send, MqttTypes
  <2>4. out' \in Seq(Batch) /\ (out' # <<>> => connected')
    <3>1. [by |-> "she", pubs |-> batch] \in Batch
      BY BatchMade
    <3>2. out \in Seq(Batch) /\ Append(out, [by |-> "she", pubs |-> batch]) \in Seq(Batch)
      BY <3>1 DEF MqttTypes
    <3>3. (out' = Append(out, [by |-> "she", pubs |-> batch]) /\ connected) \/ out' = out
      BY <1>2 DEF Send
    <3> QED
      BY <2>1, <3>2, <3>3 DEF MqttTypes
  <2> QED
    BY <2>1, <2>2, <2>3, <2>4 DEF MqttTypes
<1> QED
  BY <1>1, <1>2 DEF Speaks

LEMMA ThenTypes ==
  ASSUME NEW a \in SUBSET Publication, NEW b \in SUBSET Publication
  PROVE  Then(a, b) \in SUBSET Publication
  BY DEF Then

LEMMA Pubs ==
  ASSUME NEW batch \in SUBSET (Topic \X Payload)
  PROVE  batch \in SUBSET Publication
  BY DEF Publication

LEMMA StaleTypes ==
  ASSUME known \subseteq Topic, NEW tpl, NEW d, NEW nodes
  PROVE  Retained(tpl) \in SUBSET Topic /\ Stale(tpl, d, nodes) \in SUBSET Topic
  BY DEF Stale, Retained

\* The node part of what is published anew.
LEMMA AnewTypes ==
  ASSUME NodeTypes, known \subseteq Topic, NEW s \in Settings, NEW d, Names(d), NEW nodes \in SUBSET Node,
         NEW on, NEW filled
  PROVE  Then(Clears(Stale(s.template, d, nodes)), PublishAll(s, d, nodes, on, filled)) \in SUBSET Publication
<1>1. Clears(Stale(s.template, d, nodes)) \in SUBSET Publication
  BY StaleTypes, ClearTypes
<1>2. PublishAll(s, d, nodes, on, filled) \in SUBSET Publication
  BY AllPubTypes, Pubs DEF NodeTypes
<1> QED
  BY <1>1, <1>2, ThenTypes

LEMMA ConnectedPub ==
  ASSUME NEW tpl \in Template, NEW v \in {"2", "0", None}
  PROVE  {<<ConnectedTopic(tpl), v>>} \in SUBSET Publication
<1>1. v \in Payload \cup {None}
  BY DEF Payload
<1> QED
  BY <1>1, ConnectedTypes DEF Publication

LEMMA RefreshTypes ==
  ASSUME NodeTypes, known \subseteq Topic, NEW s \in Settings, NEW d, Names(d), NEW nodes \in SUBSET Node
  PROVE  Refresh(s, d, nodes) \in SUBSET Publication
<1>1. {<<ConnectedTopic(s.template), "2">>} \in SUBSET Publication
  BY ConnectedPub DEF Settings
<1> QED
  BY <1>1, AnewTypes DEF Refresh

LEMMA DeviceListTypes ==
  ASSUME TypeOK, NEW nodes \in SUBSET Node, NEW on, NEW filled, OnDeviceList(nodes, on, filled)
  PROVE  Names(devices') /\ Speaks
<1>1. NodeTypes /\ BridgeTypes /\ MqttTypes
  BY TypeParts
<1>2. CASE started /\ settings.enabled
  <2>1. PICK d \in EnsureNames(devices, nodes) :
          /\ devices' = d
          /\ Send(Then(Clears(Stale(settings.template, d, nodes)), PublishAll(settings, d, nodes, on, filled)),
                  {settings.template})
    BY <1>2 DEF OnDeviceList
  <2>2. Names(d)
    BY <1>1, Assigned DEF BridgeTypes
  <2>3. Then(Clears(Stale(settings.template, d, nodes)), PublishAll(settings, d, nodes, on, filled)) \in SUBSET Publication
    BY <1>1, <2>2, AnewTypes DEF BridgeTypes, MqttTypes
  <2>4. {settings.template} \in SUBSET Template
    BY <1>1 DEF BridgeTypes, Settings
  <2> QED
    BY <2>1, <2>2, <2>3, <2>4 DEF Speaks
<1>3. CASE ~(started /\ settings.enabled)
  BY <1>1, <1>3 DEF OnDeviceList, BridgeTypes, Speaks
<1> QED
  BY <1>2, <1>3

LEMMA StatusTypes ==
  ASSUME TypeOK, NEW n \in Node, NEW on, OnStatus(n, on)
  PROVE  Speaks
<1>1. NodeTypes /\ BridgeTypes /\ MqttTypes
  BY TypeParts
<1>2. PublishNode(settings, devices, n, TRUE, populated) \in SUBSET Publication
  BY <1>1, NodePubTypes, Pubs DEF NodeTypes, BridgeTypes
<1>3. PublishOnline(settings, devices, n, FALSE) \in SUBSET Publication
  <2>1. PublishOnline(settings, devices, n, FALSE) \subseteq {OnlinePub(settings, devices, n, FALSE)}
    BY DEF PublishOnline, OnlinePub
  <2>2. OnlinePub(settings, devices, n, FALSE) \in Topic \X Payload
    BY <1>1, PubTypes DEF BridgeTypes
  <2> QED
    BY <2>1, <2>2 DEF Publication
<1>4. {} \in SUBSET Template
  OBVIOUS
<1> QED
  BY <1>2, <1>3, <1>4 DEF OnStatus, Speaks

LEMMA AttrTypes ==
  ASSUME TypeOK, NEW n \in Node, NEW v \in Value
  PROVE  PublishAttr(devices, n, v) \in SUBSET Publication
<1>1. PublishAttr(devices, n, v) \subseteq {AttrPub(settings, devices, n, v)}
  BY DEF PublishAttr, AttrPub
<1>2. AttrPub(settings, devices, n, v) \in Topic \X Payload
  BY TypeParts, PubTypes DEF BridgeTypes
<1> QED
  BY <1>1, <1>2 DEF Publication

LEMMA GetTypes ==
  ASSUME TypeOK, NEW n \in Node
  PROVE  PublishAttr(devices, n, val[n]) \in SUBSET Publication
<1>1. val[n] \in Value
  BY DEF TypeOK
<1> QED
  BY <1>1, AttrTypes

LEMMA SettingsTypes ==
  ASSUME TypeOK, NEW next \in Settings, UpdateSettings(next)
  PROVE  settings' = next /\ Names(devices') /\ Speaks
<1>1. NodeTypes /\ BridgeTypes /\ MqttTypes
  BY TypeParts
<1> DEFINE moved == next.template # settings.template
           leaving == settings.enabled /\ (moved \/ ~next.enabled)
           entering == started /\ next.enabled /\ (~settings.enabled \/ moved)
           gone == IF leaving THEN Clears(Retained(settings.template) \cup IF moved THEN {ConnectedTopic(settings.template)} ELSE {}) ELSE {}
           off == IF leaving /\ ~next.enabled THEN {<<ConnectedTopic(settings.template), "0">>} ELSE {}
           fresh(d) == IF entering THEN Refresh(next, d, ListPaired) ELSE {}
           cleaned == {t \in Template : (leaving /\ t = settings.template) \/ (entering /\ t = next.template)}
<1>2. PICK d \in IF entering THEN EnsureNames(devices, ListPaired) ELSE {devices} :
        devices' = d /\ Send(Then(Then(gone, off), fresh(d)), cleaned)
  BY DEF UpdateSettings
<1>3. ListPaired \in SUBSET Node
  BY <1>1 DEF ListPaired, NodeTypes
<1>4. Names(d)
  BY <1>1, <1>2, <1>3, Assigned DEF BridgeTypes
<1>5. settings.template \in Template
  BY <1>1 DEF BridgeTypes, Settings
<1>6. gone \in SUBSET Publication
  <2>1. Retained(settings.template) \cup (IF moved THEN {ConnectedTopic(settings.template)} ELSE {}) \in SUBSET Topic
    BY <1>1, <1>5, StaleTypes, ConnectedTypes DEF MqttTypes
  <2> QED
    BY <2>1, ClearTypes
<1>7. off \in SUBSET Publication
  BY <1>5, ConnectedPub
<1>8. fresh(d) \in SUBSET Publication
  BY <1>1, <1>3, <1>4, RefreshTypes DEF MqttTypes
<1>9. Then(Then(gone, off), fresh(d)) \in SUBSET Publication
  <2> HIDE DEF gone, off, fresh
  <2> QED
    BY <1>6, <1>7, <1>8, ThenTypes
<1>10. cleaned \in SUBSET Template
  OBVIOUS
<1>11. Speaks
  <2> HIDE DEF gone, off, fresh, cleaned
  <2> QED
    BY <1>2, <1>9, <1>10 DEF Speaks
<1>12. settings' = next
  BY DEF UpdateSettings
<1> QED
  BY <1>2, <1>4, <1>11, <1>12

LEMMA DeviceTypes ==
  ASSUME TypeOK, NEW n \in Node, NEW name \in Name, NEW publish \in BOOLEAN, SetDevice(n, name, publish)
  PROVE  Names(devices') /\ Speaks
<1>1. NodeTypes /\ BridgeTypes /\ MqttTypes
  BY TypeParts
<1>2. ListPaired \in SUBSET Node
  BY <1>1 DEF ListPaired, NodeTypes
<1> DEFINE after(named) == [named EXCEPT ![n] = [name |-> name, publish |-> publish]]
           clear(named) == name # named[n].name \/ ~publish
           gone(named) == {t \in Retained(settings.template) : t[2] = named[n].name} \cup Stale(settings.template, after(named), ListPaired)
           shown(named) == IF publish /\ n \in ListPaired THEN PublishNode(settings, after(named), n, n \in online, populated) ELSE {}
           batch(named) == Then(IF clear(named) THEN Clears(gone(named)) ELSE {}, shown(named))
           cleaned(named) == IF clear(named) THEN {settings.template} ELSE {}
<1>3. PICK named \in EnsureNames(devices, ListPaired) :
        /\ NameFree(named, n, name)
        /\ devices' = after(named)
        /\ Silent \/ Send(batch(named), cleaned(named))
  BY DEF SetDevice
<1>4. Names(named)
  BY <1>1, <1>2, <1>3, Assigned DEF BridgeTypes
<1>5. Names(after(named))
  BY <1>3, <1>4, NewName
<1>6. gone(named) \in SUBSET Topic
  BY <1>1, StaleTypes DEF MqttTypes
<1>7. shown(named) \in SUBSET Publication
  <2>1. PublishNode(settings, after(named), n, n \in online, populated) \in SUBSET (Topic \X Payload)
    <3> HIDE DEF after
    <3> QED
      BY <1>1, <1>5, NodePubTypes DEF BridgeTypes, NodeTypes
  <2> HIDE DEF after
  <2> QED
    BY <2>1, Pubs
<1>8. batch(named) \in SUBSET Publication
  <2> HIDE DEF gone, shown, clear
  <2>1. Clears(gone(named)) \in SUBSET Publication
    BY <1>6, ClearTypes
  <2>2. (IF clear(named) THEN Clears(gone(named)) ELSE {}) \in SUBSET Publication
    BY <2>1
  <2> QED
    BY <2>2, <1>7, ThenTypes
<1>9. cleaned(named) \in SUBSET Template
  BY <1>1 DEF BridgeTypes, Settings
<1> HIDE DEF after, batch, cleaned
<1> QED
  BY <1>3, <1>5, <1>8, <1>9 DEF Speaks

-----------------------------------------------------------------------------
(* The connection *)

LEMMA WriteTypes ==
  ASSUME NEW batch \in SUBSET Publication, NEW topics \in [Topic -> Payload \cup {None}]
  PROVE  Write(topics, batch) \in [Topic -> Payload \cup {None}]
<1> SUFFICES ASSUME NEW t \in Topic, t \in Topics(batch)
             PROVE  (CHOOSE p \in batch : p[1] = t)[2] \in Payload \cup {None}
  BY DEF Write
<1>1. \E p \in batch : p[1] = t
  BY DEF Topics
<1>2. PICK p \in batch : p = CHOOSE q \in batch : q[1] = t
  BY <1>1
<1> QED
  BY <1>2, PubsOf

LEMMA HersTypes ==
  ASSUME NEW sent \in Seq(Batch), NEW i \in 1..Len(sent) + 1, NEW k \in 0..Len(sent)
  PROVE  Hers(sent, i, k) \in SUBSET Publication
<1>1. \A j \in i..k : sent[j] \in Batch
  <2>1. Len(sent) \in Nat
    BY LenProperties
  <2>2. \A j \in i..k : j \in 1..Len(sent)
    BY <2>1
  <2> QED
    BY <2>2, ElementOfSeq
<1> QED
  BY <1>1 DEF Hers, Batch

\* What breaks off: how many batches arrived whole, and which clears of the next.
Cut(sent, k, part) ==
  /\ retained' = Write(retained, Then(Whole(sent, k), part))
  /\ lost' = (lost \ Topics(Then(Whole(sent, k), part)))
             \cup Topics({p \in Hers(sent, k + 1, Len(sent)) \ part : p[2] # None})
  /\ unsettled' = unsettled \cup {t[1] : t \in Topics({p \in Hers(sent, k + 1, Len(sent)) \ part : p[2] = None})}
  /\ out' = <<>> /\ connected' = FALSE

LEMMA BreakCut ==
  ASSUME NEW sent \in Seq(Batch), Break(sent)
  PROVE  \E k \in 0..Len(sent), part \in SUBSET Publication :
           /\ Cut(sent, k, part)
           /\ part = {} \/ (k < Len(sent) /\ part = {p \in Hers(sent, k + 1, k + 1) : p[2] = None})
<1>0. PICK k \in 0..Len(sent) :
        \E part \in {{}} \cup IF k < Len(sent) THEN {{p \in Hers(sent, k + 1, k + 1) : p[2] = None}} ELSE {} :
          Cut(sent, k, part)
  BY DEF Break, Cut
<1>1. PICK part \in {{}} \cup IF k < Len(sent) THEN {{p \in Hers(sent, k + 1, k + 1) : p[2] = None}} ELSE {} :
        Cut(sent, k, part)
  BY <1>0
<1>2. part = {} \/ (k < Len(sent) /\ part = {p \in Hers(sent, k + 1, k + 1) : p[2] = None})
  BY <1>1
<1>3. part \in SUBSET Publication
  <2>1. Len(sent) \in Nat
    BY LenProperties
  <2>2. k < Len(sent) => Hers(sent, k + 1, k + 1) \in SUBSET Publication
    BY <2>1, HersTypes
  <2> QED
    BY <1>2, <2>2
<1> QED
  BY <1>1, <1>2, <1>3

LEMMA BreakTypes ==
  ASSUME MqttTypes, NEW sent \in Seq(Batch), Break(sent)
  PROVE  /\ connected' = FALSE /\ out' = <<>>
         /\ lost' \subseteq Topic /\ unsettled' \subseteq Template
         /\ retained' \in [Topic -> Payload \cup {None}]
<1>1. PICK k \in 0..Len(sent), part \in SUBSET Publication : Cut(sent, k, part)
  BY BreakCut
<1>2. Len(sent) \in Nat
  BY LenProperties
<1>3. Whole(sent, k) \in SUBSET Publication
  BY <1>2, HersTypes DEF Whole
<1>4. PICK arrived \in SUBSET Publication : arrived = Then(Whole(sent, k), part)
  BY <1>1, <1>3, ThenTypes
<1>5. retained' \in [Topic -> Payload \cup {None}]
  BY <1>1, <1>4, WriteTypes DEF Cut, MqttTypes
<1>6. PICK missed \in SUBSET Publication : missed = Hers(sent, k + 1, Len(sent)) \ part
  <2>1. k + 1 \in 1..Len(sent) + 1 /\ Len(sent) \in 0..Len(sent)
    BY <1>2
  <2>2. Hers(sent, k + 1, Len(sent)) \in SUBSET Publication
    BY <2>1, HersTypes
  <2> QED
    BY <2>2
<1>7. Topics({p \in missed : p[2] # None}) \subseteq Topic /\ Topics({p \in missed : p[2] = None}) \subseteq Topic
  BY PubsOf
<1>8. \A t \in Topic : t[1] \in Template
  BY DEF Topic
<1>9. lost' \subseteq Topic
  BY <1>1, <1>6, <1>7 DEF Cut, MqttTypes
<1>10. unsettled' \subseteq Template
  BY <1>1, <1>6, <1>7, <1>8 DEF Cut, MqttTypes
<1> QED
  BY <1>1, <1>5, <1>9, <1>10 DEF Cut

LEMMA DeliverTypes ==
  ASSUME MqttTypes, Deliver
  PROVE  MqttTypes'
<1>1. out # <<>> /\ out \in Seq(Batch)
  BY DEF Deliver, MqttTypes
<1>2. Head(out) \in Batch /\ Tail(out) \in Seq(Batch)
  BY <1>1, HeadTailProperties
<1>3. PICK pubs \in SUBSET Publication : pubs = Head(out).pubs
  BY <1>2 DEF Batch
<1>4. Topics(pubs) \subseteq Topic
  BY PubsOf
<1>5. Write(retained, pubs) \in [Topic -> Payload \cup {None}]
  BY WriteTypes DEF MqttTypes
<1> QED
  BY <1>1, <1>2, <1>3, <1>4, <1>5 DEF Deliver, MqttTypes

\* The replay, if any topic is retained.
Replayed == {<<t, retained[t]>> : t \in {u \in Topic : retained[u] # None}}

LEMMA ConnectTypes ==
  ASSUME MqttTypes, Connect
  PROVE  MqttTypes'
<1>1. Replayed \in SUBSET Publication
  BY DEF Replayed, Publication, MqttTypes
<1>2. PICK b \in Batch : b = [by |-> "broker", pubs |-> Replayed]
  BY <1>1, BatchMade
<1>3. out' \in {<<>>, <<b>>}
  BY <1>2 DEF Connect, Replayed
<1>4. out' \in Seq(Batch)
  <2>1. <<b>> \in Seq(Batch)
    OBVIOUS
  <2> QED
    BY <1>3, <2>1, EmptySeq
<1>5. connected' = TRUE
  BY DEF Connect
<1>6. known' = known /\ retained' = retained /\ lost' = lost /\ unsettled' = unsettled
  BY DEF Connect
<1> QED
  BY <1>4, <1>5, <1>6 DEF MqttTypes

-----------------------------------------------------------------------------
(* THEOREM Spec => []TypeOK *)

LEMMA Counters ==
  ASSUME NEW n \in Nat, NEW x \in 0..n, NEW y, y = x \/ (x < n /\ y = x + 1)
  PROVE  y \in 0..n
  OBVIOUS

LEMMA NodeTypesStep ==
  ASSUME TypeOK, NodeStep
  PROVE  TypeOK'
<1>1. NodeTypes /\ BridgeTypes /\ MqttTypes
  BY TypeParts
<1>2. MaxEvents \in Nat
  BY BridgeAssumption
<1>3. ASSUME Speaks, Names(devices'), NodeTypes', settings' = settings /\ started' = started /\ faults' = faults,
             events' = events \/ (events < MaxEvents /\ events' = events + 1)
      PROVE  TypeOK'
  <2>1. MqttTypes'
    BY <1>1, <1>3, SpeakTypes
  <2>2. events' \in 0..MaxEvents
    BY <1>1, <1>2, <1>3, Counters DEF BridgeTypes
  <2>3. BridgeTypes'
    <3>1. Names(devices)'
      BY <1>3
    <3> QED
      BY <1>1, <1>3, <2>2, <3>1 DEF BridgeTypes
  <2> QED
    BY <1>3, <2>1, <2>3, TypeParts, PTL
<1>4. Names(devices)
  BY <1>1 DEF BridgeTypes
<1>5. CASE ControllerUp
  <2>1. NodeTypes'
    BY <1>1, <1>5 DEF ControllerUp, NodeTypes
  <2>2. Speaks /\ devices' = devices
    BY <1>5 DEF ControllerUp, Speaks
  <2> QED
    BY <1>3, <1>4, <1>5, <2>1, <2>2 DEF ControllerUp
<1>6. ASSUME NEW n \in Node, Commission(n)
      PROVE  TypeOK'
  <2>1. paired' \in SUBSET Node
    BY <1>1, <1>6 DEF Commission, NodeTypes
  <2>2. NodeTypes'
    BY <1>1, <1>6 DEF Commission, NodeTypes
  <2>3. Names(devices') /\ Speaks
    BY <1>6, <2>1, DeviceListTypes DEF Commission
  <2> QED
    BY <1>3, <1>6, <2>2, <2>3 DEF Commission
<1>7. ASSUME NEW n \in Node, Unpair(n)
      PROVE  TypeOK'
  <2>1. paired' \in SUBSET Node
    BY <1>1, <1>7 DEF Unpair, NodeTypes
  <2>2. NodeTypes'
    BY <1>1, <1>7 DEF Unpair, NodeTypes
  <2>3. Names(devices') /\ Speaks
    BY <1>7, <2>1, DeviceListTypes DEF Unpair
  <2> QED
    BY <1>3, <1>7, <2>2, <2>3 DEF Unpair
<1>8. ASSUME NEW n \in Node, Relabel(n)
      PROVE  TypeOK'
  <2>1. paired \in SUBSET Node
    BY <1>1 DEF NodeTypes
  <2>2. NodeTypes'
    BY <1>1, <1>8 DEF Relabel, NodeTypes, nodeVars
  <2>3. Names(devices') /\ Speaks
    BY <1>8, <2>1, DeviceListTypes DEF Relabel
  <2> QED
    BY <1>3, <1>8, <2>2, <2>3 DEF Relabel
<1>9. ASSUME NEW n \in Node, Populate(n)
      PROVE  TypeOK'
  <2>1. NodeTypes'
    BY <1>1, <1>9 DEF Populate, NodeTypes
  <2>2. Speaks /\ devices' = devices
    BY <1>9 DEF Populate, Speaks
  <2> QED
    BY <1>3, <1>4, <1>9, <2>1, <2>2 DEF Populate
<1>10. ASSUME NEW n \in Node, Online(n)
       PROVE  TypeOK'
  <2>1. NodeTypes'
    BY <1>1, <1>10 DEF Online, NodeTypes
  <2>2. Speaks /\ devices' = devices
    BY <1>10, StatusTypes DEF Online
  <2> QED
    BY <1>3, <1>4, <1>10, <2>1, <2>2 DEF Online
<1>11. ASSUME NEW n \in Node, Offline(n)
       PROVE  TypeOK'
  <2>1. NodeTypes'
    BY <1>1, <1>11 DEF Offline, NodeTypes
  <2>2. Speaks /\ devices' = devices
    BY <1>11, StatusTypes DEF Offline
  <2> QED
    BY <1>3, <1>4, <1>11, <2>1, <2>2 DEF Offline
<1>12. ASSUME NEW n \in Node, NEW v \in Value, Report(n, v)
       PROVE  TypeOK'
  <2>1. NodeTypes'
    BY <1>1, <1>12 DEF Report, NodeTypes
  <2>2. PublishAttr(devices, n, v) \in SUBSET Publication /\ {} \in SUBSET Template
    BY AttrTypes
  <2>3. Speaks /\ devices' = devices
    BY <1>12, <2>2 DEF Report, OnAttr, Speaks
  <2> QED
    BY <1>3, <1>4, <1>12, <2>1, <2>3 DEF Report
<1> QED
  BY <1>5, <1>6, <1>7, <1>8, <1>9, <1>10, <1>11, <1>12 DEF NodeStep

LEMMA BridgeTypesStep ==
  ASSUME TypeOK, BridgeStep
  PROVE  TypeOK'
<1>1. NodeTypes /\ BridgeTypes /\ MqttTypes
  BY TypeParts
<1>2. MaxEvents \in Nat /\ MaxFaults \in Nat
  BY BridgeAssumption
<1>3. ASSUME Speaks, Names(devices'), settings' \in Settings, started' \in BOOLEAN, UNCHANGED <<ctrl, nodeVars>>,
             faults' = faults \/ (faults < MaxFaults /\ faults' = faults + 1),
             events' = events \/ (events < MaxEvents /\ events' = events + 1)
      PROVE  TypeOK'
  <2>1. MqttTypes'
    BY <1>1, <1>3, SpeakTypes
  <2>2. events' \in 0..MaxEvents /\ faults' \in 0..MaxFaults
    BY <1>1, <1>2, <1>3, Counters DEF BridgeTypes
  <2>3. BridgeTypes'
    <3>1. Names(devices)'
      BY <1>3
    <3> QED
      BY <1>3, <2>2, <3>1 DEF BridgeTypes
  <2>4. NodeTypes'
    BY <1>1, <1>3 DEF NodeTypes, nodeVars
  <2> QED
    BY <2>1, <2>3, <2>4, TypeParts, PTL
<1>4. settings \in Settings /\ started \in BOOLEAN /\ Names(devices)
  BY <1>1 DEF BridgeTypes
<1>5. ListPaired \in SUBSET Node
  BY <1>1 DEF ListPaired, NodeTypes
<1>6. CASE Start
  <2>1. Names(devices') /\ Speaks
    <3>1. CASE settings.enabled
      <4>1. PICK d \in EnsureNames(devices, ListPaired) :
              devices' = d /\ Send(Refresh(settings, d, ListPaired), {settings.template})
        BY <1>6, <3>1 DEF Start
      <4>2. Names(d)
        BY <1>4, <1>5, Assigned
      <4>3. Refresh(settings, d, ListPaired) \in SUBSET Publication
        BY <1>1, <1>4, <1>5, <4>2, RefreshTypes DEF MqttTypes
      <4>4. {settings.template} \in SUBSET Template
        BY <1>4 DEF Settings
      <4> QED
        BY <4>1, <4>2, <4>3, <4>4 DEF Speaks
    <3>2. CASE ~settings.enabled
      BY <1>4, <1>6, <3>2 DEF Start, Speaks
    <3> QED
      BY <3>1, <3>2
  <2>2. started' \in BOOLEAN /\ settings' = settings /\ events' = events /\ UNCHANGED <<ctrl, nodeVars>>
    BY <1>6 DEF Start
  <2>3. faults' = faults \/ (faults < MaxFaults /\ faults' = faults + 1)
    BY <1>6 DEF Start
  <2> QED
    BY <1>3, <1>4, <2>1, <2>2, <2>3
<1>7. ASSUME NEW next \in [enabled : BOOLEAN, template : Template], UpdateSettings(next)
      PROVE  TypeOK'
  <2>1. next \in Settings
    BY <1>7 DEF Settings
  <2>2. settings' = next /\ Names(devices') /\ Speaks
    BY <1>7, <2>1, SettingsTypes
  <2>3. started' = started /\ UNCHANGED <<ctrl, nodeVars>> /\ faults' = faults
    BY <1>7 DEF UpdateSettings
  <2>4. events < MaxEvents /\ events' = events + 1
    BY <1>7 DEF UpdateSettings
  <2> QED
    BY <1>3, <1>4, <2>1, <2>2, <2>3, <2>4
<1>8. ASSUME NEW n \in Node, NEW name \in Name, NEW publish \in BOOLEAN, SetDevice(n, name, publish)
      PROVE  TypeOK'
  <2>1. Names(devices') /\ Speaks
    BY <1>8, DeviceTypes
  <2>2. settings' = settings /\ started' = started /\ UNCHANGED <<ctrl, nodeVars>> /\ faults' = faults
    BY <1>8 DEF SetDevice
  <2>3. events < MaxEvents /\ events' = events + 1
    BY <1>8 DEF SetDevice
  <2> QED
    BY <1>3, <1>4, <2>1, <2>2, <2>3
<1>9. CASE RefuseDevice
  <2>1. Names(devices') /\ Speaks
    BY <1>4, <1>5, <1>9, Assigned DEF RefuseDevice, Speaks
  <2>2. settings' = settings /\ started' = started /\ UNCHANGED <<ctrl, nodeVars>> /\ faults' = faults
    BY <1>9 DEF RefuseDevice
  <2>3. events < MaxEvents /\ events' = events + 1
    BY <1>9 DEF RefuseDevice
  <2> QED
    BY <1>3, <1>4, <2>1, <2>2, <2>3
<1>10. ASSUME NEW n \in Node, Get(n)
       PROVE  TypeOK'
  <2>1. PublishAttr(devices, n, val[n]) \in SUBSET Publication /\ {} \in SUBSET Template
    BY GetTypes
  <2>2. Speaks
    BY <1>10, <2>1 DEF Get, Speaks
  <2>3. settings' = settings /\ devices' = devices /\ started' = started /\ UNCHANGED <<ctrl, nodeVars>> /\ faults' = faults
    BY <1>10 DEF Get, setVars
  <2>4. events < MaxEvents /\ events' = events + 1
    BY <1>10 DEF Get
  <2> QED
    BY <1>3, <1>4, <2>2, <2>3, <2>4
<1> QED
  BY <1>6, <1>7, <1>8, <1>9, <1>10 DEF BridgeStep

LEMMA ConnectionTypesStep ==
  ASSUME TypeOK, Deliver \/ Connect \/ Close \/ Restart
  PROVE  TypeOK'
<1>1. NodeTypes /\ BridgeTypes /\ MqttTypes
  BY TypeParts
<1>2. MaxFaults \in Nat
  BY BridgeAssumption
<1>3. CASE Deliver \/ Connect
  <2>1. MqttTypes'
    BY <1>1, <1>3, DeliverTypes, ConnectTypes
  <2>2. UNCHANGED <<ctrl, nodeVars, setVars, started, events, faults>>
    BY <1>3 DEF Deliver, Connect
  <2>3. NodeTypes' /\ BridgeTypes'
    BY <1>1, <2>2 DEF NodeTypes, BridgeTypes, nodeVars, setVars
  <2> QED
    BY <2>1, <2>3, TypeParts, PTL
<1>4. ASSUME NEW sent \in Seq(Batch), Break(sent), known' \subseteq known,
             UNCHANGED <<paired, online, populated, val, setVars, events>>,
             watched' \subseteq watched, ctrl' \in BOOLEAN, started' \in BOOLEAN,
             faults < MaxFaults /\ faults' = faults + 1
      PROVE  TypeOK'
  <2>1. MqttTypes'
    BY <1>1, <1>4, BreakTypes, EmptySeq DEF MqttTypes
  <2>2. NodeTypes'
    BY <1>1, <1>4 DEF NodeTypes
  <2>3. faults' \in 0..MaxFaults
    BY <1>1, <1>2, <1>4, Counters DEF BridgeTypes
  <2>4. BridgeTypes'
    BY <1>1, <1>4, <2>3 DEF BridgeTypes, setVars
  <2> QED
    BY <2>1, <2>2, <2>4, TypeParts, PTL
<1>5. out \in Seq(Batch)
  BY <1>1 DEF MqttTypes
<1>6. CASE Close
  <2>1. Break(out) /\ known' \subseteq known /\ watched' \subseteq watched
    BY <1>6 DEF Close, nodeVars
  <2>2. ctrl' \in BOOLEAN /\ started' \in BOOLEAN
    BY <1>1, <1>6 DEF Close, NodeTypes, BridgeTypes
  <2>3. UNCHANGED <<paired, online, populated, val, setVars, events>>
    BY <1>6 DEF Close, nodeVars
  <2>4. faults < MaxFaults /\ faults' = faults + 1
    BY <1>6 DEF Close
  <2> QED
    BY <1>4, <1>5, <2>1, <2>2, <2>3, <2>4
<1>7. CASE Restart
  <2>1. PICK bye \in BOOLEAN :
          Break(IF bye /\ settings.enabled /\ connected
                  THEN Append(out, [by |-> "she", pubs |-> {<<ConnectedTopic(settings.template), "0">>}]) ELSE out)
    BY <1>7 DEF Restart
  <2>2. [by |-> "she", pubs |-> {<<ConnectedTopic(settings.template), "0">>}] \in Batch
    BY <1>1, ConnectedPub, BatchMade DEF BridgeTypes, Settings
  <2>3. PICK sent \in Seq(Batch) : Break(sent)
    <3>1. Append(out, [by |-> "she", pubs |-> {<<ConnectedTopic(settings.template), "0">>}]) \in Seq(Batch)
      BY <1>5, <2>2
    <3> QED
      BY <1>5, <2>1, <3>1
  <2>4. known' \subseteq known /\ watched' \subseteq watched /\ ctrl' \in BOOLEAN /\ started' \in BOOLEAN
    BY <1>7 DEF Restart
  <2>5. UNCHANGED <<paired, online, populated, val, setVars, events>>
    BY <1>7 DEF Restart
  <2>6. faults < MaxFaults /\ faults' = faults + 1
    BY <1>7 DEF Restart
  <2> QED
    BY <1>4, <2>3, <2>4, <2>5, <2>6
<1> QED
  BY <1>3, <1>6, <1>7

\* The types hold from the start.
LEMMA TypeInit == Init => TypeOK
<1> SUFFICES ASSUME Init PROVE TypeOK
  OBVIOUS
<1>1. First \in Node /\ Default \in Template /\ MaxEvents \in Nat /\ MaxFaults \in Nat
  BY BridgeAssumption
<1>2. (CHOOSE v \in Value : TRUE) \in Value
  BY BridgeAssumption
<1>3. val \in [Node -> Value]
  BY <1>2 DEF Init
<1>4. NodeTypes
  BY <1>1, <1>3 DEF Init, NodeTypes
<1>5. Names(devices)
  BY DEF Init, Names, Entry
<1>6. settings \in Settings
  BY <1>1 DEF Init, Settings
<1>7. BridgeTypes
  <2>1. events = 0 /\ faults = 0 /\ started = FALSE
    BY DEF Init
  <2>2. events \in 0..MaxEvents /\ faults \in 0..MaxFaults
    BY <1>1, <2>1
  <2>3. started \in BOOLEAN
    BY <2>1
  <2> QED
    BY <1>5, <1>6, <2>2, <2>3 DEF BridgeTypes
<1>8. retained \in [Topic -> Payload \cup {None}] /\ out = <<>> /\ connected = FALSE
  BY DEF Init
<1>9. MqttTypes
  BY <1>8, EmptySeq DEF Init, MqttTypes
<1> QED
  BY <1>4, <1>7, <1>9, TypeParts

\* What mqtt-bridge.js and the broker hold keeps its types: _ensureNames and
\* setDevice never give two nodes one name, and nothing leaves while she is not
\* connected (_out).
THEOREM TypeCorrect == Spec => []TypeOK
<1>1. TypeOK /\ UNCHANGED vars => TypeOK'
  <2> SUFFICES ASSUME TypeOK, UNCHANGED vars PROVE TypeOK'
    OBVIOUS
  <2>1. NodeTypes /\ BridgeTypes /\ MqttTypes
    BY TypeParts
  <2>2. NodeTypes' /\ BridgeTypes' /\ MqttTypes'
    BY <2>1 DEF vars, NodeTypes, BridgeTypes, MqttTypes
  <2> QED
    BY <2>2, TypeParts, PTL
<1>2. TypeOK /\ [Next]_vars => TypeOK'
  BY <1>1, NodeTypesStep, BridgeTypesStep, ConnectionTypesStep DEF Next
<1> QED
  BY <1>2, TypeInit, PTL DEF Spec

-----------------------------------------------------------------------------
(* THEOREM Spec => NameKept *)

LEMMA KeptByEnsure ==
  ASSUME Names(devices), NEW nodes \in SUBSET Node, devices' \in EnsureNames(devices, nodes)
  PROVE  \A n \in Node : Entry(devices, n) => devices'[n] = devices[n]
  BY Assigned

LEMMA KeptByList ==
  ASSUME Names(devices), NEW nodes \in SUBSET Node, NEW on, NEW filled, OnDeviceList(nodes, on, filled)
  PROVE  \A n \in Node : Entry(devices, n) => devices'[n] = devices[n]
  BY KeptByEnsure DEF OnDeviceList

\* What NameKept says of one step.
Keeps ==
  \A n \in Node : Entry(devices, n) /\ devices'[n] # devices[n] =>
    /\ Entry(devices', n)
    /\ \A m \in Node \ {n} : Entry(devices, m) => devices'[m] = devices[m]
    /\ UNCHANGED <<paired, settings, started>>

\* Of all handlers only a request for the node itself changes an entry.
LEMMA KeptStep ==
  ASSUME TypeOK, [Next]_vars
  PROVE  Keeps
<1>1. Names(devices) /\ paired \in SUBSET Node /\ ListPaired \in SUBSET Node
  BY TypeParts DEF NodeTypes, BridgeTypes, ListPaired
<1>2. ASSUME \A n \in Node : Entry(devices, n) => devices'[n] = devices[n]
      PROVE  Keeps
  BY <1>2 DEF Keeps
<1>3. ASSUME devices' = devices
      PROVE  Keeps
  BY <1>3 DEF Keeps
<1>4. CASE NodeStep
  <2>1. CASE ControllerUp
    BY <1>3, <2>1 DEF ControllerUp
  <2>2. ASSUME NEW n \in Node, Commission(n) \/ Unpair(n) \/ Relabel(n)
        PROVE  Keeps
    <3>1. paired' \in SUBSET Node
      BY <1>1, <2>2 DEF Commission, Unpair, Relabel, nodeVars
    <3>2. \E nodes \in SUBSET Node : \E on, filled : OnDeviceList(nodes, on, filled)
      BY <1>1, <2>2, <3>1 DEF Commission, Unpair, Relabel
    <3> QED
      BY <1>1, <1>2, <3>2, KeptByList
  <2>3. ASSUME NEW n \in Node, Populate(n) \/ Online(n) \/ Offline(n)
        PROVE  Keeps
    BY <1>3, <2>3 DEF Populate, Online, Offline
  <2>4. ASSUME NEW n \in Node, NEW v \in Value, Report(n, v)
        PROVE  Keeps
    BY <1>3, <2>4 DEF Report
  <2> QED
    BY <1>4, <2>1, <2>2, <2>3, <2>4 DEF NodeStep
<1>5. CASE Start
  BY <1>1, <1>2, <1>3, <1>5, KeptByEnsure DEF Start
<1>6. ASSUME NEW next \in [enabled : BOOLEAN, template : Template], UpdateSettings(next)
      PROVE  Keeps
  <2>1. devices' \in EnsureNames(devices, ListPaired) \/ devices' = devices
    BY <1>6 DEF UpdateSettings
  <2> QED
    BY <1>1, <1>2, <1>3, <2>1, KeptByEnsure
<1>7. ASSUME NEW n \in Node, NEW name \in Name, NEW publish \in BOOLEAN, SetDevice(n, name, publish)
      PROVE  Keeps
  <2>1. PICK named \in EnsureNames(devices, ListPaired) :
          Entry(named, n) /\ devices' = [named EXCEPT ![n] = [name |-> name, publish |-> publish]]
    BY <1>7 DEF SetDevice
  <2>2. \A m \in Node : Entry(devices, m) => named[m] = devices[m]
    BY <1>1, <2>1, Assigned
  <2>3. Names(named)
    BY <1>1, <2>1, Assigned
  <2>4. PICK e \in Entries : e = [name |-> name, publish |-> publish]
    BY EntryMade
  <2>5. devices'[n] = e /\ \A m \in Node \ {n} : devices'[m] = named[m]
    BY <2>1, <2>3, <2>4 DEF Names
  <2>6. Entry(devices', n)
    BY <2>5, NoEntryApart DEF Entry
  <2>7. \A m \in Node \ {n} : Entry(devices, m) => devices'[m] = devices[m]
    BY <2>2, <2>5
  <2>8. UNCHANGED <<paired, settings, started>>
    BY <1>7 DEF SetDevice, nodeVars
  <2> QED
    BY <2>6, <2>7, <2>8 DEF Keeps
<1>8. CASE RefuseDevice
  BY <1>1, <1>2, <1>8, KeptByEnsure DEF RefuseDevice
<1>9. ASSUME NEW n \in Node, Get(n)
      PROVE  Keeps
  BY <1>3, <1>9 DEF Get, setVars
<1>10. CASE Deliver \/ Connect \/ Close \/ Restart
  BY <1>3, <1>10 DEF Deliver, Connect, Close, Restart, setVars
<1>11. CASE UNCHANGED vars
  BY <1>3, <1>11 DEF vars
<1> QED
  BY <1>4, <1>5, <1>6, <1>7, <1>8, <1>9, <1>10, <1>11 DEF Next, BridgeStep

\* A node keeps the MQTT name it first got, whatever its label becomes and even
\* when it is gone: in mqtt-bridge.js only setDevice for this very node changes it.
THEOREM NamesKept == Spec => NameKept
<1>1. TypeOK /\ [Next]_vars => Keeps
  BY KeptStep
<1>2. TypeOK /\ [Next]_vars =>
        [\A n \in Node : Entry(devices, n) /\ devices'[n] # devices[n] =>
           /\ Entry(devices', n)
           /\ \A m \in Node \ {n} : Entry(devices, m) => devices'[m] = devices[m]
           /\ UNCHANGED <<paired, settings, started>>]_vars
  BY <1>1 DEF Keeps
<1> QED
  BY <1>2, TypeCorrect, PTL DEF Spec, NameKept

-----------------------------------------------------------------------------
(* The inductive invariant *)

\* What she says herself of a topic: the last batch that names it has the last word.
Mine(sent, i) == IF sent[i].by = "she" THEN sent[i].pubs ELSE {}
Untouched(sent, t) == \A i \in DOMAIN sent : t \notin Topics(Mine(sent, i))
Says(sent, t, v) ==
  \E i \in DOMAIN sent : <<t, v>> \in Mine(sent, i) /\ \A j \in DOMAIN sent : j > i => t \notin Topics(Mine(sent, j))

\* What a topic will hold once all that is under way has arrived.
Ends(t, v) == Says(out, t, v) \/ (retained[t] = v /\ Untouched(out, t))
Missing(t) == t \in lost /\ Untouched(out, t)

Functional(pubs) == \A p, q \in pubs : p[1] = q[1] => p = q

\* Topics of a bridged node, and what the bridge owes the broker.
Lives(d, nodes, t) ==
  CASE NamedBy[t[1]] = "device" -> t[2] \in LiveNames(d, nodes)
    [] NamedBy[t[1]] = "nodeId" -> t[2] \in nodes
    [] OTHER -> TRUE
LiveIn(s, d, nodes, t) == s.enabled /\ t[1] = s.template /\ Lives(d, nodes, t)
Live(t) == settings.enabled /\ t[1] = settings.template /\ (started => Lives(devices, ListPaired, t))
OwedBy(s, d, nodes, on, seen, vals, p) ==
  \/ p = <<ConnectedTopic(s.template), "2">>
  \/ /\ NamedBy[s.template] # "none"
     /\ \E n \in nodes : Publishes(d, n) /\ p = OnlinePub(s, d, n, n \in on)
  \/ /\ NamedBy[s.template] # "none"
     /\ \E n \in nodes : Publishes(d, n) /\ n \in on /\ n \in seen /\ p = AttrPub(s, d, n, vals[n])
Owed(p) == started /\ settings.enabled /\ OwedBy(settings, devices, ListPaired, online, watched, val, p)

\* Every paired node has its entry before anything is published.
Named == started => ctrl /\ (settings.enabled => \A n \in paired : Entry(devices, n))

\* A batch says one thing of a topic; the broker replays no empty payload.
OneEach == \A i \in DOMAIN out : Functional(out[i].pubs)
Replay == \A i \in DOMAIN out : out[i].by = "broker" => \A p \in out[i].pubs : p[2] # None

\* Nothing is retained that the state store has not heard of, or will not hear.
Known == connected => \A t \in Topic : retained[t] # None => t \in known \/ \E i \in DOMAIN out : t \in Topics(out[i].pubs)

\* A topic that is of no live node ends up empty; what is owed ends up there.
Cleared == \A t \in Topic : t[3] \in Keys /\ t[1] \notin unsettled /\ ~Live(t) => Ends(t, None)
Paid == \A p \in Publication : Owed(p) => Ends(p[1], p[2]) \/ Missing(p[1])

Connection == OneEach /\ Replay /\ Known
Inv == Named /\ Connection /\ Cleared /\ Paid

-----------------------------------------------------------------------------
(* What is under way *)

LEMMA MineIs ==
  ASSUME NEW sent \in Seq(Batch), NEW i \in DOMAIN sent
  PROVE  /\ Mine(sent, i) \in SUBSET Publication
         /\ sent[i].pubs \in SUBSET Publication /\ sent[i].by \in {"she", "broker"}
         /\ Mine(sent, i) \subseteq sent[i].pubs
<1>1. sent[i] \in Batch
  BY LenProperties, ElementOfSeq
<1> QED
  BY <1>1 DEF Mine, Batch

Put(sent, batch) == Append(sent, [by |-> "she", pubs |-> batch])
Rest(sent) == Tail(sent)

\* A batch is appended.
LEMMA Appended ==
  ASSUME NEW sent \in Seq(Batch), NEW batch \in SUBSET Publication
  PROVE  /\ DOMAIN Put(sent, batch) = 1..Len(sent) + 1 /\ DOMAIN sent = 1..Len(sent) /\ Len(sent) \in Nat
         /\ \A i \in DOMAIN sent : Put(sent, batch)[i] = sent[i] /\ Mine(Put(sent, batch), i) = Mine(sent, i)
         /\ Put(sent, batch)[Len(sent) + 1] = [by |-> "she", pubs |-> batch] /\ Mine(Put(sent, batch), Len(sent) + 1) = batch
<1>1. [by |-> "she", pubs |-> batch] \in Batch
  BY BatchMade
<1>2. PICK b \in Batch : b = [by |-> "she", pubs |-> batch]
  BY <1>1
<1>3. Put(sent, batch) = Append(sent, b)
  BY <1>2 DEF Put
<1>4. Len(sent) \in Nat /\ DOMAIN sent = 1..Len(sent)
  BY LenProperties
<1>5. DOMAIN Put(sent, batch) = 1..Len(sent) + 1 /\ Put(sent, batch)[Len(sent) + 1] = b /\ \A i \in 1..Len(sent) : Put(sent, batch)[i] = sent[i]
  BY <1>3, <1>4
<1>6. b.by = "she" /\ b.pubs = batch
  BY <1>2
<1> QED
  BY <1>2, <1>4, <1>5, <1>6 DEF Mine

\* What she says in it is her last word, and of other topics nothing changes.
LEMMA AppendedSays ==
  ASSUME NEW sent \in Seq(Batch), NEW batch \in SUBSET Publication
  PROVE  /\ \A t, v : <<t, v>> \in batch => Says(Put(sent, batch), t, v)
         /\ \A t, v : t \notin Topics(batch) /\ Says(sent, t, v) => Says(Put(sent, batch), t, v)
         /\ \A t : t \notin Topics(batch) /\ Untouched(sent, t) => Untouched(Put(sent, batch), t)
<1>1. /\ DOMAIN Put(sent, batch) = 1..Len(sent) + 1 /\ DOMAIN sent = 1..Len(sent) /\ Len(sent) \in Nat
      /\ \A i \in DOMAIN sent : Put(sent, batch)[i] = sent[i] /\ Mine(Put(sent, batch), i) = Mine(sent, i)
      /\ Put(sent, batch)[Len(sent) + 1] = [by |-> "she", pubs |-> batch] /\ Mine(Put(sent, batch), Len(sent) + 1) = batch
  BY Appended
<1>2. ASSUME NEW t, NEW v, <<t, v>> \in batch
      PROVE  Says(Put(sent, batch), t, v)
  <2>1. Len(sent) + 1 \in DOMAIN Put(sent, batch) /\ \A j \in DOMAIN Put(sent, batch) : ~(j > Len(sent) + 1)
    BY <1>1
  <2> QED
    BY <1>1, <1>2, <2>1 DEF Says
<1>3. ASSUME NEW t, NEW v, t \notin Topics(batch), Says(sent, t, v)
      PROVE  Says(Put(sent, batch), t, v)
  <2>1. PICK i \in DOMAIN sent : <<t, v>> \in Mine(sent, i) /\ \A j \in DOMAIN sent : j > i => t \notin Topics(Mine(sent, j))
    BY <1>3 DEF Says
  <2>2. i \in DOMAIN Put(sent, batch) /\ <<t, v>> \in Mine(Put(sent, batch), i)
    BY <1>1, <2>1
  <2>3. \A j \in DOMAIN Put(sent, batch) : j > i => t \notin Topics(Mine(Put(sent, batch), j))
    <3> SUFFICES ASSUME NEW j \in DOMAIN Put(sent, batch), j > i PROVE t \notin Topics(Mine(Put(sent, batch), j))
      OBVIOUS
    <3>1. CASE j \in DOMAIN sent
      BY <1>1, <2>1, <3>1
    <3>2. CASE j = Len(sent) + 1
      BY <1>1, <1>3, <3>2
    <3>3. j \in DOMAIN sent \/ j = Len(sent) + 1
      BY <1>1
    <3> QED
      BY <3>1, <3>2, <3>3
  <2> QED
    BY <2>2, <2>3 DEF Says
<1>4. ASSUME NEW t, t \notin Topics(batch), Untouched(sent, t)
      PROVE  Untouched(Put(sent, batch), t)
  <2> SUFFICES ASSUME NEW j \in DOMAIN Put(sent, batch) PROVE t \notin Topics(Mine(Put(sent, batch), j))
    BY DEF Untouched
  <2>1. CASE j \in DOMAIN sent
    BY <1>1, <1>4, <2>1 DEF Untouched
  <2>2. CASE j = Len(sent) + 1
    BY <1>1, <1>4, <2>2
  <2>3. j \in DOMAIN sent \/ j = Len(sent) + 1
    BY <1>1
  <2> QED
    BY <2>1, <2>2, <2>3
<1> QED
  BY <1>2, <1>3, <1>4

\* The first batch leaves.
LEMMA Left ==
  ASSUME NEW sent \in Seq(Batch), sent # <<>>
  PROVE  /\ DOMAIN sent = 1..Len(sent) /\ Len(sent) \in Nat \ {0} /\ DOMAIN Rest(sent) = 1..Len(sent) - 1
         /\ sent[1] = Head(sent)
         /\ \A i \in DOMAIN Rest(sent) : i + 1 \in DOMAIN sent /\ Rest(sent)[i] = sent[i + 1] /\ Mine(Rest(sent), i) = Mine(sent, i + 1)
         /\ \A i \in DOMAIN sent : i # 1 => i - 1 \in DOMAIN Rest(sent) /\ Mine(Rest(sent), i - 1) = Mine(sent, i)
<1>1. DOMAIN sent = 1..Len(sent) /\ Len(sent) \in Nat \ {0}
  BY LenProperties, EmptySeq
<1>2. Rest(sent) \in Seq(Batch) /\ Len(Rest(sent)) = Len(sent) - 1 /\ \A i \in 1..Len(Rest(sent)) : Rest(sent)[i] = sent[i + 1]
  BY HeadTailProperties DEF Rest
<1>3. DOMAIN Rest(sent) = 1..Len(sent) - 1
  BY <1>2, LenProperties
<1>4. sent[1] = Head(sent)
  OBVIOUS
<1>5. \A i \in DOMAIN Rest(sent) : i + 1 \in DOMAIN sent /\ Rest(sent)[i] = sent[i + 1] /\ Mine(Rest(sent), i) = Mine(sent, i + 1)
  BY <1>1, <1>2, <1>3 DEF Mine
<1>6. \A i \in DOMAIN sent : i # 1 => i - 1 \in DOMAIN Rest(sent) /\ Mine(Rest(sent), i - 1) = Mine(sent, i)
  <2> SUFFICES ASSUME NEW i \in DOMAIN sent, i # 1 PROVE i - 1 \in DOMAIN Rest(sent) /\ Mine(Rest(sent), i - 1) = Mine(sent, i)
    OBVIOUS
  <2>1. i - 1 \in DOMAIN Rest(sent) /\ (i - 1) + 1 = i
    BY <1>1, <1>3
  <2> QED
    BY <1>5, <2>1
<1> QED
  BY <1>1, <1>3, <1>4, <1>5, <1>6

LEMMA LeftSays ==
  ASSUME NEW sent \in Seq(Batch), sent # <<>>, NEW t
  PROVE  /\ \A v : Says(sent, t, v) => Says(Rest(sent), t, v) \/ (<<t, v>> \in Mine(sent, 1) /\ Untouched(Rest(sent), t))
         /\ Untouched(sent, t) => Untouched(Rest(sent), t) /\ t \notin Topics(Mine(sent, 1))
<1>1. /\ DOMAIN sent = 1..Len(sent) /\ Len(sent) \in Nat \ {0} /\ DOMAIN Rest(sent) = 1..Len(sent) - 1
      /\ sent[1] = Head(sent)
      /\ \A i \in DOMAIN Rest(sent) : i + 1 \in DOMAIN sent /\ Rest(sent)[i] = sent[i + 1] /\ Mine(Rest(sent), i) = Mine(sent, i + 1)
      /\ \A i \in DOMAIN sent : i # 1 => i - 1 \in DOMAIN Rest(sent) /\ Mine(Rest(sent), i - 1) = Mine(sent, i)
  BY Left
<1>2. ASSUME NEW v, Says(sent, t, v)
      PROVE  Says(Rest(sent), t, v) \/ (<<t, v>> \in Mine(sent, 1) /\ Untouched(Rest(sent), t))
  <2>1. PICK i \in DOMAIN sent : <<t, v>> \in Mine(sent, i) /\ \A j \in DOMAIN sent : j > i => t \notin Topics(Mine(sent, j))
    BY <1>2 DEF Says
  <2>2. CASE i = 1
    <3>1. \A j \in DOMAIN Rest(sent) : t \notin Topics(Mine(Rest(sent), j))
      <4> SUFFICES ASSUME NEW j \in DOMAIN Rest(sent) PROVE t \notin Topics(Mine(Rest(sent), j))
        OBVIOUS
      <4>1. j + 1 \in DOMAIN sent /\ j + 1 > i /\ Mine(Rest(sent), j) = Mine(sent, j + 1)
        BY <1>1, <2>2
      <4> QED
        BY <2>1, <4>1
    <3> QED
      BY <2>1, <2>2, <3>1 DEF Untouched
  <2>3. CASE i # 1
    <3>1. i - 1 \in DOMAIN Rest(sent) /\ <<t, v>> \in Mine(Rest(sent), i - 1)
      BY <1>1, <2>1, <2>3
    <3>2. \A j \in DOMAIN Rest(sent) : j > i - 1 => t \notin Topics(Mine(Rest(sent), j))
      <4> SUFFICES ASSUME NEW j \in DOMAIN Rest(sent), j > i - 1 PROVE t \notin Topics(Mine(Rest(sent), j))
        OBVIOUS
      <4>1. j + 1 \in DOMAIN sent /\ j + 1 > i /\ Mine(Rest(sent), j) = Mine(sent, j + 1)
        BY <1>1
      <4> QED
        BY <2>1, <4>1
    <3> QED
      BY <3>1, <3>2 DEF Says
  <2> QED
    BY <2>2, <2>3
<1>3. ASSUME Untouched(sent, t)
      PROVE  Untouched(Rest(sent), t) /\ t \notin Topics(Mine(sent, 1))
  BY <1>1, <1>3 DEF Untouched
<1> QED
  BY <1>2, <1>3

LEMMA Written ==
  ASSUME NEW batch \in SUBSET Publication, NEW topics, NEW t \in Topic
  PROVE  /\ t \notin Topics(batch) => Write(topics, batch)[t] = topics[t]
         /\ \A v : <<t, v>> \in batch /\ (\A p \in batch : p[1] = t => p = <<t, v>>) => Write(topics, batch)[t] = v
<1>1. ASSUME NEW v, <<t, v>> \in batch, \A p \in batch : p[1] = t => p = <<t, v>>
      PROVE  Write(topics, batch)[t] = v
  <2>1. <<t, v>>[1] = t
    OBVIOUS
  <2>2. t \in Topics(batch)
    BY <1>1, <2>1 DEF Topics
  <2>3. (CHOOSE p \in batch : p[1] = t) = <<t, v>>
    BY <1>1, <2>1
  <2>4. Write(topics, batch)[t] = (CHOOSE p \in batch : p[1] = t)[2]
    BY <2>2 DEF Write
  <2>5. <<t, v>>[2] = v
    OBVIOUS
  <2> QED
    BY <2>3, <2>4, <2>5
<1>2. t \notin Topics(batch) => Write(topics, batch)[t] = topics[t]
  BY DEF Write
<1> QED
  BY <1>1, <1>2

LEMMA InTopics ==
  ASSUME NEW batch \in SUBSET Publication, NEW t
  PROVE  t \in Topics(batch) <=> \E v \in Payload \cup {None} : <<t, v>> \in batch
<1>1. t \in Topics(batch) <=> \E p \in batch : p[1] = t
  BY DEF Topics
<1>2. \A p \in batch : p = <<p[1], p[2]>> /\ p[2] \in Payload \cup {None}
  BY PubsOf
<1>3. \A v : <<t, v>>[1] = t
  OBVIOUS
<1> QED
  BY <1>1, <1>2, <1>3

-----------------------------------------------------------------------------
(* A break in the connection *)

LEMMA HersIs ==
  ASSUME NEW sent, NEW i \in Int, NEW k \in Int, NEW p
  PROVE  p \in Hers(sent, i, k) <=> \E j \in i..k : p \in Mine(sent, j)
  BY DEF Hers, Mine

LEMMA BreakSays ==
  ASSUME MqttTypes, NEW sent \in Seq(Batch), \A i \in DOMAIN sent : Functional(sent[i].pubs), Break(sent),
         NEW t \in Topic
  PROVE  /\ \A v : Says(sent, t, v) =>
              \/ retained'[t] = v
              \/ v = None /\ t[1] \in unsettled'
              \/ v # None /\ t \in lost'
         /\ Untouched(sent, t) => retained'[t] = retained[t] /\ (t \in lost => t \in lost')
<1>1. PICK k \in 0..Len(sent), part \in SUBSET Publication :
        /\ Cut(sent, k, part)
        /\ part = {} \/ (k < Len(sent) /\ part = {p \in Hers(sent, k + 1, k + 1) : p[2] = None})
  BY BreakCut
<1>2. Len(sent) \in Nat /\ DOMAIN sent = 1..Len(sent)
  BY LenProperties
<1>3. Whole(sent, k) \in SUBSET Publication
  BY <1>2, HersTypes DEF Whole
<1>4. PICK arrived \in SUBSET Publication : arrived = Then(Whole(sent, k), part)
  BY <1>3, ThenTypes
<1>5. PICK missed \in SUBSET Publication : missed = Hers(sent, k + 1, Len(sent)) \ part
  <2>1. k + 1 \in 1..Len(sent) + 1 /\ Len(sent) \in 0..Len(sent)
    BY <1>2
  <2>2. Hers(sent, k + 1, Len(sent)) \in SUBSET Publication
    BY <2>1, HersTypes
  <2> QED
    BY <2>2
<1>6. retained' = Write(retained, arrived) /\ lost' = (lost \ Topics(arrived)) \cup Topics({p \in missed : p[2] # None})
      /\ unsettled' = unsettled \cup {u[1] : u \in Topics({p \in missed : p[2] = None})}
  BY <1>1, <1>4, <1>5 DEF Cut
<1>7. \A p \in part : k + 1 \in DOMAIN sent /\ p \in Mine(sent, k + 1) /\ p[2] = None
  <2> SUFFICES ASSUME NEW p \in part PROVE k + 1 \in DOMAIN sent /\ p \in Mine(sent, k + 1) /\ p[2] = None
    OBVIOUS
  <2>1. k < Len(sent) /\ p \in Hers(sent, k + 1, k + 1) /\ p[2] = None
    BY <1>1
  <2>2. k + 1 \in Int /\ \A j \in (k + 1)..(k + 1) : j = k + 1
    BY <1>2
  <2> QED
    BY <1>2, <2>1, <2>2, HersIs
<1>8. \A p \in Whole(sent, k) : \E i \in 1..k :
        i \in DOMAIN sent /\ p \in Mine(sent, i) /\ \A j \in (i + 1)..k : p[1] \notin Topics(Mine(sent, j))
  <2> SUFFICES ASSUME NEW p \in Whole(sent, k)
               PROVE  \E i \in 1..k : i \in DOMAIN sent /\ p \in Mine(sent, i)
                                      /\ \A j \in (i + 1)..k : p[1] \notin Topics(Mine(sent, j))
    OBVIOUS
  <2>1. PICK i \in 1..k : p \in Hers(sent, i, i) /\ p[1] \notin Topics(Hers(sent, i + 1, k))
    BY DEF Whole
  <2>2. i \in DOMAIN sent /\ i \in Int /\ i + 1 \in Int /\ k \in Int /\ \A j \in i..i : j = i
    BY <1>2
  <2>3. p \in Mine(sent, i)
    BY <2>1, <2>2, HersIs
  <2>4. \A j \in (i + 1)..k : p[1] \notin Topics(Mine(sent, j))
    <3>1. \A j \in (i + 1)..k : \A q \in Mine(sent, j) : q \in Hers(sent, i + 1, k)
      BY <2>2, HersIs
    <3> QED
      BY <2>1, <3>1 DEF Topics
  <2> QED
    BY <2>2, <2>3, <2>4
<1>9. ASSUME NEW v, Says(sent, t, v)
      PROVE  \/ retained'[t] = v
             \/ v = None /\ t[1] \in unsettled'
             \/ v # None /\ t \in lost'
  <2>1. PICK i \in DOMAIN sent : <<t, v>> \in Mine(sent, i) /\ \A j \in DOMAIN sent : j > i => t \notin Topics(Mine(sent, j))
    BY <1>9 DEF Says
  <2>2. <<t, v>>[1] = t /\ <<t, v>>[2] = v
    OBVIOUS
  <2>3. CASE i <= k
    <3>1. t \notin Topics(part)
      <4> SUFFICES ASSUME NEW p \in part, p[1] = t PROVE FALSE
        BY DEF Topics
      <4>1. k + 1 \in DOMAIN sent /\ p \in Mine(sent, k + 1) /\ k + 1 > i
        BY <1>2, <1>7, <2>3
      <4> QED
        BY <2>1, <4>1 DEF Topics
    <3>2. <<t, v>> \in Whole(sent, k)
      <4>1. i \in 1..k /\ i \in i..i /\ i \in Int /\ k \in Int /\ i + 1 \in Int
        BY <1>2, <2>3
      <4>2. <<t, v>> \in Hers(sent, i, i) /\ <<t, v>> \in Hers(sent, 1, k)
        BY <2>1, <4>1, HersIs
      <4>3. t \notin Topics(Hers(sent, i + 1, k))
        <5> SUFFICES ASSUME NEW p \in Hers(sent, i + 1, k), p[1] = t PROVE FALSE
          BY DEF Topics
        <5>1. PICK j \in (i + 1)..k : p \in Mine(sent, j)
          BY <4>1, HersIs
        <5>2. j \in DOMAIN sent /\ j > i
          BY <1>2, <4>1
        <5> QED
          BY <2>1, <5>1, <5>2 DEF Topics
      <4> QED
        BY <2>2, <4>1, <4>2, <4>3 DEF Whole
    <3>3. <<t, v>> \in arrived
      BY <1>4, <2>2, <3>1, <3>2 DEF Then
    <3>4. \A p \in arrived : p[1] = t => p = <<t, v>>
      <4> SUFFICES ASSUME NEW p \in arrived, p[1] = t PROVE p = <<t, v>>
        OBVIOUS
      <4>1. p \in Whole(sent, k)
        BY <1>4, <3>1 DEF Then, Topics
      <4>2. PICK l \in 1..k : l \in DOMAIN sent /\ p \in Mine(sent, l) /\ \A j \in (l + 1)..k : t \notin Topics(Mine(sent, j))
        BY <1>8, <4>1
      <4>3. ~(l < i)
        <5> SUFFICES ASSUME l < i PROVE FALSE
          OBVIOUS
        <5>1. i \in (l + 1)..k
          BY <1>2, <2>3
        <5> QED
          BY <2>1, <2>2, <4>2, <5>1 DEF Topics
      <4>4. ~(l > i)
        BY <2>1, <4>2 DEF Topics
      <4>5. l = i
        BY <1>2, <4>3, <4>4
      <4>6. p \in sent[i].pubs /\ <<t, v>> \in sent[i].pubs
        BY <2>1, <4>2, <4>5, MineIs
      <4> QED
        BY <2>2, <4>6 DEF Functional
    <3>5. retained'[t] = v
      BY <1>6, <3>3, <3>4, Written
    <3> QED
      BY <3>5
  <2>4. CASE <<t, v>> \in part
    <3>1. v = None
      BY <1>7, <2>2, <2>4
    <3>2. t \in Topics(part) /\ <<t, v>> \in arrived
      BY <1>4, <2>2, <2>4 DEF Then, Topics
    <3>3. \A p \in arrived : p[1] = t => p = <<t, v>>
      <4> SUFFICES ASSUME NEW p \in arrived, p[1] = t PROVE p = <<t, v>>
        OBVIOUS
      <4>1. p \in part
        BY <1>4, <3>2 DEF Then
      <4>2. p[2] = v
        BY <1>7, <3>1, <4>1
      <4>3. p = <<p[1], p[2]>>
        BY PubsOf
      <4> QED
        BY <4>2, <4>3
    <3>4. <<t, v>> \in arrived
      BY <3>2
    <3>5. retained'[t] = v
      BY <1>6, <3>3, <3>4, Written
    <3> QED
      BY <3>5
  <2>5. CASE i > k /\ <<t, v>> \notin part
    <3>1. i \in (k + 1)..Len(sent) /\ k + 1 \in Int /\ Len(sent) \in Int
      BY <1>2, <2>5
    <3>2. <<t, v>> \in missed
      BY <1>5, <2>1, <2>5, <3>1, HersIs
    <3>3. CASE v = None
      <4>1. t \in Topics({p \in missed : p[2] = None})
        BY <2>2, <3>2, <3>3 DEF Topics
      <4>2. t[1] \in unsettled'
        BY <1>6, <4>1
      <4> QED
        BY <3>3, <4>2
    <3>4. CASE v # None
      <4>1. t \in Topics({p \in missed : p[2] # None})
        BY <2>2, <3>2, <3>4 DEF Topics
      <4>2. t \in lost'
        BY <1>6, <4>1
      <4> QED
        BY <3>4, <4>2
    <3> QED
      BY <3>3, <3>4
  <2>6. i <= k \/ i > k
    BY <1>2
  <2> QED
    BY <2>3, <2>4, <2>5, <2>6
<1>10. ASSUME Untouched(sent, t)
       PROVE  retained'[t] = retained[t] /\ (t \in lost => t \in lost')
  <2>1. t \notin Topics(arrived)
    <3> SUFFICES ASSUME NEW p \in arrived, p[1] = t PROVE FALSE
      BY DEF Topics
    <3>1. \E i \in DOMAIN sent : p \in Mine(sent, i)
      BY <1>4, <1>7, <1>8 DEF Then
    <3> QED
      BY <1>10, <3>1 DEF Untouched, Topics
  <2>2. retained'[t] = retained[t]
    BY <1>6, <2>1, Written
  <2> QED
    BY <1>6, <2>1, <2>2
<1> QED
  BY <1>9, <1>10

-----------------------------------------------------------------------------
(* A step in which she publishes *)

\* What a batch has to say: what it shows is live, what is cleaned and no longer
\* live is cleared, and what is newly owed is in it.
Proper(batch, cleaned) ==
  /\ Functional(batch)
  /\ \A p \in batch : p[2] # None /\ p[1][3] \in Keys => Live(p[1])'
  /\ \A t \in Topic : t[3] \in Keys /\ t[1] \notin cleaned /\ Live(t) => Live(t)'
  /\ \A t \in known : t[3] \in Keys /\ t[1] \in cleaned /\ t \notin Topics(batch) => Live(t)'
  /\ \A p \in Publication : Owed(p)' => p \in batch \/ (Owed(p) /\ p[1] \notin Topics(batch))

SaysProperly ==
  \E batch \in SUBSET Publication, cleaned \in SUBSET Template : Send(batch, cleaned) /\ Proper(batch, cleaned)

LEMMA SilentSends == MqttTypes /\ Silent => Send({}, {})
<1> SUFFICES ASSUME MqttTypes, Silent PROVE Send({}, {})
  OBVIOUS
<1>1. Topics({p \in {} : p[2] # None}) = {}
  BY DEF Topics
<1>2. lost' = lost /\ unsettled' = unsettled /\ out' = out /\ UNCHANGED <<connected, known, retained>>
  BY DEF Silent
<1>3. lost' = IF connected THEN lost ELSE lost \cup Topics({p \in {} : p[2] # None})
  BY <1>1, <1>2
<1>4. unsettled' = IF connected /\ out = <<>> THEN unsettled \ {} ELSE unsettled \cup {}
  BY <1>2
<1> QED
  BY <1>2, <1>3, <1>4 DEF Send

OwedTyped == \A p : Owed(p) => p \in Topic \X Payload /\ p = <<p[1], p[2]>> /\ p[2] # None /\ p \in Publication

LEMMA OwedTypes == TypeOK => OwedTyped
<1> SUFFICES ASSUME TypeOK, NEW p, Owed(p)
             PROVE  p \in Topic \X Payload
  BY NonePayload DEF OwedTyped, Publication
<1>1. NodeTypes /\ BridgeTypes /\ MqttTypes
  BY TypeParts
<1>2. CASE p = <<ConnectedTopic(settings.template), "2">>
  <2>1. ConnectedTopic(settings.template) \in Topic
    BY <1>1, ConnectedTypes DEF BridgeTypes, Settings
  <2> QED
    BY <1>2, <2>1 DEF Payload
<1>3. ASSUME NEW n \in ListPaired, p = OnlinePub(settings, devices, n, n \in online) \/ p = AttrPub(settings, devices, n, val[n])
      PROVE  p \in Topic \X Payload
  <2>1. n \in Node /\ val[n] \in Value
    BY <1>1 DEF ListPaired, NodeTypes
  <2>2. settings \in Settings /\ Names(devices)
    BY <1>1 DEF BridgeTypes
  <2> QED
    BY <1>3, <2>1, <2>2, PubTypes
<1> QED
  BY <1>2, <1>3 DEF Owed, OwedBy

LEMMA EmptySays ==
  ASSUME NEW t
  PROVE  Untouched(<<>>, t) /\ \A v : ~Says(<<>>, t, v)
<1>1. DOMAIN <<>> = {}
  OBVIOUS
<1> QED
  BY <1>1 DEF Untouched, Says

LEMMA SendEnds ==
  ASSUME MqttTypes, NEW batch \in SUBSET Publication, NEW cleaned, Send(batch, cleaned), NEW t \in Topic
  PROVE  /\ connected => \A v : <<t, v>> \in batch => Ends(t, v)'
         /\ t \notin Topics(batch) => \A v : Ends(t, v) => Ends(t, v)'
         /\ t \notin Topics(batch) /\ Missing(t) => Missing(t)'
         /\ ~connected => (\A v : Ends(t, v) => Ends(t, v)') /\ (t \in lost' => Missing(t)')
<1>1. out \in Seq(Batch) /\ (out # <<>> => connected)
  BY DEF MqttTypes
<1>2. retained' = retained
  BY DEF Send
<1>3. CASE connected /\ batch # {}
  <2>1. out' = Put(out, batch) /\ lost' = lost
    BY <1>3 DEF Send, Put
  <2>2. \A v : <<t, v>> \in batch => Says(out', t, v)
    BY <1>1, <2>1, AppendedSays
  <2>3. t \notin Topics(batch) => (Untouched(out, t) => Untouched(out', t)) /\ \A v : Says(out, t, v) => Says(out', t, v)
    BY <1>1, <2>1, AppendedSays
  <2> QED
    BY <1>2, <1>3, <2>1, <2>2, <2>3 DEF Ends, Missing
<1>4. CASE ~(connected /\ batch # {})
  <2>1. out' = out /\ lost \subseteq lost'
    BY <1>4 DEF Send
  <2>2. \A v : Ends(t, v) => Ends(t, v)'
    BY <1>2, <2>1 DEF Ends
  <2>3. Missing(t) => Missing(t)'
    BY <2>1 DEF Missing
  <2>4. connected => batch = {}
    BY <1>4
  <2>5. ~connected => (t \in lost' => Missing(t)')
    <3>1. ~connected => out' = <<>>
      BY <1>1, <2>1
    <3> QED
      BY <3>1, EmptySays DEF Missing
  <2> QED
    BY <2>2, <2>3, <2>4, <2>5
<1> QED
  BY <1>3, <1>4

LEMMA SendConnection ==
  ASSUME MqttTypes, Connection, NEW batch \in SUBSET Publication, Functional(batch), NEW cleaned, Send(batch, cleaned)
  PROVE  Connection'
<1>1. out \in Seq(Batch)
  BY DEF MqttTypes
<1>2. UNCHANGED <<connected, known, retained>>
  BY DEF Send
<1>3. CASE out' = out
  BY <1>2, <1>3 DEF Connection, OneEach, Replay, Known
<1>4. CASE out' = Put(out, batch)
  <2>1. /\ DOMAIN Put(out, batch) = 1..Len(out) + 1 /\ DOMAIN out = 1..Len(out) /\ Len(out) \in Nat
        /\ \A i \in DOMAIN out : Put(out, batch)[i] = out[i] /\ Mine(Put(out, batch), i) = Mine(out, i)
        /\ Put(out, batch)[Len(out) + 1] = [by |-> "she", pubs |-> batch] /\ Mine(Put(out, batch), Len(out) + 1) = batch
    BY <1>1, Appended
  <2>2. PICK b \in Batch : b = [by |-> "she", pubs |-> batch] /\ b.by = "she" /\ b.pubs = batch
    <3>1. [by |-> "she", pubs |-> batch] \in Batch
      BY BatchMade
    <3>2. PICK b \in Batch : b = [by |-> "she", pubs |-> batch]
      BY <3>1
    <3>3. b.by = "she" /\ b.pubs = batch
      BY <3>2
    <3> QED
      BY <3>2, <3>3
  <2>3. \A i \in DOMAIN out' : (i \in DOMAIN out /\ out'[i] = out[i]) \/ out'[i] = b
    BY <1>4, <2>1, <2>2
  <2>4. OneEach'
    BY <2>2, <2>3 DEF Connection, OneEach
  <2>5. Replay'
    BY <2>2, <2>3 DEF Connection, Replay
  <2>6. Known'
    <3>1. \A i \in DOMAIN out : i \in DOMAIN out' /\ out'[i] = out[i]
      BY <1>4, <2>1
    <3> QED
      BY <1>2, <3>1 DEF Connection, Known
  <2> QED
    BY <2>4, <2>5, <2>6 DEF Connection
<1> QED
  BY <1>3, <1>4 DEF Send, Put

LEMMA SendCleared ==
  ASSUME TypeOK, Connection, Cleared, NEW batch \in SUBSET Publication, NEW cleaned \in SUBSET Template,
         Send(batch, cleaned), Proper(batch, cleaned)
  PROVE  Cleared'
<1>1. MqttTypes
  BY TypeParts
<1> SUFFICES ASSUME NEW t \in Topic, t[3] \in Keys, t[1] \notin unsettled', ~Live(t)'
             PROVE  Ends(t, None)'
  BY DEF Cleared
<1>2. ASSUME NEW v \in Payload \cup {None}, <<t, v>> \in batch
      PROVE  v = None
  <2>1. <<t, v>>[1] = t /\ <<t, v>>[2] = v
    OBVIOUS
  <2> QED
    BY <1>2, <2>1 DEF Proper
<1>3. t \in Topics(batch) => <<t, None>> \in batch
  BY <1>2, InTopics
<1>4. CASE connected /\ t \in Topics(batch)
  BY <1>1, <1>3, <1>4, SendEnds
<1>5. CASE t[1] \notin cleaned
  <2>1. t[1] \notin unsettled
    BY <1>5 DEF Send
  <2>2. ~Live(t)
    BY <1>5 DEF Proper
  <2>3. Ends(t, None)
    BY <2>1, <2>2 DEF Cleared
  <2>4. CASE ~connected
    BY <1>1, <2>3, <2>4, SendEnds
  <2>5. CASE t \notin Topics(batch)
    BY <1>1, <2>3, <2>5, SendEnds
  <2> QED
    BY <1>4, <2>4, <2>5
<1>6. CASE t[1] \in cleaned /\ t \notin Topics(batch)
  <2>1. connected /\ out = <<>>
    BY <1>6 DEF Send
  <2>2. t \notin known
    BY <1>6 DEF Proper
  <2>3. retained[t] = None
    <3>1. DOMAIN out = {}
      BY <2>1
    <3> QED
      BY <2>1, <2>2, <3>1 DEF Connection, Known
  <2>4. Ends(t, None)
    BY <2>1, <2>3, EmptySays DEF Ends
  <2> QED
    BY <1>1, <1>6, <2>4, SendEnds
<1>7. CASE t[1] \in cleaned /\ ~connected
  BY <1>7 DEF Send
<1> QED
  BY <1>4, <1>5, <1>6, <1>7

LEMMA SendPaid ==
  ASSUME TypeOK, TypeOK', Paid, NEW batch \in SUBSET Publication, NEW cleaned,
         Send(batch, cleaned), Proper(batch, cleaned)
  PROVE  Paid'
<1>1. MqttTypes /\ MqttTypes'
  BY TypeParts, PTL
<1>2. OwedTyped'
  BY OwedTypes, PTL
<1> SUFFICES ASSUME NEW p \in Publication, Owed(p)'
             PROVE  Ends(p[1], p[2])' \/ Missing(p[1])'
  BY DEF Paid
<1>3. p = <<p[1], p[2]>> /\ p[1] \in Topic /\ p[2] # None
  BY <1>2, PubsOf DEF OwedTyped
<1>4. CASE p \in batch /\ connected
  <2>1. <<p[1], p[2]>> \in batch
    BY <1>3, <1>4
  <2> QED
    BY <1>1, <1>3, <1>4, <2>1, SendEnds
<1>5. CASE p \in batch /\ ~connected
  <2>1. p[1] \in Topics({q \in batch : q[2] # None})
    BY <1>3, <1>5 DEF Topics
  <2>2. p[1] \in lost'
    BY <1>5, <2>1 DEF Send
  <2> QED
    BY <1>1, <1>3, <1>5, <2>2, SendEnds
<1>6. CASE Owed(p) /\ p[1] \notin Topics(batch)
  <2>1. Ends(p[1], p[2]) \/ Missing(p[1])
    BY <1>6 DEF Paid
  <2> QED
    BY <1>1, <1>3, <1>6, <2>1, SendEnds
<1> QED
  BY <1>4, <1>5, <1>6 DEF Proper

LEMMA SaysStep ==
  ASSUME TypeOK, TypeOK', Inv, SaysProperly, Named'
  PROVE  Inv'
<1>1. PICK batch \in SUBSET Publication, cleaned \in SUBSET Template : Send(batch, cleaned) /\ Proper(batch, cleaned)
  BY DEF SaysProperly
<1>2. MqttTypes
  BY TypeParts
<1>3. Functional(batch)
  BY <1>1 DEF Proper
<1> QED
  BY <1>1, <1>2, <1>3, SendConnection, SendCleared, SendPaid DEF Inv

-----------------------------------------------------------------------------
(* The steps of the broker and the connection *)

\* Nothing changes of what is live and what is owed.
LEMMA SameOwed ==
  ASSUME UNCHANGED <<ctrl, paired, online, watched, val, settings, devices, started>>
  PROVE  (\A t : Live(t)' <=> Live(t)) /\ (\A p : Owed(p)' <=> Owed(p)) /\ (Named => Named')
<1>1. ListPaired' = ListPaired
  BY DEF ListPaired
<1>2. \A t : Live(t)' <=> Live(t)
  BY <1>1 DEF Live
<1>3. \A p : Owed(p)' <=> Owed(p)
  BY <1>1 DEF Owed
<1>4. Named => Named'
  BY DEF Named
<1> QED
  BY <1>2, <1>3, <1>4

LEMMA EndsKept ==
  ASSUME TypeOK, Cleared, Paid, unsettled \subseteq unsettled', \A t : Live(t) => Live(t)', \A p : Owed(p)' => Owed(p),
         \A t \in Topic : (\A v : Ends(t, v) => Ends(t, v)') /\ (Missing(t) => Missing(t)')
  PROVE  Cleared' /\ Paid'
<1>1. Cleared'
  BY DEF Cleared
<1>2. Paid'
  <2>1. \A p \in Publication : p[1] \in Topic
    BY PubsOf
  <2> QED
    BY <2>1 DEF Paid
<1> QED
  BY <1>1, <1>2

LEMMA DeliverEnds ==
  ASSUME MqttTypes, OneEach, Deliver, NEW t \in Topic
  PROVE  (\A v : Ends(t, v) => Ends(t, v)') /\ (Missing(t) => Missing(t)')
<1>1. out \in Seq(Batch) /\ out # <<>> /\ out' = Rest(out)
  BY DEF Deliver, MqttTypes, Rest
<1>2. /\ DOMAIN out = 1..Len(out) /\ Len(out) \in Nat \ {0} /\ DOMAIN Rest(out) = 1..Len(out) - 1
      /\ out[1] = Head(out)
      /\ \A i \in DOMAIN Rest(out) : i + 1 \in DOMAIN out /\ Rest(out)[i] = out[i + 1] /\ Mine(Rest(out), i) = Mine(out, i + 1)
      /\ \A i \in DOMAIN out : i # 1 => i - 1 \in DOMAIN Rest(out) /\ Mine(Rest(out), i - 1) = Mine(out, i)
  BY <1>1, Left
<1>3. 1 \in DOMAIN out
  BY <1>2
<1>4. PICK pubs \in SUBSET Publication : pubs = Head(out).pubs
  BY <1>1, <1>2, <1>3, MineIs
<1>5. Functional(pubs)
  BY <1>2, <1>3, <1>4 DEF OneEach
<1>6. CASE Head(out).by = "she"
  <2>1. retained' = Write(retained, pubs) /\ lost' = lost \ Topics(pubs)
    BY <1>4, <1>6 DEF Deliver
  <2>2. Mine(out, 1) = pubs
    BY <1>2, <1>4, <1>6 DEF Mine
  <2>3. ASSUME Untouched(out, t)
        PROVE  retained'[t] = retained[t] /\ Untouched(out', t) /\ (t \in lost => t \in lost')
    <3>1. Untouched(out', t) /\ t \notin Topics(pubs)
      BY <1>1, <2>2, <2>3, LeftSays
    <3>2. retained'[t] = retained[t]
      BY <2>1, <3>1, Written
    <3> QED
      BY <2>1, <3>1, <3>2
  <2>4. ASSUME NEW v, Says(out, t, v)
        PROVE  Ends(t, v)'
    <3>1. Says(out', t, v) \/ (<<t, v>> \in pubs /\ Untouched(out', t))
      BY <1>1, <2>2, <2>4, LeftSays
    <3>2. ASSUME <<t, v>> \in pubs
          PROVE  retained'[t] = v
      <4>1. \A p \in pubs : p[1] = t => p = <<t, v>>
        <5>1. <<t, v>>[1] = t
          OBVIOUS
        <5> QED
          BY <1>5, <3>2, <5>1 DEF Functional
      <4> QED
        BY <2>1, <3>2, <4>1, Written
    <3> QED
      BY <3>1, <3>2 DEF Ends
  <2> QED
    BY <2>3, <2>4 DEF Ends, Missing
<1>7. CASE Head(out).by # "she"
  <2>1. retained' = retained /\ lost' = lost
    BY <1>7 DEF Deliver
  <2>2. Mine(out, 1) = {}
    BY <1>2, <1>7 DEF Mine
  <2>3. Untouched(out, t) => Untouched(out', t)
    BY <1>1, LeftSays
  <2>4. ASSUME NEW v, Says(out, t, v)
        PROVE  Says(out', t, v)
    BY <1>1, <2>2, <2>4, LeftSays
  <2> QED
    BY <2>1, <2>3, <2>4 DEF Ends, Missing
<1> QED
  BY <1>6, <1>7

LEMMA DeliverConnection ==
  ASSUME MqttTypes, Connection, Deliver
  PROVE  Connection'
<1>1. out \in Seq(Batch) /\ out # <<>> /\ out' = Rest(out) /\ connected' = connected
  BY DEF Deliver, MqttTypes, Rest
<1>2. /\ DOMAIN out = 1..Len(out) /\ Len(out) \in Nat \ {0} /\ DOMAIN Rest(out) = 1..Len(out) - 1
      /\ out[1] = Head(out)
      /\ \A i \in DOMAIN Rest(out) : i + 1 \in DOMAIN out /\ Rest(out)[i] = out[i + 1] /\ Mine(Rest(out), i) = Mine(out, i + 1)
      /\ \A i \in DOMAIN out : i # 1 => i - 1 \in DOMAIN Rest(out) /\ Mine(Rest(out), i - 1) = Mine(out, i)
  BY <1>1, Left
<1>3. 1 \in DOMAIN out
  BY <1>2
<1>4. PICK pubs \in SUBSET Publication : pubs = Head(out).pubs
  BY <1>1, <1>2, <1>3, MineIs
<1>5. \A i \in DOMAIN out' : i + 1 \in DOMAIN out /\ out'[i] = out[i + 1]
  BY <1>1, <1>2
<1>6. OneEach'
  BY <1>5 DEF Connection, OneEach
<1>7. Replay'
  BY <1>5 DEF Connection, Replay
<1>8. Known'
  <2> SUFFICES ASSUME connected, NEW t \in Topic, retained'[t] # None
               PROVE  t \in known' \/ \E i \in DOMAIN out' : t \in Topics(out'[i].pubs)
    BY <1>1 DEF Known
  <2>1. known' = (known \cup Topics(pubs)) \ Topics({p \in pubs : p[2] = None})
    BY <1>4 DEF Deliver
  <2>2. CASE t \in Topics(pubs)
    <3>1. PICK v \in Payload \cup {None} : <<t, v>> \in pubs
      BY <2>2, InTopics
    <3>2. <<t, v>>[1] = t /\ <<t, v>>[2] = v
      OBVIOUS
    <3>3. Functional(pubs)
      BY <1>2, <1>3, <1>4 DEF Connection, OneEach
    <3>4. \A p \in pubs : p[1] = t => p = <<t, v>>
      BY <3>1, <3>2, <3>3 DEF Functional
    <3>5. v # None
      <4>1. CASE Head(out).by = "she"
        <5>1. retained' = Write(retained, pubs)
          BY <1>4, <4>1 DEF Deliver
        <5>2. retained'[t] = v
          BY <3>1, <3>4, <5>1, Written
        <5> QED
          BY <5>2
      <4>2. CASE Head(out).by # "she"
        <5>1. Head(out).by = "broker"
          BY <1>1, <1>2, <1>3, <4>2, MineIs
        <5>2. \A p \in pubs : p[2] # None
          BY <1>2, <1>3, <1>4, <5>1 DEF Connection, Replay
        <5> QED
          BY <3>1, <3>2, <5>2
      <4> QED
        BY <4>1, <4>2
    <3>6. t \notin Topics({p \in pubs : p[2] = None})
      <4> SUFFICES ASSUME NEW p \in pubs, p[2] = None, p[1] = t PROVE FALSE
        BY DEF Topics
      <4> QED
        BY <3>2, <3>4, <3>5
    <3> QED
      BY <2>1, <2>2, <3>6
  <2>3. CASE t \notin Topics(pubs)
    <3>1. retained[t] # None
      <4>1. retained'[t] = retained[t]
        BY <1>4, <2>3, Written DEF Deliver
      <4> QED
        BY <4>1
    <3>2. CASE t \in known
      <4>1. Topics({p \in pubs : p[2] = None}) \subseteq Topics(pubs)
        BY DEF Topics
      <4> QED
        BY <2>1, <2>3, <3>2, <4>1
    <3>3. CASE t \notin known
      <4>1. PICK i \in DOMAIN out : t \in Topics(out[i].pubs)
        BY <3>1, <3>3 DEF Connection, Known
      <4>2. i # 1
        BY <1>2, <1>4, <2>3, <4>1
      <4>3. i - 1 \in DOMAIN out' /\ (i - 1) + 1 = i
        BY <1>1, <1>2, <4>2
      <4>4. out'[i - 1] = out[i]
        BY <1>5, <4>3
      <4> QED
        BY <4>1, <4>3, <4>4
    <3> QED
      BY <3>2, <3>3
  <2> QED
    BY <2>2, <2>3
<1> QED
  BY <1>6, <1>7, <1>8 DEF Connection

LEMMA DeliverStep ==
  ASSUME TypeOK, Inv, Deliver
  PROVE  Inv'
<1>1. UNCHANGED <<ctrl, paired, online, watched, val, settings, devices, started>> /\ unsettled' = unsettled
  BY DEF Deliver, nodeVars, setVars
<1>2. MqttTypes
  BY TypeParts
<1>3. Connection'
  BY <1>2, DeliverConnection DEF Inv
<1>4. \A t \in Topic : (\A v : Ends(t, v) => Ends(t, v)') /\ (Missing(t) => Missing(t)')
  BY <1>2, DeliverEnds DEF Inv, Connection
<1>5. Cleared' /\ Paid'
  BY <1>1, <1>4, SameOwed, EndsKept DEF Inv
<1>6. Named'
  BY <1>1, SameOwed DEF Inv
<1> QED
  BY <1>3, <1>5, <1>6 DEF Inv

LEMMA ConnectStep ==
  ASSUME TypeOK, Inv, Connect
  PROVE  Inv'
<1>1. UNCHANGED <<ctrl, paired, online, watched, val, settings, devices, started>> /\ unsettled' = unsettled
      /\ retained' = retained /\ lost' = lost
  BY DEF Connect, nodeVars, setVars
<1>2. MqttTypes /\ out = <<>>
  BY TypeParts DEF MqttTypes, Connect
<1>3. Replayed \in SUBSET Publication
  BY <1>2 DEF Replayed, Publication, MqttTypes
<1>4. PICK b \in Batch : b = [by |-> "broker", pubs |-> Replayed]
  BY <1>3, BatchMade
<1>5. b.by = "broker" /\ b.pubs = Replayed
  BY <1>4
<1>6. out' = IF Replayed = {} THEN <<>> ELSE <<b>>
  BY <1>4 DEF Connect, Replayed
<1>7. \A i \in DOMAIN out' : out'[i] = b
  BY <1>6
<1>8. \A t \in Topic : retained[t] # None => <<t, retained[t]>> \in Replayed
  BY DEF Replayed
<1>9. \A p \in Replayed : p[2] # None /\ p = <<p[1], retained[p[1]]>>
  BY DEF Replayed
<1>10. Connection'
  <2>1. OneEach'
    <3>1. Functional(Replayed)
      BY <1>9 DEF Functional
    <3> QED
      BY <1>5, <1>7, <3>1 DEF OneEach
  <2>2. Replay'
    BY <1>5, <1>7, <1>9 DEF Replay
  <2>3. Known'
    <3> SUFFICES ASSUME NEW t \in Topic, retained[t] # None
                 PROVE  \E i \in DOMAIN out' : t \in Topics(out'[i].pubs)
      BY <1>1 DEF Known
    <3>1. out' = <<b>>
      BY <1>6, <1>8
    <3>2. 1 \in DOMAIN out' /\ out'[1] = b
      BY <3>1
    <3>3. <<t, retained[t]>> \in Replayed /\ <<t, retained[t]>>[1] = t
      BY <1>8
    <3>4. t \in Topics(b.pubs)
      BY <1>5, <3>3 DEF Topics
    <3> QED
      BY <3>2, <3>4
  <2> QED
    BY <2>1, <2>2, <2>3 DEF Connection
<1>11. ASSUME NEW t \in Topic
       PROVE  (\A v : Ends(t, v) => Ends(t, v)') /\ (Missing(t) => Missing(t)')
  <2>1. Untouched(out', t)
    <3>1. \A i \in DOMAIN out' : Mine(out', i) = {}
      BY <1>5, <1>7 DEF Mine
    <3> QED
      BY <3>1 DEF Untouched, Topics
  <2>2. \A v : Ends(t, v) => retained[t] = v
    BY <1>2, EmptySays DEF Ends
  <2> QED
    BY <1>1, <2>1, <2>2 DEF Ends, Missing
<1>12. Cleared' /\ Paid'
  BY <1>1, <1>11, SameOwed, EndsKept DEF Inv
<1>13. Named'
  BY <1>1, SameOwed DEF Inv
<1> QED
  BY <1>10, <1>12, <1>13 DEF Inv

\* After a break nothing is under way: what arrived has arrived.
LEMMA BrokenEnds ==
  ASSUME MqttTypes, NEW sent \in Seq(Batch), \A i \in DOMAIN sent : Functional(sent[i].pubs), Break(sent),
         NEW t \in Topic, NEW v, Says(sent, t, v) \/ (retained[t] = v /\ Untouched(sent, t))
  PROVE  \/ Ends(t, v)'
         \/ v = None /\ t[1] \in unsettled'
         \/ v # None /\ Missing(t)'
<1>1. out' = <<>>
  BY BreakTypes
<1>2. Untouched(out', t)
  BY <1>1, EmptySays
<1>3. \/ retained'[t] = v
      \/ v = None /\ t[1] \in unsettled'
      \/ v # None /\ t \in lost'
  BY BreakSays
<1> QED
  BY <1>2, <1>3 DEF Ends, Missing

LEMMA BrokenConnection ==
  ASSUME MqttTypes, NEW sent \in Seq(Batch), Break(sent)
  PROVE  Connection' /\ unsettled \subseteq unsettled'
<1>1. out' = <<>> /\ connected' = FALSE
  BY BreakTypes
<1>2. DOMAIN out' = {}
  BY <1>1
<1>3. Connection'
  BY <1>1, <1>2 DEF Connection, OneEach, Replay, Known
<1>4. unsettled \subseteq unsettled'
  BY DEF Break
<1> QED
  BY <1>3, <1>4

LEMMA CloseStep ==
  ASSUME TypeOK, TypeOK', Inv, Close
  PROVE  Inv'
<1>1. UNCHANGED <<ctrl, paired, online, watched, val, settings, devices, started>>
  BY DEF Close, nodeVars, setVars
<1>2. MqttTypes /\ out \in Seq(Batch) /\ Break(out)
  BY TypeParts DEF Close, MqttTypes
<1>3. \A i \in DOMAIN out : Functional(out[i].pubs)
  BY DEF Inv, Connection, OneEach
<1>4. Connection' /\ unsettled \subseteq unsettled'
  BY <1>2, BrokenConnection
<1>5. Cleared'
  <2> SUFFICES ASSUME NEW t \in Topic, t[3] \in Keys, t[1] \notin unsettled', ~Live(t)'
               PROVE  Ends(t, None)'
    BY DEF Cleared
  <2>1. t[1] \notin unsettled /\ ~Live(t)
    BY <1>1, <1>4, SameOwed
  <2>2. Ends(t, None)
    BY <2>1 DEF Inv, Cleared
  <2> QED
    BY <1>2, <1>3, <2>2, BrokenEnds DEF Ends
<1>6. Paid'
  <2> SUFFICES ASSUME NEW p \in Publication, Owed(p)'
               PROVE  Ends(p[1], p[2])' \/ Missing(p[1])'
    BY DEF Paid
  <2>1. Owed(p)
    BY <1>1, SameOwed
  <2>2. p[1] \in Topic /\ p[2] # None
    BY <2>1, OwedTypes, PubsOf DEF OwedTyped
  <2>3. CASE Ends(p[1], p[2])
    <3>1. Says(out, p[1], p[2]) \/ (retained[p[1]] = p[2] /\ Untouched(out, p[1]))
      BY <2>3 DEF Ends
    <3> QED
      BY <1>2, <1>3, <2>2, <3>1, BrokenEnds
  <2>4. CASE Missing(p[1])
    <3>1. p[1] \in lost'
      BY <1>2, <1>3, <2>2, <2>4, BreakSays DEF Missing
    <3>2. Untouched(out', p[1])
      BY <1>2, BreakTypes, EmptySays
    <3> QED
      BY <3>1, <3>2 DEF Missing
  <2> QED
    BY <2>1, <2>3, <2>4 DEF Inv, Paid
<1>7. Named'
  BY <1>1, SameOwed DEF Inv
<1> QED
  BY <1>4, <1>5, <1>6, <1>7 DEF Inv

LEMMA RestartStep ==
  ASSUME TypeOK, Inv, Restart
  PROVE  Inv'
<1>1. settings' = settings /\ started' = FALSE
  BY DEF Restart, setVars
<1>2. MqttTypes /\ out \in Seq(Batch) /\ settings \in Settings
  BY TypeParts DEF MqttTypes, BridgeTypes
<1>3. PICK bye \in SUBSET Publication : bye = {<<ConnectedTopic(settings.template), "0">>}
  BY <1>2, ConnectedPub DEF Settings
<1>4. PICK sent \in {out, Put(out, bye)} : Break(sent)
  <2>1. PICK b \in BOOLEAN :
          Break(IF b /\ settings.enabled /\ connected
                  THEN Append(out, [by |-> "she", pubs |-> {<<ConnectedTopic(settings.template), "0">>}]) ELSE out)
    BY DEF Restart
  <2>2. Put(out, bye) = Append(out, [by |-> "she", pubs |-> {<<ConnectedTopic(settings.template), "0">>}])
    BY <1>3 DEF Put
  <2> QED
    BY <2>1, <2>2
<1>5. \A t : t \in Topics(bye) => t[3] \notin Keys
  <2>1. ConnectedTopic(settings.template)[3] = "connected"
    BY DEF ConnectedTopic
  <2> QED
    BY <1>3, <2>1 DEF Topics, Keys
<1>6. /\ DOMAIN Put(out, bye) = 1..Len(out) + 1 /\ DOMAIN out = 1..Len(out) /\ Len(out) \in Nat
      /\ \A i \in DOMAIN out : Put(out, bye)[i] = out[i] /\ Mine(Put(out, bye), i) = Mine(out, i)
      /\ Put(out, bye)[Len(out) + 1] = [by |-> "she", pubs |-> bye] /\ Mine(Put(out, bye), Len(out) + 1) = bye
  BY <1>2, Appended
<1>7. PICK b \in Batch : b = [by |-> "she", pubs |-> bye]
  BY BatchMade
<1>8. b.pubs = bye
  BY <1>7
<1>9. sent \in Seq(Batch)
  <2>1. Append(out, b) \in Seq(Batch)
    BY <1>2
  <2> QED
    BY <1>2, <1>7, <2>1 DEF Put
<1>10. \A i \in DOMAIN sent : Functional(sent[i].pubs)
  <2>1. Functional(bye)
    BY <1>3 DEF Functional
  <2>2. \A i \in DOMAIN out : Functional(out[i].pubs)
    BY DEF Inv, Connection, OneEach
  <2>3. \A i \in DOMAIN Put(out, bye) : (i \in DOMAIN out /\ Put(out, bye)[i] = out[i]) \/ Put(out, bye)[i] = b
    BY <1>6, <1>7
  <2> QED
    BY <1>8, <2>1, <2>2, <2>3
<1>11. Connection' /\ unsettled \subseteq unsettled'
  BY <1>2, <1>4, <1>9, BrokenConnection
<1>12. Cleared'
  <2> SUFFICES ASSUME NEW t \in Topic, t[3] \in Keys, t[1] \notin unsettled', ~Live(t)'
               PROVE  Ends(t, None)'
    BY DEF Cleared
  <2>1. t[1] \notin unsettled /\ ~Live(t)
    BY <1>1, <1>11 DEF Live
  <2>2. Ends(t, None)
    BY <2>1 DEF Inv, Cleared
  <2>3. t \notin Topics(bye)
    BY <1>5
  <2>4. Says(sent, t, None) \/ (retained[t] = None /\ Untouched(sent, t))
    BY <1>2, <2>2, <2>3, AppendedSays DEF Ends
  <2> QED
    BY <1>2, <1>4, <1>9, <1>10, <2>4, BrokenEnds
<1>13. Paid' /\ Named'
  BY <1>1 DEF Paid, Owed, Named
<1> QED
  BY <1>11, <1>12, <1>13 DEF Inv

-----------------------------------------------------------------------------
(* What the batches say *)

LEMMA ThenSays ==
  ASSUME NEW a, NEW b
  PROVE  /\ Topics(Then(a, b)) = Topics(a) \cup Topics(b)
         /\ Functional(a) /\ Functional(b) => Functional(Then(a, b))
         /\ b \subseteq Then(a, b) /\ Then(a, b) \subseteq a \cup b
         /\ \A p \in a : p[1] \notin Topics(b) => p \in Then(a, b)
<1>1. b \subseteq Then(a, b) /\ Then(a, b) \subseteq a \cup b
  BY DEF Then
<1>2. \A p \in a : p[1] \notin Topics(b) => p \in Then(a, b)
  BY DEF Then
<1>3. \A p \in Then(a, b) : p \in b \/ (p \in a /\ p[1] \notin Topics(b))
  BY DEF Then
<1>4. Topics(Then(a, b)) = Topics(a) \cup Topics(b)
  BY <1>1, <1>2 DEF Topics
<1>5. ASSUME Functional(a), Functional(b), NEW p \in Then(a, b), NEW q \in Then(a, b), p[1] = q[1]
      PROVE  p = q
  <2>1. CASE p \in b /\ q \in b
    BY <1>5, <2>1 DEF Functional
  <2>2. CASE p \in a /\ q \in a
    BY <1>5, <2>2 DEF Functional
  <2>3. CASE (p \in b /\ q \notin b) \/ (q \in b /\ p \notin b)
    BY <1>3, <1>5, <2>3 DEF Topics
  <2> QED
    BY <1>1, <2>1, <2>2, <2>3
<1> QED
  BY <1>1, <1>2, <1>4, <1>5 DEF Functional

LEMMA ClearsSay ==
  ASSUME NEW topics
  PROVE  Functional(Clears(topics)) /\ Topics(Clears(topics)) = topics /\ \A p \in Clears(topics) : p[2] = None
<1>1. \A p \in Clears(topics) : p = <<p[1], None>> /\ p[2] = None /\ p[1] \in topics
  BY DEF Clears
<1>2. Functional(Clears(topics))
  BY <1>1 DEF Functional
<1>3. \A t \in topics : <<t, None>> \in Clears(topics) /\ <<t, None>>[1] = t
  BY DEF Clears
<1>4. Topics(Clears(topics)) = topics
  BY <1>1, <1>3 DEF Topics
<1> QED
  BY <1>1, <1>2, <1>4

\* The topics of a node: told apart by its name and by what they show.
LEMMA PubParts ==
  ASSUME NEW s \in Settings, NEW d, NEW n, NEW on, NEW v
  PROVE  /\ OnlinePub(s, d, n, on)[1] = <<s.template, Place(s.template, d, n), "online">>
         /\ OnlinePub(s, d, n, on)[1][1] = s.template /\ OnlinePub(s, d, n, on)[1][2] = Place(s.template, d, n)
         /\ OnlinePub(s, d, n, on)[1][3] = "online"
         /\ AttrPub(s, d, n, v)[1] = <<s.template, Place(s.template, d, n), "attribute">>
         /\ AttrPub(s, d, n, v)[1][1] = s.template /\ AttrPub(s, d, n, v)[1][2] = Place(s.template, d, n)
         /\ AttrPub(s, d, n, v)[1][3] = "attribute"
  BY DEF OnlinePub, AttrPub

LEMMA ConnectedApart ==
  ASSUME NEW tpl
  PROVE  /\ ConnectedTopic(tpl)[1] = tpl /\ ConnectedTopic(tpl)[3] = "connected" /\ "connected" \notin Keys
         /\ \A v : <<ConnectedTopic(tpl), v>>[1] = ConnectedTopic(tpl)
  BY DEF ConnectedTopic, Keys

LEMMA LiveName ==
  ASSUME NEW d, Names(d), NEW nodes \in SUBSET Node, NEW n \in nodes, Entry(d, n), Publishes(d, n),
         NEW t, t[2] = Place(t[1], d, n)
  PROVE  Lives(d, nodes, t)
<1>1. NameOf(d, n) \in LiveNames(d, nodes)
  BY DEF LiveNames, NameOf
<1> QED
  BY <1>1 DEF Lives, Place

\* _cleanup passes over the topics of live devices, and no others.
LEMMA NotStale ==
  ASSUME known \subseteq Topic, NEW tpl \in Template, NEW d, Names(d), NEW nodes \in SUBSET Node,
         NEW t \in Retained(tpl)
  PROVE  t \in Stale(tpl, d, nodes) <=> ~Lives(d, nodes, t)
<1>1. t \in Topic /\ t[1] = tpl /\ t[3] \in Keys
  BY DEF Retained
<1>2. CASE NamedBy[tpl] = "nodeId"
  <2>1. t[2] \in Node
    <3>1. "connected" \notin Keys
      BY DEF Keys
    <3>2. t \in {u \in Template \X (Name \cup Node \cup {0}) \X Keys : u[2] \in Places(u[1])}
      BY <1>1, <3>1 DEF Topic
    <3>3. t[2] \in Places(tpl)
      BY <1>1, <3>2
    <3> QED
      BY <1>2, <3>3 DEF Places
  <2>2. LiveNames(d, nodes) \subseteq Name
    BY EntryIs DEF LiveNames
  <2>3. t[2] \notin LiveNames(d, nodes)
    BY <2>1, <2>2, BridgeAssumption DEF Name
  <2> QED
    BY <1>1, <1>2, <2>3 DEF Stale, Lives
<1>3. CASE NamedBy[tpl] # "nodeId"
  BY <1>1, <1>3, BridgeAssumption DEF Stale, Lives
<1> QED
  BY <1>2, <1>3

LEMMA LastingSays ==
  ASSUME NEW pubs
  PROVE  Functional(Lasting(pubs)) /\ Lasting(pubs) \subseteq pubs /\ (Functional(pubs) => Lasting(pubs) = pubs)
<1> DEFINE Last(t) == CHOOSE q \in pubs : q[1] = t
<1>1. Lasting(pubs) = {p \in pubs : p = Last(p[1])}
  BY DEF Lasting
<1>2. \A p \in pubs : Last(p[1]) \in pubs /\ Last(p[1])[1] = p[1]
  OBVIOUS
<1> HIDE DEF Last
<1>3. Functional(Lasting(pubs))
  <2> SUFFICES ASSUME NEW p \in Lasting(pubs), NEW q \in Lasting(pubs), p[1] = q[1] PROVE p = q
    BY DEF Functional
  <2>1. p = Last(p[1]) /\ q = Last(q[1])
    BY <1>1
  <2> QED
    BY <2>1
<1> QED
  BY <1>1, <1>2, <1>3 DEF Functional

LEMMA SpokenParts ==
  ASSUME NEW s \in Settings, NEW d, NEW n, NEW on, NEW v, NEW p, p = OnlinePub(s, d, n, on) \/ p = AttrPub(s, d, n, v)
  PROVE  p[1][1] = s.template /\ p[1][2] = Place(s.template, d, n) /\ p[1][3] \in Keys
<1>1. "online" \in Keys /\ "attribute" \in Keys
  BY DEF Keys
<1>2. /\ OnlinePub(s, d, n, on)[1] = <<s.template, Place(s.template, d, n), "online">>
      /\ AttrPub(s, d, n, v)[1] = <<s.template, Place(s.template, d, n), "attribute">>
  BY PubParts
<1>3. PICK k \in Keys : p[1] = <<s.template, Place(s.template, d, n), k>>
  BY <1>1, <1>2
<1>4. \A x : /\ <<s.template, Place(s.template, d, n), x>>[1] = s.template
             /\ <<s.template, Place(s.template, d, n), x>>[2] = Place(s.template, d, n)
             /\ <<s.template, Place(s.template, d, n), x>>[3] = x
  OBVIOUS
<1> QED
  BY <1>3, <1>4

LEMMA NodeSays ==
  ASSUME NEW s \in Settings, NEW d, Names(d), NEW nodes \in SUBSET Node, NEW n \in nodes, Entry(d, n),
         NEW on, NEW filled, val \in [Node -> Value], NEW p \in PublishNode(s, d, n, on, filled)
  PROVE  /\ p[1][1] = s.template /\ p[1][2] = Place(s.template, d, n) /\ p[1][3] \in Keys
         /\ LiveIn(s, d, nodes, p[1])
         /\ \A q \in PublishNode(s, d, n, on, filled) : p[1] = q[1] => p = q
<1>1. /\ s.enabled /\ Publishes(d, n)
      /\ p = OnlinePub(s, d, n, on) \/ p = AttrPub(s, d, n, val[n])
  BY NodePubs
<1>2. p[1][1] = s.template /\ p[1][2] = Place(s.template, d, n) /\ p[1][3] \in Keys
  BY <1>1, SpokenParts
<1>3. LiveIn(s, d, nodes, p[1])
  BY <1>1, <1>2, LiveName DEF LiveIn
<1>4. ASSUME NEW q \in PublishNode(s, d, n, on, filled), p[1] = q[1]
      PROVE  p = q
  <2>1. q = OnlinePub(s, d, n, on) \/ q = AttrPub(s, d, n, val[n])
    BY NodePubs
  <2>2. OnlinePub(s, d, n, on)[1] # AttrPub(s, d, n, val[n])[1]
    BY PubParts
  <2> QED
    BY <1>1, <1>4, <2>1, <2>2
<1> QED
  BY <1>2, <1>3, <1>4

\* Two nodes never speak of one topic, unless the template names none.
LEMMA NamesApart ==
  ASSUME NEW d, Names(d), NEW m \in Node, NEW n \in Node, Entry(d, m), Entry(d, n),
         NEW tpl \in Template, NamedBy[tpl] # "none", Place(tpl, d, m) = Place(tpl, d, n)
  PROVE  m = n
<1>1. NamedBy[tpl] \in {"device", "nodeId", "none"}
  BY BridgeAssumption
<1> QED
  BY <1>1 DEF Names, NameOf, Place

LEMMA AllSay ==
  ASSUME NEW s \in Settings, NEW d, Names(d), NEW nodes \in SUBSET Node, \A n \in nodes : Entry(d, n),
         NEW on, NEW filled, val \in [Node -> Value]
  PROVE  /\ Functional(PublishAll(s, d, nodes, on, filled))
         /\ \A p \in PublishAll(s, d, nodes, on, filled) : p[1][3] \in Keys /\ LiveIn(s, d, nodes, p[1])
         /\ NamedBy[s.template] # "none" =>
              \A n \in nodes : PublishNode(s, d, n, n \in on, filled) \subseteq PublishAll(s, d, nodes, on, filled)
<1> DEFINE each == UNION {PublishNode(s, d, n, n \in on, filled) : n \in nodes}
<1>1. PublishAll(s, d, nodes, on, filled) = Lasting(each)
  BY DEF PublishAll
<1>2. \A p \in each : \E n \in nodes : p \in PublishNode(s, d, n, n \in on, filled)
  OBVIOUS
<1>3. \A n \in nodes : PublishNode(s, d, n, n \in on, filled) \subseteq each
  OBVIOUS
<1> HIDE DEF each
<1>4. ASSUME NEW p \in each
      PROVE  p[1][3] \in Keys /\ LiveIn(s, d, nodes, p[1])
  BY <1>2, NodeSays
<1>5. ASSUME NamedBy[s.template] # "none", NEW p \in each, NEW q \in each, p[1] = q[1]
      PROVE  p = q
  <2>1. PICK m \in nodes : p \in PublishNode(s, d, m, m \in on, filled)
    BY <1>2
  <2>2. PICK n \in nodes : q \in PublishNode(s, d, n, n \in on, filled)
    BY <1>2
  <2>3. p[1][2] = Place(s.template, d, m) /\ q[1][2] = Place(s.template, d, n) /\ s.template \in Template
    BY <2>1, <2>2, NodeSays DEF Settings
  <2>4. m = n
    BY <1>5, <2>3, NamesApart
  <2> QED
    BY <1>5, <2>1, <2>2, <2>4, NodeSays
<1>6. NamedBy[s.template] # "none" => Functional(each)
  BY <1>5 DEF Functional
<1> QED
  BY <1>1, <1>3, <1>4, <1>6, LastingSays

\* After the names: what is stale is cleared, the rest is published again.
Anew(s, d, nodes, on, filled) == Then(Clears(Stale(s.template, d, nodes)), PublishAll(s, d, nodes, on, filled))

LEMMA AnewSays ==
  ASSUME known \subseteq Topic, NEW s \in Settings, s.enabled, NEW d, Names(d), NEW nodes \in SUBSET Node, \A n \in nodes : Entry(d, n),
         NEW on, NEW filled, val \in [Node -> Value]
  PROVE  /\ Functional(Anew(s, d, nodes, on, filled))
         /\ \A p \in Anew(s, d, nodes, on, filled) : p[1][3] \in Keys /\ (p[2] # None => LiveIn(s, d, nodes, p[1]))
         /\ \A t \in known : t[3] \in Keys /\ t[1] = s.template /\ t \notin Topics(Anew(s, d, nodes, on, filled))
                               => LiveIn(s, d, nodes, t)
         /\ \A seen \in SUBSET filled : \A p : OwedBy(s, d, nodes, on, seen, val, p) =>
              p = <<ConnectedTopic(s.template), "2">> \/ p \in Anew(s, d, nodes, on, filled)
<1> DEFINE gone == Clears(Stale(s.template, d, nodes))
           all == PublishAll(s, d, nodes, on, filled)
<1>1. Functional(gone) /\ Topics(gone) = Stale(s.template, d, nodes) /\ \A p \in gone : p[2] = None
  BY ClearsSay
<1>2. Functional(all) /\ \A p \in all : p[1][3] \in Keys /\ LiveIn(s, d, nodes, p[1])
  BY AllSay
<1>3. Anew(s, d, nodes, on, filled) = Then(gone, all)
  BY DEF Anew
<1>4. \A p \in gone : p[1][3] \in Keys
  <2>1. \A t \in Stale(s.template, d, nodes) : t[3] \in Keys
    BY DEF Stale, Retained
  <2>2. \A p \in gone : p[1] \in Topics(gone)
    BY DEF Topics
  <2> QED
    BY <1>1, <2>1, <2>2
<1>5. NamedBy[s.template] # "none" => \A n \in nodes : PublishNode(s, d, n, n \in on, filled) \subseteq all
  BY AllSay
<1> HIDE DEF gone, all
<1>6. /\ Topics(Then(gone, all)) = Topics(gone) \cup Topics(all)
      /\ Functional(Then(gone, all))
      /\ all \subseteq Then(gone, all) /\ Then(gone, all) \subseteq gone \cup all
  BY <1>1, <1>2, ThenSays
<1>7. \A p \in Then(gone, all) : p[1][3] \in Keys /\ (p[2] # None => LiveIn(s, d, nodes, p[1]))
  BY <1>1, <1>2, <1>4, <1>6
<1>8. ASSUME NEW t \in known, t[3] \in Keys, t[1] = s.template, t \notin Topics(Then(gone, all))
      PROVE  LiveIn(s, d, nodes, t)
  <2>1. t \notin Stale(s.template, d, nodes)
    BY <1>1, <1>6, <1>8
  <2>2. t \in Retained(s.template)
    BY <1>8 DEF Retained
  <2> QED
    BY <1>8, <2>1, <2>2, NotStale DEF LiveIn, Settings
<1>9. ASSUME NEW seen \in SUBSET filled, NEW p, OwedBy(s, d, nodes, on, seen, val, p), p # <<ConnectedTopic(s.template), "2">>
      PROVE  p \in Then(gone, all)
  <2>1. PICK n \in nodes :
          /\ Publishes(d, n)
          /\ p = OnlinePub(s, d, n, n \in on) \/ (n \in on /\ n \in seen /\ p = AttrPub(s, d, n, val[n]))
          /\ NamedBy[s.template] # "none"
    BY <1>9 DEF OwedBy
  <2>2. p \in PublishNode(s, d, n, n \in on, filled)
    BY <2>1, NodePubs
  <2> QED
    BY <1>5, <1>6, <2>1, <2>2
<1> QED
  BY <1>3, <1>6, <1>7, <1>8, <1>9

-----------------------------------------------------------------------------
(* The steps in which she publishes *)

LEMMA QuietSays ==
  ASSUME MqttTypes, Silent, \A t : Live(t) => Live(t)', \A p : Owed(p)' => Owed(p)
  PROVE  SaysProperly
<1>1. Send({}, {})
  BY SilentSends
<1>2. Proper({}, {})
  BY DEF Proper, Functional, Topics
<1>3. {} \in SUBSET Publication /\ {} \in SUBSET Template
  OBVIOUS
<1> QED
  BY <1>1, <1>2, <1>3 DEF SaysProperly

\* All is published anew: the device list, the start, a settings change.
LEMMA AnewProper ==
  ASSUME TypeOK, started', settings' \in Settings, settings'.enabled, Names(devices'),
         NEW nodes \in SUBSET Node, \A n \in nodes : Entry(devices', n), ListPaired' = nodes,
         NEW filled, watched' \subseteq filled, val' = val,
         NEW batch \in SUBSET Publication, Functional(batch),
         Anew(settings', devices', nodes, online', filled) \subseteq batch,
         \A p \in batch : p[2] # None /\ p[1][3] \in Keys => p \in Anew(settings', devices', nodes, online', filled),
         \/ <<ConnectedTopic(settings'.template), "2">> \in batch
         \/ settings' = settings /\ started /\ ConnectedTopic(settings'.template) \notin Topics(batch),
         NEW cleaned, settings'.template \in cleaned,
         \A t \in Topic : t[1] \notin cleaned => ~Live(t),
         \A t \in known : t[3] \in Keys /\ t[1] \in cleaned /\ t[1] # settings'.template => t \in Topics(batch)
  PROVE  Proper(batch, cleaned)
<1>1. PICK s, d, on, seen : s = settings' /\ d = devices' /\ on = online' /\ seen = watched'
  OBVIOUS
<1>0. seen \in SUBSET filled
  BY <1>1
<1>2. \A t : Live(t)' <=> LiveIn(s, d, nodes, t)
  BY <1>1 DEF Live, LiveIn
<1>3. \A p : Owed(p)' <=> OwedBy(s, d, nodes, on, seen, val, p)
  BY <1>1 DEF Owed
<1>4. val \in [Node -> Value] /\ known \subseteq Topic
  BY DEF TypeOK
<1>5. s \in Settings /\ s.enabled /\ Names(d) /\ \A n \in nodes : Entry(d, n)
  BY <1>1
<1>6. /\ Functional(Anew(s, d, nodes, on, filled))
      /\ \A p \in Anew(s, d, nodes, on, filled) : p[1][3] \in Keys /\ (p[2] # None => LiveIn(s, d, nodes, p[1]))
      /\ \A t \in known : t[3] \in Keys /\ t[1] = s.template /\ t \notin Topics(Anew(s, d, nodes, on, filled))
                            => LiveIn(s, d, nodes, t)
      /\ \A r \in SUBSET filled : \A p : OwedBy(s, d, nodes, on, r, val, p) =>
           p = <<ConnectedTopic(s.template), "2">> \/ p \in Anew(s, d, nodes, on, filled)
  BY <1>4, <1>5, AnewSays
<1>7. PICK anew : anew = Anew(s, d, nodes, on, filled) /\ anew \subseteq batch
                  /\ \A p \in batch : p[2] # None /\ p[1][3] \in Keys => p \in anew
  BY <1>1
<1>8. \A p \in batch : p[2] # None /\ p[1][3] \in Keys => Live(p[1])'
  BY <1>2, <1>6, <1>7
<1>9. \A t \in Topic : t[3] \in Keys /\ t[1] \notin cleaned /\ Live(t) => Live(t)'
  OBVIOUS
<1>10. ASSUME NEW t \in known, t[3] \in Keys, t[1] \in cleaned, t \notin Topics(batch)
       PROVE  Live(t)'
  <2>1. t[1] = s.template
    BY <1>1, <1>10
  <2>2. t \notin Topics(anew)
    BY <1>7, <1>10 DEF Topics
  <2> QED
    BY <1>2, <1>6, <1>7, <1>10, <2>1, <2>2
<1>11. ASSUME NEW p \in Publication, Owed(p)'
       PROVE  p \in batch \/ (Owed(p) /\ p[1] \notin Topics(batch))
  <2>1. p = <<ConnectedTopic(s.template), "2">> \/ p \in anew
    BY <1>0, <1>3, <1>6, <1>7, <1>11
  <2>2. CASE p = <<ConnectedTopic(s.template), "2">> /\ p \notin batch
    <3>1. s = settings /\ started /\ ConnectedTopic(s.template) \notin Topics(batch)
      BY <1>1, <2>2
    <3>2. Owed(p)
      BY <1>5, <2>2, <3>1 DEF Owed, OwedBy
    <3>3. p[1] = ConnectedTopic(s.template)
      BY <2>2
    <3> QED
      BY <3>1, <3>2, <3>3
  <2> QED
    BY <1>7, <2>1, <2>2
<1> QED
  BY <1>8, <1>9, <1>10, <1>11 DEF Proper

LEMMA DeviceListSays ==
  ASSUME TypeOK, Named, NEW nodes \in SUBSET Node, NEW filled, OnDeviceList(nodes, online', filled),
         ctrl, ctrl', paired' = nodes, watched' \subseteq filled, val' = val, settings' = settings, started' = started
  PROVE  SaysProperly /\ Named'
<1>1. NodeTypes /\ BridgeTypes /\ MqttTypes
  BY TypeParts
<1>2. settings \in Settings /\ Names(devices) /\ val \in [Node -> Value] /\ settings.template \in Template
  BY <1>1 DEF BridgeTypes, NodeTypes, Settings
<1>3. ListPaired' = nodes
  BY DEF ListPaired
<1>4. CASE started /\ settings.enabled
  <2>1. PICK d \in EnsureNames(devices, nodes) :
          devices' = d /\ Send(Anew(settings, d, nodes, online', filled), {settings.template})
    BY <1>4 DEF OnDeviceList, Anew
  <2>2. Names(d) /\ \A n \in nodes : Entry(d, n)
    BY <1>2, <2>1, Assigned
  <2>3. PICK batch \in SUBSET Publication : batch = Anew(settings, d, nodes, online', filled)
    BY <1>1, <1>2, <2>2, AnewTypes DEF Anew, MqttTypes
  <2>4. PICK on : on = online'
    OBVIOUS
  <2>5. Functional(batch) /\ \A p \in batch : p[1][3] \in Keys
    BY <1>1, <1>2, <1>4, <2>2, <2>3, <2>4, AnewSays DEF MqttTypes
  <2>6. ConnectedTopic(settings.template) \notin Topics(batch)
    BY <2>5, ConnectedApart DEF Topics
  <2>7. \A t \in Topic : t[1] \notin {settings.template} => ~Live(t)
    BY DEF Live
  <2>8. started' /\ settings' \in Settings /\ settings'.enabled /\ Names(devices') /\ (\A n \in nodes : Entry(devices', n))
    BY <1>2, <1>4, <2>1, <2>2
  <2>9. batch = Anew(settings', devices', nodes, online', filled)
    BY <2>1, <2>3
  <2>10. Proper(batch, {settings.template})
    BY <1>3, <1>4, <2>5, <2>6, <2>7, <2>8, <2>9, AnewProper
  <2>11. Send(batch, {settings.template})
    BY <2>1, <2>3
  <2>12. SaysProperly
    BY <1>2, <2>10, <2>11 DEF SaysProperly
  <2>13. Named'
    BY <2>8 DEF Named
  <2> QED
    BY <2>12, <2>13
<1>5. CASE ~(started /\ settings.enabled)
  <2>1. devices' = devices /\ Silent
    BY <1>5 DEF OnDeviceList
  <2>2. \A t : Live(t) => Live(t)'
    BY <1>5 DEF Live
  <2>3. \A p : ~Owed(p)'
    BY <1>5 DEF Owed
  <2>4. Named'
    BY <1>5 DEF Named
  <2> QED
    BY <1>1, <2>1, <2>2, <2>3, <2>4, QuietSays
<1> QED
  BY <1>4, <1>5

LEMMA RefreshSays ==
  ASSUME known \subseteq Topic, NEW s \in Settings, s.enabled, NEW d, Names(d), NEW nodes \in SUBSET Node, \A n \in nodes : Entry(d, n),
         val \in [Node -> Value]
  PROVE  /\ Functional(Refresh(s, d, nodes))
         /\ Anew(s, d, nodes, online, populated) \subseteq Refresh(s, d, nodes)
         /\ \A p \in Refresh(s, d, nodes) : p[1][3] \in Keys => p \in Anew(s, d, nodes, online, populated)
         /\ <<ConnectedTopic(s.template), "2">> \in Refresh(s, d, nodes)
<1>1. PICK anew : anew = Anew(s, d, nodes, online, populated)
  OBVIOUS
<1>2. Functional(anew) /\ \A p \in anew : p[1][3] \in Keys
  BY <1>1, AnewSays
<1>3. Refresh(s, d, nodes) = {<<ConnectedTopic(s.template), "2">>} \cup anew
  BY <1>1 DEF Refresh, Anew
<1>4. <<ConnectedTopic(s.template), "2">>[1][3] \notin Keys
  BY ConnectedApart
<1>5. Functional(Refresh(s, d, nodes))
  BY <1>2, <1>3, <1>4 DEF Functional
<1> QED
  BY <1>1, <1>3, <1>4, <1>5

LEMMA StartSays ==
  ASSUME TypeOK, EarlyStart = FALSE, Start
  PROVE  SaysProperly /\ Named'
<1>1. NodeTypes /\ BridgeTypes /\ MqttTypes
  BY TypeParts
<1>2. settings \in Settings /\ Names(devices) /\ val \in [Node -> Value] /\ settings.template \in Template
      /\ paired \in SUBSET Node /\ watched \subseteq populated
  BY <1>1 DEF BridgeTypes, NodeTypes, Settings
<1>3. ctrl /\ started' /\ settings' = settings /\ UNCHANGED <<ctrl, nodeVars>>
  BY DEF Start
<1>4. ListPaired = paired /\ ListPaired' = paired
  BY <1>3 DEF ListPaired, nodeVars
<1>5. CASE settings.enabled
  <2>1. PICK d \in EnsureNames(devices, paired) :
          devices' = d /\ Send(Refresh(settings, d, paired), {settings.template})
    BY <1>4, <1>5 DEF Start
  <2>2. Names(d) /\ \A n \in paired : Entry(d, n)
    BY <1>2, <2>1, Assigned
  <2>3. PICK batch \in SUBSET Publication : batch = Refresh(settings, d, paired)
    BY <1>1, <1>2, <2>2, RefreshTypes DEF MqttTypes
  <2>4. /\ Functional(batch)
        /\ Anew(settings, d, paired, online, populated) \subseteq batch
        /\ \A p \in batch : p[1][3] \in Keys => p \in Anew(settings, d, paired, online, populated)
        /\ <<ConnectedTopic(settings.template), "2">> \in batch
    BY <1>1, <1>2, <1>5, <2>2, <2>3, RefreshSays DEF MqttTypes
  <2>5. UNCHANGED <<online, watched, val>>
    BY <1>3 DEF nodeVars
  <2>6. Anew(settings', devices', paired, online', populated) = Anew(settings, d, paired, online, populated)
    BY <1>3, <2>1, <2>5
  <2>7. started' /\ settings' \in Settings /\ settings'.enabled /\ Names(devices') /\ (\A n \in paired : Entry(devices', n))
    BY <1>2, <1>3, <1>5, <2>1, <2>2
  <2>8. \A t \in Topic : t[1] \notin {settings.template} => ~Live(t)
    BY DEF Live
  <2>9. Proper(batch, {settings.template})
    BY <1>2, <1>3, <1>4, <2>4, <2>5, <2>6, <2>7, <2>8, AnewProper
  <2>10. Send(batch, {settings.template})
    BY <2>1, <2>3
  <2>11. SaysProperly
    BY <1>2, <2>9, <2>10 DEF SaysProperly
  <2>12. Named'
    BY <1>3, <2>7 DEF Named, nodeVars
  <2> QED
    BY <2>11, <2>12
<1>6. CASE ~settings.enabled
  <2>1. Silent
    BY <1>6 DEF Start
  <2>2. (\A t : Live(t) => Live(t)') /\ (\A p : ~Owed(p)') /\ Named'
    BY <1>3, <1>6 DEF Live, Owed, Named
  <2> QED
    BY <1>1, <2>1, <2>2, QuietSays
<1> QED
  BY <1>5, <1>6

\* A bridge that is not started or not enabled owes nothing.
LEMMA NothingSays ==
  ASSUME MqttTypes, ~(started /\ settings.enabled), Silent \/ Send({}, {}), settings' = settings, started' = started
  PROVE  SaysProperly
<1>1. Send({}, {})
  BY SilentSends
<1>2. \A t : Live(t) => Live(t)'
  BY DEF Live
<1>3. \A p : ~Owed(p)'
  BY DEF Owed
<1>4. Proper({}, {})
  BY <1>2, <1>3 DEF Proper, Functional, Topics
<1>5. {} \in SUBSET Publication /\ {} \in SUBSET Template
  OBVIOUS
<1> QED
  BY <1>1, <1>4, <1>5 DEF SaysProperly

\* One node speaks; nothing changes for the others.
LEMMA OneProper ==
  ASSUME TypeOK, Named, started, settings.enabled, UNCHANGED <<ctrl, paired, settings, devices, started>>,
         NEW n \in paired, NEW batch \in SUBSET Publication, Functional(batch),
         \A p \in batch : p[1][2] = Place(settings.template, devices, n) /\ p[1][3] \in Keys /\ LiveIn(settings, devices, paired, p[1]),
         \A m \in paired \ {n} : (m \in online' <=> m \in online) /\ (m \in watched' => m \in watched) /\ val'[m] = val[m],
         \A p : /\ Publishes(devices, n) /\ NamedBy[settings.template] # "none"
                /\ \/ p = OnlinePub(settings, devices, n, n \in online')
                   \/ n \in online' /\ n \in watched' /\ p = AttrPub(settings, devices, n, val'[n])
                => p \in batch \/ (Owed(p) /\ p[1] \notin Topics(batch))
  PROVE  Proper(batch, {})
<1>1. NodeTypes /\ BridgeTypes
  BY TypeParts
<1>2. settings \in Settings /\ Names(devices) /\ paired \in SUBSET Node
  BY <1>1 DEF BridgeTypes, NodeTypes
<1>3. ListPaired = paired /\ ListPaired' = paired /\ \A m \in paired : Entry(devices, m)
  BY DEF Named, ListPaired
<1>4. \A t : (Live(t) <=> LiveIn(settings, devices, paired, t)) /\ (Live(t)' <=> LiveIn(settings, devices, paired, t))
  BY <1>3 DEF Live, LiveIn
<1>5. \A p \in batch : Live(p[1])'
  BY <1>4
<1>6. ASSUME NamedBy[settings.template] # "none", NEW m \in paired \ {n}, NEW v
      PROVE  /\ OnlinePub(settings, devices, m, v)[1] \notin Topics(batch)
             /\ AttrPub(settings, devices, m, v)[1] \notin Topics(batch)
  <2>1. Place(settings.template, devices, m) # Place(settings.template, devices, n)
    BY <1>2, <1>3, <1>6, NamesApart DEF Settings
  <2>2. \A t \in Topics(batch) : t[2] = Place(settings.template, devices, n)
    BY DEF Topics
  <2>3. OnlinePub(settings, devices, m, v)[1][2] = Place(settings.template, devices, m)
        /\ AttrPub(settings, devices, m, v)[1][2] = Place(settings.template, devices, m)
    BY <1>2, PubParts
  <2> QED
    BY <2>1, <2>2, <2>3
<1>7. ASSUME NEW p \in Publication, Owed(p)'
      PROVE  p \in batch \/ (Owed(p) /\ p[1] \notin Topics(batch))
  <2>1. OwedBy(settings, devices, paired, online', watched', val', p)
    BY <1>3, <1>7 DEF Owed
  <2>2. CASE p = <<ConnectedTopic(settings.template), "2">>
    <3>1. Owed(p)
      BY <1>3, <2>2 DEF Owed, OwedBy
    <3>2. p[1] = ConnectedTopic(settings.template)
      BY <2>2
    <3>3. \A t \in Topics(batch) : t[3] \in Keys
      BY DEF Topics
    <3>4. p[1] \notin Topics(batch)
      BY <3>2, <3>3, ConnectedApart
    <3> QED
      BY <3>1, <3>4
  <2>3. ASSUME NamedBy[settings.template] # "none", NEW m \in paired, Publishes(devices, m),
               \/ p = OnlinePub(settings, devices, m, m \in online')
               \/ m \in online' /\ m \in watched' /\ p = AttrPub(settings, devices, m, val'[m])
        PROVE  p \in batch \/ (Owed(p) /\ p[1] \notin Topics(batch))
    <3>1. CASE m = n
      BY <2>3, <3>1
    <3>2. CASE m # n
      <4>1. m \in paired \ {n} /\ (m \in online' <=> m \in online) /\ (m \in watched' => m \in watched) /\ val'[m] = val[m]
        BY <3>2
      <4>2. \/ p = OnlinePub(settings, devices, m, m \in online)
            \/ m \in online /\ m \in watched /\ p = AttrPub(settings, devices, m, val[m])
        <5>1. OnlinePub(settings, devices, m, m \in online') = OnlinePub(settings, devices, m, m \in online)
          BY <4>1 DEF OnlinePub
        <5> QED
          BY <2>3, <4>1, <5>1
      <4>3. Owed(p)
        BY <1>3, <2>3, <4>2 DEF Owed, OwedBy
      <4>4. p[1] \notin Topics(batch)
        BY <1>6, <2>3, <4>1, <4>2
      <4> QED
        BY <4>3, <4>4
    <3> QED
      BY <3>1, <3>2
  <2> QED
    BY <2>1, <2>2, <2>3 DEF OwedBy
<1>8. \A t \in Topic : Live(t) => Live(t)'
  BY <1>4
<1> QED
  BY <1>5, <1>7, <1>8 DEF Proper

\* What PublishAttr and PublishOnline say of a node.
LEMMA AttrSays ==
  ASSUME TypeOK, Named, started, settings.enabled, NEW n \in paired, NEW v \in Value
  PROVE  /\ PublishAttr(devices, n, v) = IF Publishes(devices, n) THEN {AttrPub(settings, devices, n, v)} ELSE {}
         /\ Functional(PublishAttr(devices, n, v))
         /\ \A p \in PublishAttr(devices, n, v) :
              p[1][2] = Place(settings.template, devices, n) /\ p[1][3] \in Keys /\ LiveIn(settings, devices, paired, p[1])
<1>1. settings \in Settings /\ Names(devices) /\ paired \in SUBSET Node /\ Entry(devices, n)
  BY TypeParts DEF BridgeTypes, NodeTypes, Named
<1>2. PublishAttr(devices, n, v) = IF Publishes(devices, n) THEN {AttrPub(settings, devices, n, v)} ELSE {}
  BY DEF PublishAttr, AttrPub
<1>3. Functional(PublishAttr(devices, n, v))
  BY <1>2 DEF Functional
<1>4. PICK p : p = AttrPub(settings, devices, n, v)
  OBVIOUS
<1>5. p[1][1] = settings.template /\ p[1][2] = Place(settings.template, devices, n) /\ p[1][3] \in Keys
  BY <1>1, <1>4, SpokenParts
<1>6. Publishes(devices, n) => LiveIn(settings, devices, paired, p[1])
  BY <1>1, <1>5, LiveName DEF LiveIn
<1> QED
  BY <1>2, <1>3, <1>4, <1>5, <1>6

LEMMA OnlineSays ==
  ASSUME TypeOK, Named, NEW n \in Node, Online(n)
  PROVE  SaysProperly /\ Named'
<1>1. NodeTypes /\ BridgeTypes /\ MqttTypes
  BY TypeParts
<1>2. UNCHANGED <<ctrl, paired, settings, devices, started>> /\ val' = val /\ populated' = populated
      /\ OnStatus(n, TRUE) /\ n \in paired
      /\ online' = online \cup {n} /\ watched' = watched \cup ({n} \cap populated)
  BY DEF Online
<1>3. Named'
  BY <1>2 DEF Named
<1>4. CASE started /\ settings.enabled
  <2>1. settings \in Settings /\ Names(devices) /\ val \in [Node -> Value] /\ paired \in SUBSET Node
        /\ watched \subseteq populated /\ Entry(devices, n)
    BY <1>1, <1>2, <1>4 DEF BridgeTypes, NodeTypes, Named
  <2>2. PICK batch \in SUBSET Publication : batch = PublishNode(settings, devices, n, TRUE, populated)
    BY <2>1, NodePubTypes, Pubs
  <2>3. Send(batch, {})
    BY <1>2, <1>4, <2>2 DEF OnStatus
  <2>4. \A p \in batch : /\ p[1][2] = Place(settings.template, devices, n) /\ p[1][3] \in Keys /\ LiveIn(settings, devices, paired, p[1])
                         /\ \A q \in batch : p[1] = q[1] => p = q
    <3> SUFFICES ASSUME NEW p \in batch
                 PROVE  /\ p[1][2] = Place(settings.template, devices, n) /\ p[1][3] \in Keys /\ LiveIn(settings, devices, paired, p[1])
                        /\ \A q \in batch : p[1] = q[1] => p = q
      OBVIOUS
    <3>1. PICK up : up = TRUE
      OBVIOUS
    <3>2. n \in paired /\ batch = PublishNode(settings, devices, n, up, populated)
      BY <1>2, <2>2, <3>1
    <3> QED
      BY <2>1, <3>2, NodeSays
  <2>5. ASSUME NEW p, Publishes(devices, n),
               \/ p = OnlinePub(settings, devices, n, n \in online')
               \/ n \in online' /\ n \in watched' /\ p = AttrPub(settings, devices, n, val'[n])
        PROVE  p \in batch
    <3>1. n \in online' /\ (n \in watched' => n \in populated)
      BY <1>2, <2>1
    <3>2. OnlinePub(settings, devices, n, n \in online') = OnlinePub(settings, devices, n, TRUE)
      BY <3>1 DEF OnlinePub
    <3> QED
      BY <1>2, <1>4, <2>2, <2>5, <3>1, <3>2, NodePubs
  <2>6. \A m \in paired \ {n} : (m \in online' <=> m \in online) /\ (m \in watched' => m \in watched) /\ val'[m] = val[m]
    BY <1>2
  <2>7. Functional(batch)
    BY <2>4 DEF Functional
  <2>8. Proper(batch, {})
    BY <1>2, <1>4, <2>4, <2>5, <2>6, <2>7, OneProper
  <2>9. {} \in SUBSET Template
    OBVIOUS
  <2> QED
    BY <1>3, <2>3, <2>8, <2>9 DEF SaysProperly
<1>5. CASE ~(started /\ settings.enabled)
  <2>1. Silent \/ Send({}, {})
    <3>1. ~settings.enabled => PublishNode(settings, devices, n, TRUE, populated) = {}
      BY DEF PublishNode, PublishOnline
    <3> QED
      BY <1>2, <1>5, <3>1 DEF OnStatus
  <2> QED
    BY <1>1, <1>2, <1>3, <1>5, <2>1, NothingSays
<1> QED
  BY <1>4, <1>5

LEMMA OfflineSays ==
  ASSUME TypeOK, Named, NEW n \in Node, Offline(n)
  PROVE  SaysProperly /\ Named'
<1>1. NodeTypes /\ BridgeTypes /\ MqttTypes
  BY TypeParts
<1>2. UNCHANGED <<ctrl, paired, settings, devices, started>> /\ val' = val /\ watched' = watched
      /\ OnStatus(n, FALSE) /\ n \in paired /\ online' = online \ {n}
  BY DEF Offline
<1>3. Named'
  BY <1>2 DEF Named
<1>4. CASE started /\ settings.enabled
  <2>1. settings \in Settings /\ Names(devices) /\ paired \in SUBSET Node /\ Entry(devices, n)
    BY <1>1, <1>2, <1>4 DEF BridgeTypes, NodeTypes, Named
  <2>2. PICK p0 \in Publication : p0 = OnlinePub(settings, devices, n, FALSE)
    BY <1>2, <2>1, PubTypes DEF Publication
  <2>3. PICK batch \in SUBSET Publication : batch = IF Publishes(devices, n) THEN {p0} ELSE {}
    OBVIOUS
  <2>4. Send(batch, {})
    <3>1. PublishOnline(settings, devices, n, FALSE) = batch
      BY <1>4, <2>2, <2>3 DEF PublishOnline, OnlinePub
    <3> QED
      BY <1>2, <1>4, <3>1 DEF OnStatus
  <2>5. p0[1][1] = settings.template /\ p0[1][2] = Place(settings.template, devices, n) /\ p0[1][3] \in Keys
    <3>1. PICK off : off = FALSE
      OBVIOUS
    <3>2. p0 = OnlinePub(settings, devices, n, off) \/ p0 = AttrPub(settings, devices, n, None)
      BY <2>2, <3>1
    <3> QED
      BY <2>1, <3>2, SpokenParts
  <2>6. Publishes(devices, n) => LiveIn(settings, devices, paired, p0[1])
    BY <1>2, <1>4, <2>1, <2>5, LiveName DEF LiveIn
  <2>7. \A p \in batch : p[1][2] = Place(settings.template, devices, n) /\ p[1][3] \in Keys /\ LiveIn(settings, devices, paired, p[1])
    BY <2>3, <2>5, <2>6
  <2>8. ASSUME NEW p, Publishes(devices, n),
               \/ p = OnlinePub(settings, devices, n, n \in online')
               \/ n \in online' /\ n \in watched' /\ p = AttrPub(settings, devices, n, val'[n])
        PROVE  p \in batch
    <3>1. n \notin online'
      BY <1>2
    <3>2. OnlinePub(settings, devices, n, n \in online') = OnlinePub(settings, devices, n, FALSE)
      BY <3>1 DEF OnlinePub
    <3> QED
      BY <2>2, <2>3, <2>8, <3>1, <3>2
  <2>9. \A m \in paired \ {n} : (m \in online' <=> m \in online) /\ (m \in watched' => m \in watched) /\ val'[m] = val[m]
    BY <1>2
  <2>10. Functional(batch)
    BY <2>3 DEF Functional
  <2>11. Proper(batch, {})
    BY <1>2, <1>4, <2>7, <2>8, <2>9, <2>10, OneProper
  <2>12. {} \in SUBSET Template
    OBVIOUS
  <2> QED
    BY <1>3, <2>4, <2>11, <2>12 DEF SaysProperly
<1>5. CASE ~(started /\ settings.enabled)
  <2>1. Silent \/ Send({}, {})
    <3>1. ~settings.enabled => PublishOnline(settings, devices, n, FALSE) = {}
      BY DEF PublishOnline
    <3> QED
      BY <1>2, <1>5, <3>1 DEF OnStatus
  <2> QED
    BY <1>1, <1>2, <1>3, <1>5, <2>1, NothingSays
<1> QED
  BY <1>4, <1>5

\* A node's attribute is published: by a report that is heard, or for a `get`.
LEMMA AttrProper ==
  ASSUME TypeOK, Named, started, settings.enabled, UNCHANGED <<ctrl, paired, online, watched, settings, devices, started>>,
         NEW n \in paired, NEW v \in Value, val' = [val EXCEPT ![n] = v], Send(PublishAttr(devices, n, v), {})
  PROVE  SaysProperly
<1>1. settings \in Settings /\ n \in Node /\ val \in [Node -> Value]
  BY TypeParts DEF BridgeTypes, NodeTypes
<1>2. PICK batch \in SUBSET Publication : batch = PublishAttr(devices, n, v)
  BY <1>1, AttrTypes
<1>3. /\ batch = IF Publishes(devices, n) THEN {AttrPub(settings, devices, n, v)} ELSE {}
      /\ Functional(batch)
      /\ \A p \in batch : p[1][2] = Place(settings.template, devices, n) /\ p[1][3] \in Keys /\ LiveIn(settings, devices, paired, p[1])
  BY <1>2, AttrSays
<1>4. val'[n] = v /\ \A m \in paired \ {n} : val'[m] = val[m]
  <2>1. paired \in SUBSET Node
    BY TypeParts DEF NodeTypes
  <2> QED
    BY <1>1, <2>1
<1>5. ASSUME NEW p, Publishes(devices, n), NamedBy[settings.template] # "none",
             \/ p = OnlinePub(settings, devices, n, n \in online')
             \/ n \in online' /\ n \in watched' /\ p = AttrPub(settings, devices, n, val'[n])
      PROVE  p \in batch \/ (Owed(p) /\ p[1] \notin Topics(batch))
  <2>1. CASE p = AttrPub(settings, devices, n, val'[n])
    BY <1>3, <1>4, <1>5, <2>1
  <2>2. CASE p = OnlinePub(settings, devices, n, n \in online')
    <3>1. p = OnlinePub(settings, devices, n, n \in online)
      BY <2>2 DEF OnlinePub
    <3>2. n \in ListPaired
      BY DEF ListPaired, Named
    <3>3. Owed(p)
      BY <1>5, <3>1, <3>2 DEF Owed, OwedBy
    <3>4. p[1][3] = "online" /\ AttrPub(settings, devices, n, v)[1][3] = "attribute"
      BY <1>1, <3>1, PubParts
    <3>5. p[1] \notin Topics(batch)
      BY <1>3, <3>4 DEF Topics
    <3> QED
      BY <3>3, <3>5
  <2> QED
    BY <1>5, <2>1, <2>2
<1>6. \A m \in paired \ {n} : (m \in online' <=> m \in online) /\ (m \in watched' => m \in watched) /\ val'[m] = val[m]
  BY <1>4
<1>7. Proper(batch, {})
  BY <1>3, <1>5, <1>6, OneProper
<1>8. Send(batch, {}) /\ {} \in SUBSET Template
  BY <1>2
<1> QED
  BY <1>7, <1>8 DEF SaysProperly

LEMMA ReportSays ==
  ASSUME TypeOK, Named, NEW n \in Node, NEW v \in Value, Report(n, v)
  PROVE  SaysProperly /\ Named'
<1>1. NodeTypes /\ BridgeTypes /\ MqttTypes
  BY TypeParts
<1>2. UNCHANGED <<ctrl, paired, online, watched, settings, devices, started>>
      /\ val' = [val EXCEPT ![n] = v] /\ n \in paired
      /\ IF n \in watched THEN OnAttr(n, v) ELSE Silent
  BY DEF Report
<1>3. Named'
  BY <1>2 DEF Named
<1>4. CASE started /\ settings.enabled /\ n \in watched
  <2>1. Send(PublishAttr(devices, n, v), {})
    BY <1>2, <1>4 DEF OnAttr
  <2> QED
    BY <1>2, <1>3, <1>4, <2>1, AttrProper
<1>5. CASE n \notin watched
  <2>1. \A t : Live(t) => Live(t)'
    BY <1>2 DEF Live, ListPaired
  <2>2. \A p : Owed(p)' => Owed(p)
    <3> SUFFICES ASSUME NEW p, Owed(p)' PROVE Owed(p)
      OBVIOUS
    <3>1. ListPaired' = ListPaired
      BY <1>2 DEF ListPaired
    <3>2. OwedBy(settings, devices, ListPaired, online, watched, val', p)
      BY <1>2, <3>1 DEF Owed
    <3>3. \A m : m \in watched => val'[m] = val[m]
      <4>1. val \in [Node -> Value] /\ watched \subseteq Node
        BY <1>1 DEF NodeTypes
      <4> QED
        BY <1>2, <1>5, <4>1
    <3>4. OwedBy(settings, devices, ListPaired, online, watched, val, p)
      BY <3>2, <3>3 DEF OwedBy
    <3> QED
      BY <1>2, <3>4 DEF Owed
  <2> QED
    BY <1>1, <1>2, <1>3, <1>5, <2>1, <2>2, QuietSays
<1>6. CASE ~(started /\ settings.enabled)
  <2>1. Silent \/ Send({}, {})
    <3>1. ~settings.enabled => PublishAttr(devices, n, v) = {}
      BY DEF PublishAttr
    <3> QED
      BY <1>2, <1>6, <3>1 DEF OnAttr
  <2> QED
    BY <1>1, <1>2, <1>3, <1>6, <2>1, NothingSays
<1> QED
  BY <1>4, <1>5, <1>6

LEMMA GetSays ==
  ASSUME TypeOK, Named, NEW n \in Node, Get(n)
  PROVE  SaysProperly /\ Named'
<1>1. UNCHANGED <<ctrl, paired, online, watched, settings, devices, started>> /\ val' = val
      /\ started /\ settings.enabled /\ Send(PublishAttr(devices, n, val[n]), {}) /\ n \in ListPaired
  BY DEF Get, nodeVars, setVars
<1>2. n \in paired /\ val \in [Node -> Value]
  BY <1>1, TypeParts DEF ListPaired, NodeTypes
<1>3. val[n] \in Value /\ val' = [val EXCEPT ![n] = val[n]]
  BY <1>1, <1>2
<1>4. Named'
  BY <1>1 DEF Named
<1> QED
  BY <1>1, <1>2, <1>3, <1>4, AttrProper

LEMMA SettingIs ==
  ASSUME NEW s \in Settings, NEW r \in Settings, s.enabled <=> r.enabled, s.template = r.template
  PROVE  s = r
<1>1. s = [enabled |-> s.enabled, template |-> s.template] /\ r = [enabled |-> r.enabled, template |-> r.template]
  BY DEF Settings
<1>2. s.enabled \in BOOLEAN /\ r.enabled \in BOOLEAN
  BY DEF Settings
<1>3. s.enabled = r.enabled
  BY <1>2
<1> QED
  BY <1>1, <1>3

LEMMA SettingsSay ==
  ASSUME TypeOK, Named, NEW next \in Settings, UpdateSettings(next)
  PROVE  SaysProperly /\ Named'
<1>1. NodeTypes /\ BridgeTypes /\ MqttTypes
  BY TypeParts
<1>2. settings \in Settings /\ Names(devices) /\ val \in [Node -> Value] /\ paired \in SUBSET Node
      /\ watched \subseteq populated /\ ListPaired \in SUBSET Node /\ settings.template \in Template /\ next.template \in Template
  BY <1>1 DEF BridgeTypes, NodeTypes, ListPaired, Settings
<1> DEFINE moved == next.template # settings.template
           leaving == settings.enabled /\ (moved \/ ~next.enabled)
           entering == started /\ next.enabled /\ (~settings.enabled \/ moved)
           gone == IF leaving THEN Clears(Retained(settings.template) \cup IF moved THEN {ConnectedTopic(settings.template)} ELSE {}) ELSE {}
           off == IF leaving /\ ~next.enabled THEN {<<ConnectedTopic(settings.template), "0">>} ELSE {}
           fresh(d) == IF entering THEN Refresh(next, d, ListPaired) ELSE {}
           cleaned == {t \in Template : (leaving /\ t = settings.template) \/ (entering /\ t = next.template)}
<1>3. PICK d \in IF entering THEN EnsureNames(devices, ListPaired) ELSE {devices} :
        devices' = d /\ Send(Then(Then(gone, off), fresh(d)), cleaned)
  BY DEF UpdateSettings
<1>4. settings' = next /\ UNCHANGED <<ctrl, paired, online, populated, watched, val, started>> /\ next # settings
  BY DEF UpdateSettings, nodeVars
<1>5. ListPaired' = ListPaired /\ (started => ListPaired = paired)
  BY <1>4 DEF ListPaired, Named
<1>6. Names(d) /\ (entering => \A n \in ListPaired : Entry(d, n))
  BY <1>2, <1>3, Assigned
<1>7. Functional(gone) /\ Functional(off)
  BY ClearsSay DEF Functional
<1>8. /\ \A p \in gone : p[2] = None
      /\ \A p \in off : p[1][3] \notin Keys
  <2>1. \A p \in gone : p[2] = None
    BY ClearsSay
  <2>2. \A p \in off : p[1] = ConnectedTopic(settings.template)
    OBVIOUS
  <2> QED
    BY <2>1, <2>2, ConnectedApart
<1>9. leaving => Retained(settings.template) \subseteq Topics(gone)
  BY ClearsSay
<1>10. gone \in SUBSET Publication
  <2>1. Retained(settings.template) \cup (IF moved THEN {ConnectedTopic(settings.template)} ELSE {}) \in SUBSET Topic
    BY <1>1, <1>2, StaleTypes, ConnectedTypes DEF MqttTypes
  <2> QED
    BY <2>1, ClearTypes
<1>11. off \in SUBSET Publication
  BY <1>2, ConnectedPub
<1>12. fresh(d) \in SUBSET Publication
  BY <1>1, <1>2, <1>6, RefreshTypes DEF MqttTypes
<1>13. \A t \in Topic : Live(t) /\ t[1] \notin cleaned => ~leaving /\ t[1] = settings.template /\ settings.enabled
  <2>1. settings.template \in cleaned <=> leaving \/ (entering /\ settings.template = next.template)
    BY <1>2
  <2> QED
    BY <2>1 DEF Live
<1>14. entering => \A t \in Topic : t[1] \notin cleaned => ~Live(t)
  BY <1>13
<1>15. \A t \in known : t[3] \in Keys /\ t[1] \in cleaned /\ ~(entering /\ t[1] = next.template) => t \in Topics(gone)
  <2> SUFFICES ASSUME NEW t \in known, t[3] \in Keys, t[1] \in cleaned, ~(entering /\ t[1] = next.template)
               PROVE  t \in Topics(gone)
    OBVIOUS
  <2>1. leaving /\ t[1] = settings.template
    OBVIOUS
  <2>2. t \in Retained(settings.template)
    BY <2>1 DEF Retained
  <2> QED
    BY <1>9, <2>1, <2>2
<1>16. entering => next.template \in cleaned
  BY <1>2
<1>17. cleaned \in SUBSET Template
  OBVIOUS
<1>18. entering => fresh(d) = Refresh(next, d, ListPaired)
  OBVIOUS
<1>19. ~entering => fresh(d) = {} /\ d = devices
  BY <1>3
<1>20. ~entering => ~(started /\ next.enabled)
  <2> SUFFICES ASSUME ~entering, started, next.enabled PROVE FALSE
    OBVIOUS
  <2>1. settings.enabled /\ next.template = settings.template
    OBVIOUS
  <2> QED
    BY <1>2, <1>4, <2>1, SettingIs
<1>21. ~entering /\ ~leaving => ~settings.enabled \/ (next.template = settings.template /\ next.enabled)
  OBVIOUS
<1>22. entering => started /\ next.enabled
  OBVIOUS
<1> HIDE DEF gone, off, fresh, cleaned, leaving, entering, moved
<1>24. PICK batch : batch = Then(Then(gone, off), fresh(d))
  OBVIOUS
<1>25. batch \in SUBSET Publication
  BY <1>10, <1>11, <1>12, <1>24, ThenTypes
<1>26. /\ Topics(batch) = Topics(gone) \cup Topics(off) \cup Topics(fresh(d))
       /\ fresh(d) \subseteq batch
       /\ batch \subseteq gone \cup off \cup fresh(d)
       /\ Functional(fresh(d)) => Functional(batch)
  <2>1. PICK first : first = Then(gone, off)
    OBVIOUS
  <2>2. Topics(first) = Topics(gone) \cup Topics(off) /\ Functional(first) /\ first \subseteq gone \cup off
    BY <1>7, <2>1, ThenSays
  <2>3. batch = Then(first, fresh(d))
    BY <1>24, <2>1
  <2>4. /\ Topics(batch) = Topics(first) \cup Topics(fresh(d))
        /\ fresh(d) \subseteq batch /\ batch \subseteq first \cup fresh(d)
        /\ Functional(first) /\ Functional(fresh(d)) => Functional(batch)
    BY <2>3, ThenSays
  <2> QED
    BY <2>2, <2>4
<1>27. CASE entering
  <2>1. fresh(d) = Refresh(next, d, ListPaired) /\ started /\ next.enabled
    BY <1>18, <1>22, <1>27
  <2>2. \A n \in ListPaired : Entry(d, n)
    BY <1>6, <1>27
  <2>3. /\ Functional(fresh(d))
        /\ Anew(next, d, ListPaired, online, populated) \subseteq fresh(d)
        /\ \A p \in fresh(d) : p[1][3] \in Keys => p \in Anew(next, d, ListPaired, online, populated)
        /\ <<ConnectedTopic(next.template), "2">> \in fresh(d)
    BY <1>1, <1>2, <1>6, <2>1, <2>2, RefreshSays DEF MqttTypes
  <2>4. PICK anew : anew = Anew(next, d, ListPaired, online, populated) /\ anew = Anew(settings', devices', ListPaired, online', populated)
    BY <1>3, <1>4
  <2>5. Functional(batch) /\ anew \subseteq batch /\ <<ConnectedTopic(settings'.template), "2">> \in batch
    BY <1>4, <1>26, <2>3, <2>4
  <2>6. \A p \in batch : p[2] # None /\ p[1][3] \in Keys => p \in anew
    BY <1>8, <1>26, <2>3, <2>4
  <2>7. \A t \in known : t[3] \in Keys /\ t[1] \in cleaned /\ t[1] # settings'.template => t \in Topics(batch)
    BY <1>4, <1>15, <1>26
  <2>8. settings'.template \in cleaned /\ \A t \in Topic : t[1] \notin cleaned => ~Live(t)
    BY <1>4, <1>14, <1>16, <1>27
  <2>9. started' /\ settings' \in Settings /\ settings'.enabled /\ Names(devices') /\ (\A n \in ListPaired : Entry(devices', n))
        /\ watched' \subseteq populated /\ val' = val
    BY <1>2, <1>3, <1>4, <1>6, <2>1, <2>2
  <2>10. Proper(batch, cleaned)
    BY <1>2, <1>5, <1>25, <2>4, <2>5, <2>6, <2>7, <2>8, <2>9, AnewProper
  <2>11. SaysProperly
    BY <1>3, <1>17, <1>24, <1>25, <2>10 DEF SaysProperly
  <2>12. Named'
    BY <1>4, <1>5, <2>1, <2>9 DEF Named
  <2> QED
    BY <2>11, <2>12
<1>28. CASE ~entering
  <2>1. fresh(d) = {} /\ ~(started /\ next.enabled)
    BY <1>19, <1>20, <1>28
  <2>2. Functional(batch)
    BY <1>26, <2>1 DEF Functional
  <2>3. \A p \in batch : ~(p[2] # None /\ p[1][3] \in Keys)
    BY <1>8, <1>26, <2>1
  <2>4. \A t \in Topic : t[1] \notin cleaned /\ Live(t) => Live(t)'
    <3> SUFFICES ASSUME NEW t \in Topic, t[1] \notin cleaned, Live(t) PROVE Live(t)'
      OBVIOUS
    <3>1. t[1] = settings.template /\ next.template = settings.template /\ next.enabled
      BY <1>13, <1>21, <1>28
    <3> QED
      BY <1>4, <2>1, <3>1 DEF Live
  <2>5. \A t \in known : t[3] \in Keys /\ t[1] \in cleaned => t \in Topics(batch)
    BY <1>15, <1>26, <1>28
  <2>6. \A p : ~Owed(p)'
    BY <1>4, <2>1 DEF Owed
  <2>7. Proper(batch, cleaned)
    BY <2>2, <2>3, <2>4, <2>5, <2>6 DEF Proper
  <2>8. SaysProperly
    BY <1>3, <1>17, <1>24, <1>25, <2>7 DEF SaysProperly
  <2>9. Named'
    BY <1>4, <2>1 DEF Named
  <2> QED
    BY <2>8, <2>9
<1> QED
  BY <1>27, <1>28

\* When every node has its name, none is given.
LEMMA NoneAssigned ==
  ASSUME NEW d0, Names(d0), NEW nodes \in SUBSET Node, \A n \in nodes : Entry(d0, n), NEW d \in EnsureNames(d0, nodes)
  PROVE  d = d0
<1>1. /\ Names(d)
      /\ \A n \in Node : Entry(d0, n) => d[n] = d0[n]
      /\ \A n \in Node : Entry(d, n) => n \in nodes \/ Entry(d0, n)
  BY Assigned
<1>2. \A n \in Node : d[n] = d0[n]
  BY <1>1 DEF Entry
<1> QED
  BY <1>1, <1>2 DEF Names

\* The entry of one node changes: what it said before is cleared when its name or
\* its switch changes, and its state is published under the new name.
LEMMA DeviceProper ==
  ASSUME TypeOK, Named, started, settings.enabled, NEW n \in Node, NEW name \in Name, NEW publish \in BOOLEAN,
         Entry(devices, n), NameFree(devices, n, name),
         UNCHANGED <<ctrl, paired, online, watched, val, settings, started>>,
         devices' = [devices EXCEPT ![n] = [name |-> name, publish |-> publish]], devices'[n] # devices[n],
         NEW clear \in BOOLEAN, clear <=> name # devices[n].name \/ ~publish,
         NEW gone, gone = IF clear THEN Clears({t \in Retained(settings.template) : t[2] = devices[n].name}
                                               \cup Stale(settings.template, devices', paired)) ELSE {},
         NEW shown, shown = IF publish /\ n \in paired THEN PublishNode(settings, devices', n, n \in online, populated) ELSE {},
         NEW cleaned, cleaned = IF clear THEN {settings.template} ELSE {}
  PROVE  Proper(Then(gone, shown), cleaned) /\ Named'
<1>1. /\ settings \in Settings /\ Names(devices) /\ val \in [Node -> Value] /\ paired \in SUBSET Node
      /\ watched \subseteq populated /\ known \subseteq Topic
  BY TypeParts DEF BridgeTypes, NodeTypes, MqttTypes
<1>2. ListPaired = paired /\ ListPaired' = paired /\ \A m \in paired : Entry(devices, m)
  BY DEF Named, ListPaired
<1>3. PICK d : d = devices'
  OBVIOUS
<1>4. Names(d)
  BY <1>1, <1>3, NewName
<1>5. PICK e \in Entries : e = [name |-> name, publish |-> publish] /\ e.name = name /\ e.publish = publish
  BY EntryMade
<1>6. d[n] = e /\ \A m \in Node \ {n} : d[m] = devices[m]
  BY <1>1, <1>3, <1>5 DEF Names
<1>7. Entry(d, n) /\ NameOf(d, n) = name /\ (Publishes(d, n) <=> publish) /\ d[n].name = name
  BY <1>5, <1>6, NoEntryApart DEF Entry, NameOf, Publishes
<1>8. \A m \in paired : Entry(d, m)
  BY <1>1, <1>2, <1>6, <1>7 DEF Entry
<1>9. Named'
  BY <1>2, <1>3, <1>8 DEF Named
<1>10. \A t : (Live(t) <=> LiveIn(settings, devices, paired, t)) /\ (Live(t)' <=> LiveIn(settings, d, paired, t))
  BY <1>2, <1>3 DEF Live, LiveIn
<1>11. \A p : (Owed(p) <=> OwedBy(settings, devices, paired, online, watched, val, p))
              /\ (Owed(p)' <=> OwedBy(settings, d, paired, online, watched, val, p))
  BY <1>2, <1>3 DEF Owed
<1>12. Functional(gone) /\ (\A p \in gone : p[2] = None)
       /\ (clear => Topics(gone) = {t \in Retained(settings.template) : t[2] = devices[n].name} \cup Stale(settings.template, d, paired))
  BY <1>3, ClearsSay DEF Functional
<1>13. \A t \in Topics(gone) : t[3] \in Keys /\ (t[2] = devices[n].name \/ ~Lives(d, paired, t))
  <2>1. ~clear => Topics(gone) = {}
    BY DEF Topics
  <2>2. \A t \in Stale(settings.template, d, paired) : t[3] \in Keys /\ ~Lives(d, paired, t)
    <3>1. Stale(settings.template, d, paired) \subseteq Retained(settings.template)
      BY DEF Stale
    <3> QED
      BY <1>1, <1>4, <3>1, NotStale DEF Retained, Settings
  <2>3. \A t \in Retained(settings.template) : t[3] \in Keys
    BY DEF Retained
  <2> QED
    BY <1>12, <2>1, <2>2, <2>3
<1>14. ASSUME NEW p \in shown
       PROVE  /\ p[1][2] = Place(settings.template, d, n) /\ p[1][3] \in Keys /\ LiveIn(settings, d, paired, p[1])
              /\ \A q \in shown : p[1] = q[1] => p = q
  <2>1. PICK up : up = (n \in online)
    OBVIOUS
  <2>2. n \in paired /\ shown = PublishNode(settings, d, n, up, populated)
    BY <1>3, <1>14, <2>1
  <2> QED
    BY <1>1, <1>4, <1>7, <1>14, <2>2, NodeSays
<1>15. Functional(shown)
  BY <1>14 DEF Functional
<1>16. PICK batch : batch = Then(gone, shown)
  OBVIOUS
<1>17. Functional(batch) /\ Topics(batch) = Topics(gone) \cup Topics(shown) /\ shown \subseteq batch /\ batch \subseteq gone \cup shown
  BY <1>12, <1>15, <1>16, ThenSays
<1>18. \A p \in batch : p[2] # None => Live(p[1])'
  BY <1>10, <1>12, <1>14, <1>17
<1>19. ASSUME NEW t \in Topic, t[1] \notin cleaned, Live(t)
       PROVE  Live(t)'
  <2>1. settings.enabled /\ t[1] = settings.template /\ ~clear /\ Lives(devices, paired, t)
    BY <1>10, <1>19 DEF LiveIn
  <2>2. name = devices[n].name /\ publish
    BY <2>1
  <2>3. ASSUME t[2] \in LiveNames(devices, paired)
        PROVE  t[2] \in LiveNames(d, paired)
    <3>1. PICK m \in paired : Entry(devices, m) /\ Publishes(devices, m) /\ t[2] = devices[m].name
      BY <2>3 DEF LiveNames
    <3>2. Entry(d, m) /\ Publishes(d, m) /\ d[m].name = devices[m].name
      BY <1>1, <1>6, <1>7, <2>2, <3>1 DEF Entry, Publishes
    <3> QED
      BY <3>1, <3>2 DEF LiveNames
  <2>4. Lives(d, paired, t)
    BY <2>1, <2>3 DEF Lives
  <2> QED
    BY <1>10, <2>1, <2>4 DEF LiveIn
<1>20. ASSUME NEW t \in known, t[3] \in Keys, t[1] \in cleaned, t \notin Topics(batch)
       PROVE  Live(t)'
  <2>1. clear /\ t[1] = settings.template
    BY <1>20
  <2>2. t \in Retained(settings.template)
    BY <1>20, <2>1 DEF Retained
  <2>3. t \notin Stale(settings.template, d, paired)
    BY <1>12, <1>17, <1>20, <2>1
  <2>4. Lives(d, paired, t)
    BY <1>1, <1>4, <2>2, <2>3, NotStale DEF Settings
  <2> QED
    BY <1>10, <2>1, <2>4 DEF LiveIn
<1>21. ASSUME NEW p \in Publication, Owed(p)'
       PROVE  p \in batch \/ (Owed(p) /\ p[1] \notin Topics(batch))
  <2>1. OwedBy(settings, d, paired, online, watched, val, p)
    BY <1>11, <1>21
  <2>2. \A t \in Topics(batch) : t[3] \in Keys
    <3>1. \A t \in Topics(shown) : t[3] \in Keys
      BY <1>14 DEF Topics
    <3> QED
      BY <1>13, <1>17, <3>1
  <2>3. CASE p = <<ConnectedTopic(settings.template), "2">>
    <3>1. Owed(p)
      BY <1>11, <2>3 DEF OwedBy
    <3>2. p[1] = ConnectedTopic(settings.template)
      BY <2>3
    <3>3. p[1] \notin Topics(batch)
      BY <2>2, <3>2, ConnectedApart
    <3> QED
      BY <3>1, <3>3
  <2>4. ASSUME NamedBy[settings.template] # "none", NEW m \in paired, Publishes(d, m),
               \/ p = OnlinePub(settings, d, m, m \in online)
               \/ m \in online /\ m \in watched /\ p = AttrPub(settings, d, m, val[m])
        PROVE  p \in batch \/ (Owed(p) /\ p[1] \notin Topics(batch))
    <3>1. CASE m = n
      <4>1. p \in PublishNode(settings, d, n, n \in online, populated)
        <5>1. m \in watched => m \in populated
          BY <1>1
        <5> QED
          BY <2>4, <3>1, <5>1, NodePubs
      <4>2. p \in shown
        BY <1>3, <1>7, <2>4, <3>1, <4>1
      <4> QED
        BY <1>17, <4>2
    <3>2. CASE m # n
      <4>1. m \in Node /\ d[m] = devices[m] /\ Entry(devices, m) /\ Entry(d, m) /\ Publishes(devices, m)
        BY <1>1, <1>2, <1>6, <1>8, <2>4, <3>2 DEF Publishes
      <4>2. Place(settings.template, d, m) = Place(settings.template, devices, m)
        BY <4>1 DEF Place, NameOf
      <4>3. \/ p = OnlinePub(settings, devices, m, m \in online)
            \/ m \in online /\ m \in watched /\ p = AttrPub(settings, devices, m, val[m])
        BY <2>4, <4>2 DEF OnlinePub, AttrPub
      <4>4. Owed(p)
        BY <1>11, <2>4, <4>1, <4>3 DEF OwedBy
      <4>5. Place(settings.template, devices, m) # devices[n].name
        <5>1. CASE NamedBy[settings.template] = "device"
          <6>1. Place(settings.template, devices, m) = devices[m].name
            BY <4>1, <5>1 DEF Place, NameOf
          <6> QED
            BY <1>1, <3>2, <4>1, <6>1 DEF Names
        <5>2. CASE NamedBy[settings.template] = "nodeId"
          <6>1. Place(settings.template, devices, m) = m /\ devices[n].name \in Name
            BY <1>1, <5>2, EntryIs DEF Place
          <6> QED
            BY <4>1, <6>1, BridgeAssumption DEF Name
        <5>3. NamedBy[settings.template] \in {"device", "nodeId", "none"}
          BY <1>1, BridgeAssumption DEF Settings
        <5> QED
          BY <2>4, <5>1, <5>2, <5>3
      <4>6. Place(settings.template, d, m) # Place(settings.template, d, n)
        BY <1>1, <1>4, <1>7, <2>4, <3>2, <4>1, NamesApart DEF Settings
      <4>7. p[1][1] = settings.template /\ p[1][2] = Place(settings.template, d, m)
        <5>1. p = OnlinePub(settings, d, m, m \in online) \/ p = AttrPub(settings, d, m, val[m])
          BY <2>4
        <5> QED
          BY <1>1, <5>1, SpokenParts
      <4>8. Lives(d, paired, p[1])
        <5>1. p[1][2] = Place(p[1][1], d, m)
          BY <4>7
        <5> QED
          BY <1>1, <1>4, <2>4, <4>1, <5>1, LiveName
      <4>9. p[1] \notin Topics(gone)
        <5>1. p[1][2] # devices[n].name
          BY <4>2, <4>5, <4>7
        <5>2. PICK t : t = p[1]
          OBVIOUS
        <5>3. Lives(d, paired, t) /\ t[2] # devices[n].name
          BY <4>8, <5>1, <5>2
        <5>4. t \notin Topics(gone)
          BY <1>13, <5>3, Zenon
        <5> QED
          BY <5>2, <5>4
      <4>10. p[1] \notin Topics(shown)
        <5>1. ASSUME NEW t \in Topics(shown)
              PROVE  t[2] = Place(settings.template, d, n)
          <6>1. PICK q \in shown : t = q[1]
            BY DEF Topics
          <6>2. q[1][2] = Place(settings.template, d, n)
            BY <1>14
          <6> QED
            BY <6>1, <6>2
        <5> QED
          BY <4>6, <4>7, <5>1
      <4> QED
        BY <1>17, <4>4, <4>9, <4>10
    <3> QED
      BY <3>1, <3>2
  <2> QED
    BY <2>1, <2>3, <2>4 DEF OwedBy
<1> QED
  BY <1>9, <1>16, <1>17, <1>18, <1>19, <1>20, <1>21 DEF Proper

LEMMA DeviceSays ==
  ASSUME TypeOK, Named, NEW n \in Node, NEW name \in Name, NEW publish \in BOOLEAN, SetDevice(n, name, publish)
  PROVE  SaysProperly /\ Named'
<1>1. NodeTypes /\ BridgeTypes /\ MqttTypes
  BY TypeParts
<1>2. settings \in Settings /\ Names(devices) /\ paired \in SUBSET Node
  BY <1>1 DEF BridgeTypes, NodeTypes
<1>3. UNCHANGED <<ctrl, paired, online, populated, watched, val, settings, started>>
  BY DEF SetDevice, nodeVars
<1> DEFINE after(named) == [named EXCEPT ![n] = [name |-> name, publish |-> publish]]
           clear(named) == name # named[n].name \/ ~publish
           gone(named) == IF clear(named) THEN Clears({t \in Retained(settings.template) : t[2] = named[n].name}
                                                      \cup Stale(settings.template, after(named), ListPaired)) ELSE {}
           shown(named) == IF publish /\ n \in ListPaired THEN PublishNode(settings, after(named), n, n \in online, populated) ELSE {}
           cleaned(named) == IF clear(named) THEN {settings.template} ELSE {}
<1>4. PICK named \in EnsureNames(devices, ListPaired) :
        /\ Entry(named, n) /\ NameFree(named, n, name)
        /\ devices' = after(named)
        /\ IF after(named)[n] # named[n] /\ settings.enabled /\ started
             THEN Send(Then(gone(named), shown(named)), cleaned(named))
             ELSE Silent
  BY DEF SetDevice
<1>5. CASE started /\ settings.enabled
  <2>1. ListPaired = paired /\ \A m \in paired : Entry(devices, m)
    BY <1>5 DEF Named, ListPaired
  <2>2. named = devices
    BY <1>2, <1>4, <2>1, NoneAssigned
  <2>3. CASE after(devices)[n] # devices[n]
    <3>1. PICK c \in BOOLEAN : c <=> clear(devices)
      OBVIOUS
    <3>2. gone(devices) = IF c THEN Clears({t \in Retained(settings.template) : t[2] = devices[n].name}
                                           \cup Stale(settings.template, devices', paired)) ELSE {}
      BY <1>4, <2>1, <2>2, <3>1
    <3>3. shown(devices) = IF publish /\ n \in paired THEN PublishNode(settings, devices', n, n \in online, populated) ELSE {}
      BY <1>4, <2>1, <2>2
    <3>4. cleaned(devices) = IF c THEN {settings.template} ELSE {}
      BY <3>1
    <3>5. Entry(devices, n) /\ NameFree(devices, n, name) /\ devices'[n] # devices[n]
          /\ devices' = [devices EXCEPT ![n] = [name |-> name, publish |-> publish]]
      BY <1>4, <2>2, <2>3
    <3>6. c <=> name # devices[n].name \/ ~publish
      BY <3>1
    <3>7. Send(Then(gone(devices), shown(devices)), cleaned(devices))
      BY <1>4, <1>5, <2>2, <2>3
    <3> HIDE DEF gone, shown, cleaned, after, clear
    <3>8. Proper(Then(gone(devices), shown(devices)), cleaned(devices)) /\ Named'
      BY <1>3, <1>5, <3>2, <3>3, <3>4, <3>5, <3>6, DeviceProper
    <3>9. Names(devices')
      BY <1>2, <3>5, NewName
    <3>10. Then(gone(devices), shown(devices)) \in SUBSET Publication
      <4>1. shown(devices) \in SUBSET Publication
        <5>1. PICK d, up : d = devices' /\ up = (n \in online)
          OBVIOUS
        <5>2. Names(d) /\ val \in [Node -> Value]
          BY <1>1, <3>9, <5>1 DEF NodeTypes
        <5>3. PublishNode(settings, d, n, up, populated) \in SUBSET (Topic \X Payload)
          BY <1>2, <5>2, NodePubTypes
        <5>4. PublishNode(settings, d, n, up, populated) \in SUBSET Publication
          BY <5>3, Pubs
        <5> QED
          BY <3>3, <5>1, <5>4
      <4>2. gone(devices) \in SUBSET Publication
        <5>1. {t \in Retained(settings.template) : t[2] = devices[n].name} \cup Stale(settings.template, devices', paired) \in SUBSET Topic
          <6>1. known \subseteq Topic
            BY <1>1 DEF MqttTypes
          <6>2. Retained(settings.template) \subseteq known /\ Stale(settings.template, devices', paired) \subseteq known
            BY DEF Retained, Stale
          <6> QED
            BY <6>1, <6>2
        <5>2. Clears({t \in Retained(settings.template) : t[2] = devices[n].name} \cup Stale(settings.template, devices', paired)) \in SUBSET Publication
          BY <5>1, ClearTypes
        <5> QED
          BY <3>2, <5>2
      <4> QED
        BY <4>1, <4>2, ThenTypes
    <3>11. cleaned(devices) \in SUBSET Template
      BY <1>2, <3>4 DEF Settings
    <3> QED
      BY <3>7, <3>8, <3>10, <3>11 DEF SaysProperly
  <2>4. CASE after(devices)[n] = devices[n]
    <3>1. Silent /\ devices' = after(devices)
      BY <1>4, <2>2, <2>4
    <3>2. devices' = devices
      BY <1>2, <2>4, <3>1 DEF Names
    <3> HIDE DEF after
    <3> QED
      BY <1>1, <1>3, <3>1, <3>2, SameOwed, QuietSays
  <2> QED
    BY <2>3, <2>4
<1>6. CASE ~(started /\ settings.enabled)
  <2>1. Silent
    BY <1>4, <1>6
  <2>2. Named'
    BY <1>3, <1>6 DEF Named
  <2> QED
    BY <1>1, <1>3, <1>6, <2>1, <2>2, NothingSays
<1> QED
  BY <1>5, <1>6

\* A refused request: the nodes that are named by it have nothing published yet.
LEMMA RefuseSays ==
  ASSUME TypeOK, Named, RefuseDevice
  PROVE  SaysProperly /\ Named'
<1>1. NodeTypes /\ BridgeTypes /\ MqttTypes
  BY TypeParts
<1>2. Names(devices) /\ paired \in SUBSET Node /\ devices' \in EnsureNames(devices, ListPaired) /\ Silent
  BY <1>1 DEF BridgeTypes, NodeTypes, RefuseDevice
<1>3. UNCHANGED <<ctrl, paired, online, populated, watched, val, settings, started>>
  BY DEF RefuseDevice, nodeVars
<1>4. CASE started /\ settings.enabled
  <2>1. ListPaired = paired /\ \A m \in paired : Entry(devices, m)
    BY <1>4 DEF Named, ListPaired
  <2>2. devices' = devices
    BY <1>2, <2>1, NoneAssigned
  <2> QED
    BY <1>1, <1>2, <1>3, <2>2, SameOwed, QuietSays
<1>5. CASE ~(started /\ settings.enabled)
  <2>1. Named'
    BY <1>3, <1>5 DEF Named
  <2> QED
    BY <1>1, <1>2, <1>3, <1>5, <2>1, NothingSays
<1> QED
  BY <1>4, <1>5

-----------------------------------------------------------------------------
(* The invariant holds *)

LEMMA NodeInv ==
  ASSUME TypeOK, Named, NodeStep
  PROVE  SaysProperly /\ Named'
<1>1. NodeTypes /\ MqttTypes
  BY TypeParts
<1>2. CASE ControllerUp
  <2>1. ~started /\ Silent /\ settings' = settings /\ started' = started
    BY <1>2 DEF ControllerUp, Named
  <2>2. Named'
    BY <2>1 DEF Named
  <2> QED
    BY <1>1, <2>1, <2>2, NothingSays
<1>3. ASSUME NEW n \in Node, Commission(n)
      PROVE  SaysProperly /\ Named'
  <2>1. ctrl /\ ctrl' /\ val' = val /\ settings' = settings /\ started' = started
        /\ OnDeviceList(paired', online', populated')
    BY <1>3 DEF Commission
  <2>2. paired' \in SUBSET Node /\ watched' \subseteq populated'
    BY <1>1, <1>3 DEF Commission, NodeTypes
  <2> QED
    BY <2>1, <2>2, DeviceListSays
<1>4. ASSUME NEW n \in Node, Unpair(n)
      PROVE  SaysProperly /\ Named'
  <2>1. ctrl /\ ctrl' /\ val' = val /\ settings' = settings /\ started' = started
        /\ OnDeviceList(paired', online', populated)
    BY <1>4 DEF Unpair
  <2>2. paired' \in SUBSET Node /\ watched' \subseteq populated
    BY <1>1, <1>4 DEF Unpair, NodeTypes
  <2> QED
    BY <2>1, <2>2, DeviceListSays
<1>5. ASSUME NEW n \in Node, Relabel(n)
      PROVE  SaysProperly /\ Named'
  <2>1. ctrl /\ ctrl' /\ UNCHANGED <<paired, online, watched, val, settings, started>>
        /\ OnDeviceList(paired, online, populated)
    BY <1>5 DEF Relabel, nodeVars
  <2>2. paired \in SUBSET Node /\ watched \subseteq populated
    BY <1>1 DEF NodeTypes
  <2> QED
    BY <2>1, <2>2, DeviceListSays
<1>6. ASSUME NEW n \in Node, Populate(n)
      PROVE  SaysProperly /\ Named'
  <2>1. UNCHANGED <<ctrl, paired, online, watched, val, settings, devices, started>> /\ Silent
    BY <1>6 DEF Populate
  <2> QED
    BY <1>1, <2>1, SameOwed, QuietSays
<1>7. ASSUME NEW n \in Node, Online(n) \/ Offline(n)
      PROVE  SaysProperly /\ Named'
  BY <1>7, OnlineSays, OfflineSays
<1>8. ASSUME NEW n \in Node, NEW v \in Value, Report(n, v)
      PROVE  SaysProperly /\ Named'
  BY <1>8, ReportSays
<1> QED
  BY <1>2, <1>3, <1>4, <1>5, <1>6, <1>7, <1>8 DEF NodeStep

LEMMA BridgeInv ==
  ASSUME TypeOK, EarlyStart = FALSE, Named, BridgeStep
  PROVE  SaysProperly /\ Named'
<1>1. CASE Start
  BY <1>1, StartSays
<1>2. ASSUME NEW next \in [enabled : BOOLEAN, template : Template], UpdateSettings(next)
      PROVE  SaysProperly /\ Named'
  <2>1. next \in Settings
    BY DEF Settings
  <2> QED
    BY <1>2, <2>1, SettingsSay
<1>3. ASSUME NEW n \in Node, NEW name \in Name, NEW publish \in BOOLEAN, SetDevice(n, name, publish)
      PROVE  SaysProperly /\ Named'
  BY <1>3, DeviceSays
<1>4. ASSUME NEW n \in Node, Get(n)
      PROVE  SaysProperly /\ Named'
  BY <1>4, GetSays
<1>5. CASE RefuseDevice
  BY <1>5, RefuseSays
<1> QED
  BY <1>1, <1>2, <1>3, <1>4, <1>5 DEF BridgeStep

LEMMA InvInit == Init => Inv
<1> SUFFICES ASSUME Init PROVE Inv
  OBVIOUS
<1>1. out = <<>> /\ started = FALSE /\ connected = FALSE /\ retained = [t \in Topic |-> None]
  BY DEF Init
<1>2. DOMAIN out = {}
  BY <1>1
<1>3. Connection /\ Named
  BY <1>1, <1>2 DEF Connection, OneEach, Replay, Known, Named
<1>4. Cleared
  BY <1>1, EmptySays DEF Cleared, Ends
<1>5. Paid
  BY <1>1 DEF Paid, Owed
<1> QED
  BY <1>3, <1>4, <1>5 DEF Inv

LEMMA InvStep ==
  ASSUME TypeOK, TypeOK', EarlyStart = FALSE, Inv, [Next]_vars
  PROVE  Inv'
<1>1. Named
  BY DEF Inv
<1>2. CASE NodeStep
  BY <1>1, <1>2, NodeInv, SaysStep
<1>3. CASE BridgeStep
  BY <1>1, <1>3, BridgeInv, SaysStep
<1>4. CASE Deliver
  BY <1>4, DeliverStep
<1>5. CASE Connect
  BY <1>5, ConnectStep
<1>6. CASE Close
  BY <1>6, CloseStep
<1>7. CASE Restart
  BY <1>7, RestartStep
<1>8. CASE UNCHANGED vars
  <2>1. UNCHANGED <<ctrl, paired, online, watched, val, settings, devices, started>>
        /\ UNCHANGED <<connected, known, out, retained, lost, unsettled>>
    BY <1>8 DEF vars
  <2>2. SaysProperly /\ Named'
    <3>1. Silent
      BY <2>1 DEF Silent
    <3>2. MqttTypes
      BY TypeParts
    <3> QED
      BY <1>1, <2>1, <3>1, <3>2, SameOwed, QuietSays
  <2> QED
    BY <2>2, SaysStep
<1> QED
  BY <1>2, <1>3, <1>4, <1>5, <1>6, <1>7, <1>8 DEF Next

LEMMA Invariance ==
  ASSUME EarlyStart = FALSE
  PROVE  Spec => []Inv
<1>1. TypeOK /\ TypeOK' /\ Inv /\ [Next]_vars => Inv'
  BY InvStep
<1> QED
  BY <1>1, InvInit, TypeCorrect, PTL DEF Spec

LEMMA QuietEnds == TypeOK /\ Quiet => \A t, v : Ends(t, v) => retained[t] = v
<1> SUFFICES ASSUME out = <<>>, NEW t, NEW v, Ends(t, v) PROVE retained[t] = v
  BY DEF Quiet
<1> QED
  BY EmptySays DEF Ends

\* No retained topic outlives a disabled bridge, an old template or an unpaired node,
\* nor, where its MQTT name is in the topic, a node that was renamed or switched off:
\* `_cleanup` of mqtt-bridge.js finds in the state store all that is to be cleared, but
\* never takes a paired node's id, or a topic that names no node, for stale.  The bridge
\* has to wait for the controller (EarlyStart = FALSE).
THEOREM NothingOutlives ==
  ASSUME EarlyStart = FALSE
  PROVE  Spec => []NothingStale
<1>1. TypeOK /\ Inv => NothingStale
  <2> SUFFICES ASSUME TypeOK, Inv, Quiet, NEW t \in Topic, retained[t] # None, t[3] \in Keys, t[1] \notin unsettled
               PROVE  settings.enabled /\ t[1] = settings.template /\ Lives(devices, ListPaired, t)
    BY DEF NothingStale, Remaining, Lives
  <2>1. ~Ends(t, None)
    BY QuietEnds
  <2>2. Live(t)
    BY <2>1 DEF Inv, Cleared
  <2> QED
    BY <2>2 DEF Live, Quiet
<1> QED
  BY <1>1, Invariance, TypeCorrect, PTL

\* Once all has arrived the retained topics show the current state of every bridged
\* node, or their last publication was dropped by _out or lost on its way: start,
\* updateSettings, setDevice and the handlers of the controller's events publish all
\* that an event changes.  The bridge has to wait for the controller.
THEOREM CurrentShown ==
  ASSUME EarlyStart = FALSE
  PROVE  Spec => []Current
<1>1. TypeOK /\ Inv => Current
  <2> SUFFICES ASSUME TypeOK, Inv, Quiet, settings.enabled,
                      NEW p \in {<<ConnectedTopic(settings.template), "2">>}
                                \cup PublishAll(settings, devices, ListPaired, online, populated)
               PROVE  \/ retained[p[1]] = p[2]
                      \/ p[1] \in lost
                      \/ p[1][3] = "attribute" /\ \E n \in ListPaired \ watched : Place(settings.template, devices, n) = p[1][2]
                      \/ p[1][3] \in Keys /\ NamedBy[settings.template] = "none"
    BY DEF Current
  <2>1. started
    BY DEF Quiet
  <2>2. ASSUME Owed(p)
        PROVE  retained[p[1]] = p[2] \/ p[1] \in lost
    <3>1. p \in Publication
      BY <2>2, OwedTypes DEF OwedTyped
    <3>2. Ends(p[1], p[2]) \/ Missing(p[1])
      BY <2>2, <3>1 DEF Inv, Paid
    <3> QED
      BY <3>2, QuietEnds DEF Missing
  <2>3. CASE p = <<ConnectedTopic(settings.template), "2">>
    <3>1. Owed(p)
      BY <2>1, <2>3 DEF Owed, OwedBy
    <3> QED
      BY <2>2, <3>1
  <2>4. CASE p \in PublishAll(settings, devices, ListPaired, online, populated)
    <3>1. PICK n \in ListPaired : p \in PublishNode(settings, devices, n, n \in online, populated)
      BY <2>4 DEF PublishAll, Lasting
    <3>2. /\ Publishes(devices, n)
          /\ \/ p = OnlinePub(settings, devices, n, n \in online)
             \/ n \in online /\ p = AttrPub(settings, devices, n, val[n])
      <4>1. PICK up : up = (n \in online)
        OBVIOUS
      <4>2. p \in PublishNode(settings, devices, n, up, populated)
        BY <3>1, <4>1
      <4>3. /\ settings.enabled /\ Publishes(devices, n)
            /\ \/ p = OnlinePub(settings, devices, n, up)
               \/ up /\ n \in populated /\ p = AttrPub(settings, devices, n, val[n])
        BY <4>2, NodePubs
      <4> QED
        BY <4>1, <4>3
    <3>3. ASSUME OwedBy(settings, devices, ListPaired, online, watched, val, p)
          PROVE  retained[p[1]] = p[2] \/ p[1] \in lost
      BY <2>1, <2>2, <3>3 DEF Owed
    <3>4. CASE p = OnlinePub(settings, devices, n, n \in online) /\ NamedBy[settings.template] # "none"
      <4>1. \E m \in ListPaired : Publishes(devices, m) /\ p = OnlinePub(settings, devices, m, m \in online)
        BY ZenonT(30), <3>2, <3>4
      <4> QED
        BY <3>3, <3>4, <4>1 DEF OwedBy
    <3>5. CASE n \in watched /\ n \in online /\ p = AttrPub(settings, devices, n, val[n]) /\ NamedBy[settings.template] # "none"
      <4>1. \E m \in ListPaired : /\ Publishes(devices, m) /\ m \in online /\ m \in watched
                                   /\ p = AttrPub(settings, devices, m, val[m])
        BY ZenonT(30), <3>2, <3>5
      <4> QED
        BY <3>3, <3>5, <4>1 DEF OwedBy
    <3>6. CASE p = AttrPub(settings, devices, n, val[n]) /\ n \notin watched
      <4>1. settings \in Settings
        BY TypeParts DEF BridgeTypes
      <4>2. PICK v : v = val[n]
        OBVIOUS
      <4>3. p = AttrPub(settings, devices, n, v)
        BY <3>6, <4>2
      <4>4. AttrPub(settings, devices, n, v)[1][2] = Place(settings.template, devices, n) /\ AttrPub(settings, devices, n, v)[1][3] = "attribute"
        BY DEF AttrPub
      <4> QED
        BY <3>6, <4>3, <4>4
    <3>7. p[1][3] \in Keys
      <4>1. settings \in Settings
        BY TypeParts DEF BridgeTypes
      <4>2. PICK up, v : up = (n \in online) /\ v = val[n]
        OBVIOUS
      <4>3. p = OnlinePub(settings, devices, n, up) \/ p = AttrPub(settings, devices, n, v)
        BY <3>2, <4>2
      <4> QED
        BY <4>1, <4>3, SpokenParts
    <3> QED
      BY <3>2, <3>4, <3>5, <3>6, <3>7
  <2> QED
    BY <2>3, <2>4
<1> QED
  BY <1>1, Invariance, TypeCorrect, PTL
=============================================================================
