------------------------------ MODULE VarSync ------------------------------
(***************************************************************************)
(* One variable of smart-home-engine (src/index.js: setVariable, the       *)
(* 'message' handler): its entry var::<name> in the state store, the       *)
(* compatibility entry mqtt::<prefix>/status/<name>, the value the broker  *)
(* retains, and what subscribers were told.  Scripts and other clients set *)
(* it, and the daemon, subscribed to #, reads its own publications back.   *)
(***************************************************************************)
EXTENDS Integers, Sequences

CONSTANTS
    Vals,       \* values of the variable
    Faults,     \* subset of AllFaults
    MaxSets,    \* bound: writes by scripts and clients
    MaxClock,   \* bound: the clock in ms
    MaxFaults   \* bound: faults

\* "foreign": a client publishes <prefix>/status/<name> itself
\* "clear":   a client clears the retained topic with an empty payload
\* "close":   the connection breaks and what is under way is lost
\* "offline": scripts run without a connection or the retained values
\* "restart": the daemon is killed and starts with an empty store
AllFaults == {"foreign", "clear", "close", "offline", "restart"}

\* "overlap", which is no fault: a write while a publication is under way

NoVal == "none"  \* nothing stored, retained or seen
Empty == "empty" \* the '' an empty payload is dispatched with

ASSUME VarSyncOK ==
    /\ Vals \cap {NoVal, Empty} = {}
    /\ Faults \subseteq AllFaults
    /\ {MaxSets, MaxClock, MaxFaults} \subseteq Nat /\ MaxClock > 0

VARIABLES
    mqttEntry, \* store['mqtt::<prefix>/status/<name>']
    varEntry,  \* store['var::<name>']
    connected, \* the daemon has a connection and is subscribed
    started,   \* scripts run: the sentinel of the first connection has come back
    up,        \* publications on their way to the broker
    down,      \* messages on their way to the daemon
    retained,  \* what the broker retains for <prefix>/status/<name>
    clock,     \* Date.now()
    anySub,    \* value a { retain: true } subscription saw last
    changeSub, \* value a { retain: true, change: true } subscription saw last
    lastSet,   \* value of the last write the daemon carried out (history)
    happened,  \* the kinds of faults so far, and "overlap" (history)
    sets, faults \* counts (bounds only)

storeVars == <<mqttEntry, varEntry, anySub, changeSub>>
wireVars == <<connected, started, up, down, retained>>
varSyncVars == <<storeVars, wireVars, clock, lastSet, happened, sets, faults>>

State == [val : Vals, ts : Nat, lc : Nat]
None == [val |-> NoVal, ts |-> 0, lc |-> 0]

\* A payload without ts and lc: what other clients publish.
Plain(v) == [val |-> v, ts |-> 0, lc |-> 0]

Set == [type : {"set"}, val : Vals]
Status == [type : {"status"}, st : State]
Publication(st) == [type |-> "status", st |-> st]
Clear == [type : {"clear"}]
Sentinel == [type : {"sentinel"}]

\* Date.now(): writes may share a millisecond.
Now == {clock, clock + 1} \cap 1 .. MaxClock

\* A publication is under way, to the broker or back.
Overlap == IF \E m \in {up[i] : i \in DOMAIN up} \cup {down[i] : i \in DOMAIN down} : m.type = "status"
           THEN {"overlap"} ELSE {}

-----------------------------------------------------------------------------
(* The daemon *)

\* stateChange for both subscriptions.
StateChange(val, oldVal) ==
    /\ anySub' = val
    /\ changeSub' = IF val = oldVal THEN changeSub ELSE val

\* What setVariable does; a connected daemon publishes what differs from known.
SetAndPublish(v, known) ==
    /\ (connected /\ started) \/ "offline" \in Faults
    /\ sets < MaxSets /\ sets' = sets + 1
    /\ \E ts \in Now :
        LET st == [val |-> v, ts |-> ts, lc |-> IF v = varEntry.val THEN varEntry.lc ELSE ts]
        IN  /\ clock' = ts
            /\ varEntry' = st /\ mqttEntry' = st
            /\ StateChange(v, varEntry.val)
            /\ up' = IF connected /\ v # known THEN Append(up, Publication(st)) ELSE up
    /\ lastSet' = v
    /\ happened' = happened \cup Overlap \cup (IF connected /\ started THEN {} ELSE {"offline"})
    /\ UNCHANGED <<connected, started, down, retained, faults>>

\* A mutant: "changed" asks the compatibility entry.
MutSetVariable(v) == SetAndPublish(v, mqttEntry.val)
SetVariable(v) == SetAndPublish(v, varEntry.val)

\* <prefix>/set/<name>: store both, dispatch, publish whatever it was.
StoreSet(m, dispatched, publishes) ==
    /\ m.type = "set"
    /\ \E ts \in Now :
        LET st == [val |-> m.val, ts |-> ts,
                   lc |-> IF m.val = mqttEntry.val THEN mqttEntry.lc ELSE ts]
        IN  /\ clock' = ts
            /\ mqttEntry' = st /\ varEntry' = st
            /\ up' = IF publishes THEN Append(up, Publication(st)) ELSE up
    /\ IF dispatched THEN StateChange(m.val, mqttEntry.val) ELSE UNCHANGED <<anySub, changeSub>>
    /\ lastSet' = m.val

\* Mutants: subscribers are left to the echo (what the code once did); the write
\* is not published.
MutOnSet(m) == StoreSet(m, FALSE, TRUE)
MutOnSetSilent(m) == StoreSet(m, TRUE, FALSE)
OnSet(m) == StoreSet(m, TRUE, TRUE)

\* <prefix>/status/<name>: our own echo if it is what is stored, else a change.
OnStatus(m) ==
    /\ m.type = "status"
    /\ \E ts \in (IF m.st.ts = 0 THEN Now ELSE {m.st.ts}) :
        LET lc == IF m.st.lc # 0 THEN m.st.lc
                  ELSE IF mqttEntry.val # m.st.val \/ mqttEntry.lc = 0 THEN ts ELSE mqttEntry.lc
        IN  /\ clock' = IF m.st.ts = 0 THEN ts ELSE clock
            /\ IF mqttEntry = [m.st EXCEPT !.ts = ts]
               THEN UNCHANGED <<mqttEntry, anySub, changeSub>>
               ELSE /\ mqttEntry' = [val |-> m.st.val, ts |-> ts, lc |-> lc]
                    /\ StateChange(m.st.val, mqttEntry.val)
    /\ UNCHANGED <<varEntry, up, lastSet>>

\* An empty payload drops both entries and is dispatched with val ''.
OnClear(m) ==
    /\ m.type = "clear"
    /\ mqttEntry' = None /\ varEntry' = None
    /\ StateChange(Empty, mqttEntry.val)
    /\ \E ts \in Now : clock' = ts
    /\ UNCHANGED <<up, lastSet>>

\* The sentinel of the first connection: scripts start.
OnSentinel(m) ==
    /\ m.type = "sentinel"
    /\ started' = TRUE
    /\ UNCHANGED <<storeVars, up, clock, lastSet>>

Receive ==
    /\ down # <<>>
    /\ down' = Tail(down)
    /\ \/ (OnSet(Head(down)) \/ OnStatus(Head(down)) \/ OnClear(Head(down))) /\ UNCHANGED started
       \/ OnSentinel(Head(down))
    /\ happened' = happened \cup IF Head(down).type = "set" THEN Overlap ELSE {}
    /\ UNCHANGED <<connected, retained, sets, faults>>

\* on('connect'): subscribe to # and publish the sentinel; the broker delivers
\* what it retains, then the sentinel.
Connect ==
    /\ ~connected
    /\ connected' = TRUE
    /\ down' = (IF retained = None THEN <<>>
                ELSE <<[type |-> "status", st |-> retained]>>)
               \o (IF started THEN <<>> ELSE <<[type |-> "sentinel"]>>)
    /\ UNCHANGED <<storeVars, started, up, retained, clock, lastSet, happened, sets, faults>>

-----------------------------------------------------------------------------
(* The broker, other clients, faults *)

BrokerStatus ==
    /\ up # <<>>
    /\ up' = Tail(up)
    /\ retained' = Head(up).st
    /\ down' = Append(down, Head(up))
    /\ UNCHANGED <<storeVars, connected, started, clock, lastSet, happened, sets, faults>>

ClientSet(v) ==
    /\ sets < MaxSets /\ sets' = sets + 1
    /\ connected
    /\ down' = Append(down, [type |-> "set", val |-> v])
    /\ UNCHANGED <<storeVars, connected, started, up, retained, clock, lastSet, happened, faults>>

Fault(kind) ==
    /\ kind \in Faults
    /\ faults < MaxFaults /\ faults' = faults + 1
    /\ happened' = happened \cup {kind}

ClientStatus(v) ==
    /\ Fault("foreign")
    /\ retained' = Plain(v)
    /\ down' = IF connected THEN Append(down, [type |-> "status", st |-> Plain(v)]) ELSE down
    /\ UNCHANGED <<storeVars, connected, started, up, clock, lastSet, sets>>

ClientClear ==
    /\ Fault("clear")
    /\ retained' = None
    /\ down' = IF connected THEN Append(down, [type |-> "clear"]) ELSE down
    /\ UNCHANGED <<storeVars, connected, started, up, clock, lastSet, sets>>

Close ==
    /\ Fault("close")
    /\ connected
    /\ connected' = FALSE /\ up' = <<>> /\ down' = <<>>
    /\ UNCHANGED <<storeVars, started, retained, clock, lastSet, sets>>

Restart ==
    /\ Fault("restart")
    /\ connected' = FALSE /\ started' = FALSE /\ up' = <<>> /\ down' = <<>>
    /\ mqttEntry' = None /\ varEntry' = None
    /\ anySub' = NoVal /\ changeSub' = NoVal
    /\ UNCHANGED <<retained, clock, lastSet, sets>>

-----------------------------------------------------------------------------

VarInit ==
    /\ mqttEntry = None /\ varEntry = None
    /\ connected = FALSE /\ started = FALSE
    /\ up = <<>> /\ down = <<>>
    /\ retained \in {None} \cup {[val |-> v, ts |-> 1, lc |-> 1] : v \in Vals} \* from an earlier run
    /\ clock = 1
    /\ anySub = NoVal /\ changeSub = NoVal
    /\ lastSet = NoVal /\ happened = {}
    /\ sets = 0 /\ faults = 0

VarNext ==
    \/ \E v \in Vals : SetVariable(v) \/ ClientSet(v) \/ ClientStatus(v)
    \/ Receive \/ Connect \/ BrokerStatus
    \/ ClientClear \/ Close \/ Restart

VarSpec == VarInit /\ [][VarNext]_varSyncVars

\* The client reconnects, and messages on an open connection arrive.
FairVarSpec == VarSpec /\ WF_varSyncVars(Connect) /\ WF_varSyncVars(Receive) /\ WF_varSyncVars(BrokerStatus)

-----------------------------------------------------------------------------
(* Properties *)

\* Every variable has its type; '' is never stored (the empty-payload branch of
\* the 'message' handler).
VarTypeOK ==
    /\ {mqttEntry, varEntry, retained} \subseteq State \cup {None}
    /\ {connected, started} \subseteq BOOLEAN
    /\ up \in Seq(Status)
    /\ down \in Seq(Set \cup Status \cup Clear \cup Sentinel)
    /\ clock \in 0 .. MaxClock
    /\ {anySub, changeSub} \subseteq Vals \cup {NoVal, Empty}
    /\ lastSet \in Vals \cup {NoVal}
    /\ happened \subseteq AllFaults \cup {"overlap"}
    /\ {sets, faults} \subseteq Nat

\* Nothing is under way between the daemon and the broker.
VarQuiet == connected /\ up = <<>> /\ down = <<>>

\* Once its publications have come back, the store's two entries and the broker
\* all hold the value written last, however writes of scripts and clients and
\* their echoes overlapped, unless something failed or somebody else published.
LastSetWins ==
    VarQuiet /\ lastSet # NoVal /\ happened \subseteq {"overlap"} =>
        /\ mqttEntry.val = lastSet
        /\ varEntry.val = lastSet
        /\ retained.val = lastSet

\* A subscription has seen the value the store holds: no change goes unseen.  So has
\* one that asks for changes only, unless the two entries of the variable differed
\* for a while: by the echo of an earlier write that met a later one, by somebody
\* else's publication, or by a restart or a lost connection.
SubscriberCurrent ==
    LET sees(sub) == sub = mqttEntry.val \/ (mqttEntry = None /\ sub = Empty)
    IN  sees(anySub) /\ (happened \subseteq {"clear"} => sees(changeSub))

\* Once nobody writes, the store agrees with the broker for good, also when the
\* topic is cleared or the daemon restarts while writes are under way.
Agrees == <>[](happened \subseteq {"clear", "restart", "overlap"} => mqttEntry.val = retained.val)
=============================================================================
