----------------------------- MODULE StartGate -----------------------------
(***************************************************************************)
(* When the script engine starts (src/index.js): not before the broker has *)
(* delivered every retained message and the Matter controller is up, and   *)
(* not much later than that either, whatever the broker does.              *)
(*                                                                         *)
(* Two gates must open.  The MQTT gate is opened by the daemon's own       *)
(* sentinel message coming back, by the timeout armed at each connect, or  *)
(* by the timeout armed at boot.  The Matter gate is opened by the end of  *)
(* the controller's init or by a timeout.  Time is counted in units; a     *)
(* timer that is due fires before time goes on.                            *)
(***************************************************************************)
EXTENDS Integers, Sequences, FiniteSets

CONSTANTS
    Topics,          \* topics the broker holds a retained message for
    Broker,          \* a broker url is configured
    Matter,          \* matterStorage is configured
    StartupTimeout,  \* _STARTUP_TIMEOUT_MS
    SentinelTimeout, \* _SENTINEL_TIMEOUT_MS (config.sentinelTimeout)
    MatterTimeout,   \* the 30 s of _matterStartTimeout
    MaxConnects,     \* bound: connections in a behaviour
    MaxUptime        \* bound: time in a behaviour

ASSUME StartGateOK ==
    /\ IsFiniteSet(Topics)
    /\ Broker \in BOOLEAN /\ Matter \in BOOLEAN
    /\ StartupTimeout \in Nat \ {0} /\ MatterTimeout \in Nat \ {0}
    /\ SentinelTimeout \in Nat /\ MaxConnects \in Nat /\ MaxUptime \in Nat

None == 0 \* no connection, no timer, no sentinel
Conns == 1 .. MaxConnects

VARIABLES
    sinceBoot,      \* time since boot
    started,        \* _started
    mqttGate,       \* _mqttGate
    matterGate,     \* _matterGate
    matterDue,      \* _matterStartTimeout's due time, or None
    startupTimeout, \* _startupTimeout's due time, or None
    sentinelTimeout,\* _sentinelTimeout: the connection it was armed for, or None
    timers,         \* every sentinel timeout still to fire: <<connection, due time>>
    sentinelValue,  \* _sentinelValue: the connection whose sentinel is waited for
    connected,      \* connected
    conn,           \* number of the present or last connection
    up,             \* client -> broker, this connection
    late,           \* sentinels of lost connections, still on their way to the broker
    subscribed,     \* broker: this connection has subscribed to #
    down,           \* broker -> client, this connection
    store,          \* retained topics in the state store
    ui,             \* last mqtt:status broadcast
    openedBy        \* what opened the MQTT gate (the log line)

gateVars == <<started, mqttGate, matterGate, openedBy>>
timerVars == <<matterDue, startupTimeout, sentinelTimeout, timers>>
connVars == <<connected, conn, sentinelValue>>
brokerVars == <<up, late, subscribed, down>>
startVars == <<sinceBoot, gateVars, timerVars, connVars, brokerVars, store, ui>>

Retained(t) == [type |-> "retained", topic |-> t]
Sentinel(c) == [type |-> "sentinel", conn |-> c]
Subscribe == [type |-> "subscribe", conn |-> None]
UpMsg == {Subscribe} \cup {Sentinel(c) : c \in Conns}
DownMsg == {Retained(t) : t \in Topics} \cup {Sentinel(c) : c \in Conns}

-----------------------------------------------------------------------------
(* Gates *)

\* _maybeStart: start() is called when the second gate opens.
MaybeStart(mqtt, matter) == started' = (started \/ (mqtt /\ matter))

\* startOnce: the first caller opens the gate and takes down the timers it has
\* a handle of.  fired is the timer that called, if one did.
StartOnce(reason, fired) ==
    IF started \/ mqttGate
    THEN /\ timers' = timers \ fired
         /\ UNCHANGED <<gateVars, startupTimeout, sentinelTimeout, ui>>
    ELSE /\ mqttGate' = TRUE
         /\ startupTimeout' = None
         /\ sentinelTimeout' = None
         /\ timers' = {t \in timers \ fired : t[1] # sentinelTimeout}
         /\ ui' = [ready |-> TRUE, connected |-> connected]
         /\ openedBy' = reason
         /\ MaybeStart(TRUE, matterGate)
         /\ UNCHANGED matterGate

\* Mutant: the Matter gate waits for the MQTT gate.
MutMatterGateOpen ==
    /\ matterGate' = mqttGate
    /\ MaybeStart(mqttGate, mqttGate)
    /\ UNCHANGED <<mqttGate, openedBy>>

MatterGateOpen ==
    /\ matterGate' = TRUE
    /\ MaybeStart(mqttGate, TRUE)
    /\ UNCHANGED <<mqttGate, openedBy>>

\* The controller's init settles, well or badly.
MatterReady ==
    /\ ~matterGate
    /\ matterDue' = None
    /\ MatterGateOpen
    /\ UNCHANGED <<sinceBoot, startupTimeout, sentinelTimeout, timers, connVars, brokerVars, store, ui>>

\* _matterStartTimeout
MatterTimesOut ==
    /\ matterDue # None
    /\ matterDue <= sinceBoot
    /\ matterDue' = None
    /\ MatterGateOpen
    /\ UNCHANGED <<sinceBoot, startupTimeout, sentinelTimeout, timers, connVars, brokerVars, store, ui>>

-----------------------------------------------------------------------------
(* The MQTT client *)

\* Subscribe to #, then publish the sentinel value to ourselves.  The timers of
\* kept go on: the new timeout replaces only the handle of the last one.
ConnectWith(value, kept) ==
    /\ Broker
    /\ ~connected
    /\ conn < MaxConnects
    /\ conn' = conn + 1
    /\ connected' = TRUE
    /\ down' = <<>>
    /\ subscribed' = FALSE
    /\ IF started
       THEN /\ up' = <<Subscribe>>
            /\ ui' = [ready |-> TRUE, connected |-> TRUE]
            /\ UNCHANGED <<startupTimeout, sentinelTimeout, timers, sentinelValue>>
       ELSE /\ up' = <<Subscribe, Sentinel(conn')>>
            /\ ui' = [ready |-> FALSE, connected |-> TRUE]
            /\ startupTimeout' = None
            /\ sentinelValue' = value
            /\ sentinelTimeout' = conn'
            /\ timers' = kept \cup {<<conn', sinceBoot + SentinelTimeout>>}
    /\ UNCHANGED <<sinceBoot, gateVars, matterDue, late, store>>

\* Mutant: a new connection clears the timeout of the last.
MutConnectClears == ConnectWith(conn + 1, {})

\* mqtt.on('connect')
Connect == ConnectWith(conn + 1, timers)

\* mqtt.on('close')
Close ==
    /\ connected
    /\ connected' = FALSE
    /\ ui' = [ready |-> started, connected |-> FALSE]
    /\ late' = late \cup {m.conn : m \in {up[k] : k \in DOMAIN up} \ {Subscribe}}
    /\ up' = <<>>
    /\ down' = <<>>
    /\ subscribed' = FALSE
    /\ UNCHANGED <<sinceBoot, gateVars, timerVars, conn, sentinelValue, store>>

\* Mutant: any message will do for a sentinel.
MutReceive ==
    /\ down # <<>>
    /\ down' = Tail(down)
    /\ IF ~started
       THEN StartOnce("sentinel", {}) /\ UNCHANGED store
       ELSE /\ store' = IF Head(down).type = "retained" THEN store \cup {Head(down).topic} ELSE store
            /\ UNCHANGED <<gateVars, startupTimeout, sentinelTimeout, timers, ui>>
    /\ UNCHANGED <<sinceBoot, matterDue, connVars, up, late, subscribed>>

\* mqtt.on('message'): our own sentinel opens the gate, anything else goes to
\* the store.
Receive ==
    /\ down # <<>>
    /\ down' = Tail(down)
    /\ LET m == Head(down)
       IN  IF m.type = "sentinel" /\ ~started /\ m.conn = sentinelValue
           THEN StartOnce("sentinel", {}) /\ UNCHANGED store
           ELSE /\ store' = IF m.type = "retained" THEN store \cup {m.topic} ELSE store
                /\ UNCHANGED <<gateVars, startupTimeout, sentinelTimeout, timers, ui>>
    /\ UNCHANGED <<sinceBoot, matterDue, connVars, up, late, subscribed>>

-----------------------------------------------------------------------------
(* Timers *)

\* startOnce and connect clear the boot timeout, so it never finds the gate open.
StartupTimesOut ==
    /\ startupTimeout # None
    /\ startupTimeout <= sinceBoot
    /\ StartOnce("startupTimeout", {})
    /\ UNCHANGED <<sinceBoot, matterDue, connVars, brokerVars, store>>

SentinelTimesOut(t) ==
    /\ t \in timers
    /\ t[2] <= sinceBoot
    /\ StartOnce("sentinelTimeout", {t})
    /\ UNCHANGED <<sinceBoot, matterDue, connVars, brokerVars, store>>

Due == {d \in {startupTimeout, matterDue} : d # None} \cup {t[2] : t \in timers}

GateTick ==
    /\ sinceBoot < MaxUptime
    /\ \A d \in Due : d > sinceBoot
    /\ sinceBoot' = sinceBoot + 1
    /\ UNCHANGED <<gateVars, timerVars, connVars, brokerVars, store, ui>>

-----------------------------------------------------------------------------
(* The broker: packets of one connection are handled in order *)

Orders == {s \in [1 .. Cardinality(Topics) -> Topics] : \A t \in Topics : \E k \in DOMAIN s : s[k] = t}

\* The retained messages are queued when SUBSCRIBE is handled.
BrokerSubscribe ==
    /\ up # <<>> /\ Head(up) = Subscribe
    /\ up' = Tail(up)
    /\ subscribed' = TRUE
    /\ \E order \in Orders : down' = down \o [k \in DOMAIN order |-> Retained(order[k])]
    /\ UNCHANGED <<sinceBoot, gateVars, timerVars, connVars, late, store, ui>>

\* The sentinel is sent back, or never comes (an ACL, an abnormal broker).
BrokerEcho ==
    /\ up # <<>> /\ Head(up) # Subscribe
    /\ up' = Tail(up)
    /\ down' \in {down} \cup (IF subscribed THEN {Append(down, Head(up))} ELSE {})
    /\ UNCHANGED <<sinceBoot, gateVars, timerVars, connVars, late, subscribed, store, ui>>

\* What a lost connection had sent may be handled after the next one is there.
BrokerLate(c) ==
    /\ c \in late
    /\ late' = late \ {c}
    /\ down' = IF subscribed THEN Append(down, Sentinel(c)) ELSE down
    /\ UNCHANGED <<sinceBoot, gateVars, timerVars, connVars, up, subscribed, store, ui>>

-----------------------------------------------------------------------------

GateInit ==
    /\ sinceBoot = 0
    /\ mqttGate = ~Broker
    /\ matterGate = ~Matter
    /\ started = (mqttGate /\ matterGate)
    /\ matterDue = IF Matter THEN MatterTimeout ELSE None
    /\ startupTimeout = IF Broker THEN StartupTimeout ELSE None
    /\ sentinelTimeout = None
    /\ timers = {}
    /\ sentinelValue = None
    /\ connected = FALSE
    /\ conn = None
    /\ up = <<>>
    /\ late = {}
    /\ subscribed = FALSE
    /\ down = <<>>
    /\ store = {}
    /\ ui = [ready |-> FALSE, connected |-> FALSE]
    /\ openedBy = "nothing"

Timeouts == MatterTimesOut \/ StartupTimesOut \/ \E t \in timers : SentinelTimesOut(t)

GateNext ==
    \/ MatterReady
    \/ Connect \/ Close \/ Receive
    \/ Timeouts \/ GateTick
    \/ BrokerSubscribe \/ BrokerEcho
    \/ \E c \in late : BrokerLate(c)

GateSpec == GateInit /\ [][GateNext]_startVars

\* Time goes on and due timers fire; nothing is asked of the broker, of the
\* network or of the controller.
FairGateSpec == GateSpec /\ WF_startVars(Timeouts) /\ WF_startVars(GateTick)

-----------------------------------------------------------------------------
(* Properties *)

\* Every variable has its type; a sentinel is waited for or timed only for a
\* connection there has been.
GateTypeOK ==
    /\ started \in BOOLEAN /\ mqttGate \in BOOLEAN /\ matterGate \in BOOLEAN
    /\ connected \in BOOLEAN /\ subscribed \in BOOLEAN
    /\ sinceBoot \in Nat /\ matterDue \in Nat /\ startupTimeout \in Nat
    /\ conn \in Conns \cup {None} /\ sentinelTimeout \in Conns \cup {None}
    /\ sentinelValue \in Conns \cup {None}
    /\ timers \subseteq Conns \X Nat
    /\ up \in Seq(UpMsg)
    /\ late \subseteq Conns
    /\ down \in Seq(DownMsg)
    /\ store \subseteq Topics
    /\ ui \in [ready : BOOLEAN, connected : BOOLEAN]
    /\ openedBy \in {"nothing", "sentinel", "sentinelTimeout", "startupTimeout"}

\* doc/script-engine.md: when the sentinel arrives, all retained messages have
\* been delivered and stored.  However often the connection broke before, the
\* sentinel never opens the gate on half a state.
SentinelMeansComplete == openedBy = "sentinel" => Topics \subseteq store

\* The longest a start can take: the broker can put off the
\* start only by letting us connect just before the boot timeout.
Deadline ==
    LET mqtt == IF Broker THEN StartupTimeout + SentinelTimeout ELSE 0
        matter == IF Matter THEN MatterTimeout ELSE 0
    IN  IF mqtt > matter THEN mqtt ELSE matter

\* No order of connects, losses and controller start puts the start of scripts
\* off beyond the deadline (startOnce, matterGateOpen and their timeouts).
StartsByDeadline == sinceBoot > Deadline => started

\* Scripts start in the end: whatever the broker and the controller do, no order of
\* connects, losses and timeouts leaves a gate closed for good (_maybeStart).
EventuallyStarts == <>started

\* Once the broker has nothing more to say, the last mqtt:status tells the web
\* clients what is the case (App.svelte: "true while waiting for
\* retained-state sentinel").
UiSettles ==
    /\ up = <<>> /\ down = <<>> /\ connected /\ started
    => ui = [ready |-> TRUE, connected |-> TRUE]

=============================================================================
