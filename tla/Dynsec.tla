------------------------------- MODULE Dynsec -------------------------------
(***************************************************************************)
(* The client of Mosquitto's dynamic security plugin (src/lib/dynsec.js).  *)
(*                                                                         *)
(* The plugin's protocol has no request ids: an answer names the command   *)
(* and nothing else, and goes to the request under way.  So requests wait  *)
(* in a queue, one is under way at a time, and a timeout fails it and all  *)
(* that wait.  The plugin answers on the same connection, in order, late   *)
(* or never.  What a request says is left out: it has a command, and the   *)
(* plugin does it or refuses it.                                           *)
(***************************************************************************)
EXTENDS Naturals, Sequences, FiniteSets, SequencesExt

CONSTANTS Request,      \* requests of the web interface and of scripts
          Probe,        \* requests the client sends itself once it has subscribed
          Command, CommandOf,
          MaxFaults,    \* bound: lost connections, and requests the plugin does not answer
          MaxStops,     \* bound: stop()
          None

Asked == Request \cup Probe

ASSUME DynsecAssumption ==
  /\ Request \cap Probe = {} /\ None \notin Asked
  /\ CommandOf \in [Asked -> Command]
  /\ MaxFaults \in Nat /\ MaxStops \in Nat

VARIABLES
  configured,   \* _configured
  connected,    \* _connected: subscribed to the answers
  ready,        \* _dynsecReady
  queue,        \* _queue
  inflight,     \* _inflight
  handler,      \* _inflightResolve: the request the next answer goes to
  timers,       \* requests whose timeout is running
  told,         \* what the caller has been told
  wire,         \* requests on their way to the plugin
  answers,      \* answers on their way back
  sent,         \* history: requests that were published
  done,         \* history: requests the plugin has done
  cutOff,       \* history: requests whose handler went with the timer of another
  behind,       \* history: sent while the answer to one settled or cut off was under way
  faults, stops

queueVars == <<queue, inflight, handler, timers>>
netVars == <<wire, answers, done>>
history == <<sent, cutOff, behind>>
vars == <<configured, connected, ready, queue, inflight, handler, timers, told,
          wire, answers, sent, done, cutOff, behind, faults, stops>>

-----------------------------------------------------------------------------
(* A promise is settled once. *)

Settle(rs, how) == [r \in Asked |-> IF r \in rs /\ told[r] = "waiting" THEN how ELSE told[r]]

\* Requests whose answer has not come, whatever became of them; UnderWay is what is
\* left of them while an answer is handled.
OnTheWay == ToSet(wire) \cup {answers[i].of : i \in DOMAIN answers}
UnderWay == ToSet(wire) \cup {answers'[i].of : i \in DOMAIN answers'}
Told == {r \in Asked : told'[r] \in {"ok", "failed"}}
Abandoned == Told \cup cutOff

MutDrain(q, busy, h, running) ==
  IF q = <<>> \/ ~connected'
    THEN /\ queue' = q /\ inflight' = busy /\ handler' = h /\ timers' = running
         /\ UNCHANGED <<wire, sent, behind>>
    ELSE /\ queue' = Tail(q) /\ inflight' = TRUE /\ handler' = Head(q)
         /\ timers' = running \cup {Head(q)}
         /\ wire' = Append(wire, Head(q)) /\ sent' = sent \cup {Head(q)}
         /\ behind' = IF UnderWay \cap Abandoned # {} THEN behind \cup {Head(q)} ELSE behind

\* _drain, with the queue, the flag, the handler and the timers as they are by then.
Drain(q, busy, h, running) ==
  IF busy \/ q = <<>> \/ ~connected'
    THEN /\ queue' = q /\ inflight' = busy /\ handler' = h /\ timers' = running
         /\ UNCHANGED <<wire, sent, behind>>
    ELSE /\ queue' = Tail(q) /\ inflight' = TRUE /\ handler' = Head(q)
         /\ timers' = running \cup {Head(q)}
         /\ wire' = Append(wire, Head(q)) /\ sent' = sent \cup {Head(q)}
         /\ behind' = IF UnderWay \cap Abandoned # {} THEN behind \cup {Head(q)} ELSE behind

-----------------------------------------------------------------------------
(* The client *)

\* A request is refused while there is no connection, else it waits its turn.
Ask(r) ==
  /\ told[r] = "new"
  /\ UNCHANGED <<connected, answers>>
  /\ IF configured /\ connected
       THEN /\ told' = [told EXCEPT ![r] = "waiting"]
            /\ Drain(Append(queue, r), inflight, handler, timers)
       ELSE /\ told' = [told EXCEPT ![r] = "failed"]
            /\ UNCHANGED <<queueVars, wire, sent, behind>>
  /\ UNCHANGED <<configured, ready, done, cutOff, faults, stops>>

\* The subscription is confirmed: the queue goes on, and a probe is sent.
Subscribed(p) ==
  /\ configured /\ ~connected /\ told[p] = "new"
  /\ connected' = TRUE
  /\ told' = [told EXCEPT ![p] = "waiting"]
  /\ UNCHANGED answers
  /\ Drain(Append(queue, p), inflight, handler, timers)
  /\ UNCHANGED <<configured, ready, done, cutOff, faults, stops>>

\* An answer goes to the request under way, whichever it belongs to; one that
\* names another command is no error of this one.
Answer ==
  /\ answers # <<>> /\ answers' = Tail(answers)
  /\ UNCHANGED connected
  /\ LET a == Head(answers)
         error == a.error /\ CommandOf[a.of] = CommandOf[handler]
     IN IF handler = None
          THEN UNCHANGED <<ready, told, queueVars, wire, sent, behind>>
          ELSE /\ ready' = ~(error /\ handler \in Probe)
               /\ told' = Settle({handler}, IF error THEN "failed" ELSE "ok")
               /\ Drain(queue, FALSE, None, timers \ {handler})
  /\ UNCHANGED <<configured, done, cutOff, faults, stops>>

MutTimeout(r) ==
  /\ r \in timers /\ timers' = timers \ {r}
  /\ inflight' = FALSE /\ handler' = None
  /\ cutOff' = cutOff \cup ({handler} \ {r, None})
  /\ LET failed == {r} \cup ToSet(queue) IN
     /\ told' = Settle(failed, "failed")
     /\ ready' = (ready /\ failed \cap Probe = {})
  /\ UNCHANGED <<configured, connected, queue, netVars, sent, behind, faults, stops>>

\* The timeout fails its request and all that wait, and takes the handler away,
\* also when it is that of a later request: stop() leaves the timer running.
Timeout(r) ==
  /\ r \in timers /\ timers' = timers \ {r}
  /\ inflight' = FALSE /\ handler' = None
  /\ cutOff' = cutOff \cup ({handler} \ {r, None})
  /\ LET failed == {r} \cup ToSet(queue) IN
     /\ told' = Settle(failed, "failed")
     /\ ready' = (ready /\ failed \cap Probe = {})
  /\ queue' = <<>>
  /\ UNCHANGED <<configured, connected, netVars, sent, behind, faults, stops>>

\* With the connection goes what is on its way; some of it has arrived.
Break ==
  /\ wire' = <<>> /\ answers' = <<>>
  /\ \E k \in 0..Len(wire) : \E ok \in SUBSET ToSet(SubSeq(wire, 1, k)) : done' = done \cup ok

MutClose ==
  /\ connected /\ faults < MaxFaults
  /\ connected' = FALSE
  /\ Break
  /\ faults' = faults + 1
  /\ UNCHANGED <<configured, ready, queueVars, told, history, stops>>

\* Requests under way and in the queue are left to the timeout.
Close ==
  /\ connected /\ faults < MaxFaults
  /\ connected' = FALSE /\ ready' = FALSE
  /\ Break
  /\ faults' = faults + 1
  /\ UNCHANGED <<configured, queueVars, told, history, stops>>

MutStop ==
  /\ configured /\ stops < MaxStops
  /\ configured' = FALSE /\ connected' = FALSE /\ ready' = FALSE
  /\ inflight' = FALSE /\ handler' = None
  /\ queue' = <<>>
  /\ Break
  /\ stops' = stops + 1
  /\ UNCHANGED <<timers, told, history, faults>>

\* Dynamic security is deactivated: what waits fails, but the request under way
\* keeps its timer and is told nothing before it fires.
Stop ==
  /\ configured /\ stops < MaxStops
  /\ configured' = FALSE /\ connected' = FALSE /\ ready' = FALSE
  /\ inflight' = FALSE /\ handler' = None
  /\ told' = Settle(ToSet(queue), "failed") /\ queue' = <<>>
  /\ Break
  /\ stops' = stops + 1
  /\ UNCHANGED <<timers, history, faults>>

\* Dynamic security is activated again, whatever timer still runs: the wizard calls
\* stop() and init() back to back.
Initialise ==
  /\ ~configured /\ configured' = TRUE
  /\ UNCHANGED <<connected, ready, queueVars, told, netVars, history, faults, stops>>

-----------------------------------------------------------------------------
(* The plugin *)

Serve ==
  /\ wire # <<>> /\ wire' = Tail(wire)
  /\ \E error \in BOOLEAN :
       /\ done' = IF error THEN done ELSE done \cup {Head(wire)}
       /\ answers' = Append(answers, [of |-> Head(wire), error |-> error])
  /\ UNCHANGED <<configured, connected, ready, queueVars, told, history, faults, stops>>

\* No plugin, or no right to use it.
Ignore ==
  /\ wire # <<>> /\ faults < MaxFaults
  /\ wire' = Tail(wire)
  /\ faults' = faults + 1
  /\ UNCHANGED <<configured, connected, ready, queueVars, told, answers, done, history, stops>>

-----------------------------------------------------------------------------
Init ==
  /\ configured = TRUE /\ connected = FALSE /\ ready = FALSE
  /\ queue = <<>> /\ inflight = FALSE /\ handler = None /\ timers = {}
  /\ told = [r \in Asked |-> "new"]
  /\ wire = <<>> /\ answers = <<>>
  /\ sent = {} /\ done = {} /\ cutOff = {} /\ behind = {}
  /\ faults = 0 /\ stops = 0

Next ==
  \/ \E r \in Request : Ask(r)
  \/ \E p \in Probe : Subscribed(p)
  \/ \E r \in Asked : Timeout(r)
  \/ Answer \/ Close \/ Stop \/ Initialise \/ Serve \/ Ignore

\* A timer that runs fires.
Fairness == \A r \in Asked : WF_vars(Timeout(r))

Spec == Init /\ [][Next]_vars
LiveSpec == Spec /\ Fairness

-----------------------------------------------------------------------------
(* Properties *)

\* The variables have their types; what waits has a timer that will fail it, the
\* flag says whether there is a request under way, and `ready` needs a connection.
TypeOK ==
  /\ configured \in BOOLEAN /\ connected \in BOOLEAN /\ ready \in BOOLEAN /\ inflight \in BOOLEAN
  /\ queue \in Seq(Request \cup Probe) /\ wire \in Seq(Request \cup Probe)
  /\ answers \in Seq([of : Asked, error : BOOLEAN])
  /\ handler \in Asked \cup {None} /\ timers \subseteq Asked
  /\ told \in [Asked -> {"new", "waiting", "ok", "failed"}]
  /\ sent \subseteq Asked /\ done \subseteq Asked /\ cutOff \subseteq Asked /\ behind \subseteq Asked
  /\ inflight <=> handler # None
  /\ queue # <<>> => timers # {}
  /\ connected => configured
  /\ ready => connected

\* A caller is told that a command was done only when it was, although answers
\* carry no id, connections break, requests time out and the client is initialised
\* again while an old timer runs.  Only a request sent behind another is excused,
\* while the answer was still to come to one that was settled by its timeout, or
\* that an old timer had cut off from its answer: the pairing then stays off by one
\* until the queue runs empty.
AckedTookEffect == \A r \in Asked : told[r] = "ok" /\ r \notin behind => r \in done

\* Two requests whose callers wait are never on their way at once: the queue
\* serialises them.  It does not hold: an old timer that takes the handler of a later
\* request away lets the next one go.
OneInFlight ==
  \A x, y \in Asked :
    {x, y} \subseteq OnTheWay /\ told[x] = "waiting" /\ told[y] = "waiting" => x = y

\* What a caller is told of stands for good: a request that was failed while it
\* waited is not sent afterwards.
NothingSentLate ==
  [][\A r \in Asked : told[r] \in {"ok", "failed"} => told'[r] = told[r] /\ (r \in sent' => r \in sent)]_vars

\* Every request gets an answer in the end, also when the connection is lost,
\* the plugin is silent or dynamic security is deactivated while it waits.
Settled == \A r \in Asked : (told[r] = "waiting") ~> (told[r] \in {"ok", "failed"})
=============================================================================
