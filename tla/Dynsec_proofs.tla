---------------------------- MODULE Dynsec_proofs ----------------------------
(***************************************************************************)
(* Proofs about Dynsec, for any requests, commands and bounds: the state   *)
(* is well typed, a request that was settled is not sent afterwards, and   *)
(* who is told that a command was done can rely on it.                     *)
(***************************************************************************)
EXTENDS Dynsec, SequenceTheorems, TLAPS

Reply == [of : Asked, error : BOOLEAN]

\* What waits, waits behind the request under way, which has its timer; with the
\* connection goes all that is on its way.
Busy ==
  /\ queue # <<>> => handler # None
  /\ handler # None => handler \in timers /\ handler \in sent
  /\ wire # <<>> \/ answers # <<>> => connected

\* Requests in the queue are unsettled, unsent and there once.
Waiting ==
  /\ \A i \in DOMAIN queue : told[queue[i]] = "waiting" /\ queue[i] \notin sent
  /\ \A i, j \in DOMAIN queue : queue[i] = queue[j] => i = j
  /\ \A r \in sent : told[r] # "new"

QInv == TypeOK /\ Busy /\ Waiting

-----------------------------------------------------------------------------
(* Lemmas *)

\* _drain leaves everything, or sends the head of the queue.
LEMMA DrainCases ==
  ASSUME NEW q, NEW busy, NEW h, NEW running, Drain(q, busy, h, running)
  PROVE  \/ /\ busy \/ q = <<>> \/ ~connected'
            /\ queue' = q /\ inflight' = busy /\ handler' = h /\ timers' = running
            /\ UNCHANGED <<wire, sent, behind>>
         \/ /\ ~busy /\ q # <<>> /\ connected'
            /\ queue' = Tail(q) /\ inflight' = TRUE /\ handler' = Head(q)
            /\ timers' = running \cup {Head(q)}
            /\ wire' = Append(wire, Head(q)) /\ sent' = sent \cup {Head(q)}
            /\ behind' = IF UnderWay \cap Abandoned # {} THEN behind \cup {Head(q)} ELSE behind
  BY DEF Drain, history

LEMMA Queues ==
  ASSUME NEW S, NEW s \in Seq(S), NEW m \in S
  PROVE  /\ Append(s, m) \in Seq(S) /\ Append(s, m) # <<>>
         /\ DOMAIN Append(s, m) = 1 .. Len(s) + 1 /\ DOMAIN s = 1 .. Len(s) /\ Len(s) \in Nat
         /\ \A i \in 1 .. Len(s) : Append(s, m)[i] = s[i]
         /\ Append(s, m)[Len(s) + 1] = m
  OBVIOUS

LEMMA Heads ==
  ASSUME NEW S, NEW s \in Seq(S), s # <<>>
  PROVE  /\ Tail(s) \in Seq(S) /\ Head(s) \in S /\ Head(s) = s[1]
         /\ Len(s) \in Nat /\ Len(s) > 0 /\ DOMAIN s = 1 .. Len(s)
         /\ DOMAIN Tail(s) = 1 .. Len(s) - 1
         /\ \A i \in 1 .. Len(s) - 1 : Tail(s)[i] = s[i + 1]
  OBVIOUS

LEMMA SettleType ==
  ASSUME TypeOK, NEW rs, NEW how \in {"ok", "failed"}
  PROVE  Settle(rs, how) \in [Asked -> {"new", "waiting", "ok", "failed"}]
  BY DEF Settle, TypeOK

-----------------------------------------------------------------------------
(* Types and the queue *)

LEMMA QInit == Init => QInv
<1> SUFFICES ASSUME Init PROVE QInv
  OBVIOUS
<1>1. TypeOK
  <2>1. \A S : <<>> \in Seq(S)
    OBVIOUS
  <2>2. /\ queue \in Seq(Request \cup Probe) /\ wire \in Seq(Request \cup Probe)
        /\ answers \in Seq([of : Asked, error : BOOLEAN])
    BY <2>1 DEF Init
  <2>3. told \in [Asked -> {"new", "waiting", "ok", "failed"}]
    BY DEF Init
  <2>4. inflight <=> handler # None
    BY DEF Init
  <2> QED
    BY <2>2, <2>3, <2>4 DEF Init, TypeOK
<1>2. Busy /\ Waiting
  BY DEF Init, Busy, Waiting
<1> QED
  BY <1>1, <1>2 DEF QInv

\* What _drain needs of the queue, the flag and the timers it is given.
DrainInput(q, busy, h, running) ==
  /\ q \in Seq(Asked) /\ h \in Asked \cup {None} /\ running \subseteq Asked
  /\ busy = (h # None)
  /\ h # None => h \in running /\ h \in sent
  /\ q # <<>> => h # None \/ connected'
  /\ \A i \in DOMAIN q : told'[q[i]] = "waiting" /\ q[i] \notin sent
  /\ \A i, j \in DOMAIN q : q[i] = q[j] => i = j

LEMMA DrainKeeps ==
  ASSUME QInv, NEW q, NEW busy, NEW h, NEW running, Drain(q, busy, h, running),
         DrainInput(q, busy, h, running), \A r \in sent : told'[r] # "new"
  PROVE  /\ queue' \in Seq(Asked) /\ wire' \in Seq(Asked) /\ inflight' \in BOOLEAN
         /\ handler' \in Asked \cup {None} /\ timers' \subseteq Asked
         /\ sent' \subseteq Asked /\ behind' \subseteq Asked
         /\ inflight' <=> handler' # None
         /\ queue' # <<>> => handler' # None
         /\ handler' # None => handler' \in timers' /\ handler' \in sent'
         /\ wire' # <<>> => connected' \/ wire # <<>>
         /\ Waiting'
<1>1. wire \in Seq(Asked) /\ sent \subseteq Asked /\ behind \subseteq Asked /\ None \notin Asked
  BY DynsecAssumption DEF QInv, TypeOK, Asked
<1>2. CASE UNCHANGED <<wire, sent, behind>>
  <2>1. /\ queue' = q /\ inflight' = busy /\ handler' = h /\ timers' = running
        /\ busy \/ q = <<>> \/ ~connected'
    <3>1. q # <<>> /\ q \in Seq(Asked) => Append(wire, Head(q)) # wire
      <4> SUFFICES ASSUME q # <<>>, q \in Seq(Asked) PROVE Append(wire, Head(q)) # wire
        OBVIOUS
      <4>1. Head(q) \in Asked
        BY Heads
      <4>2. Len(Append(wire, Head(q))) = Len(wire) + 1 /\ Len(wire) \in Nat
        BY <1>1, <4>1
      <4> QED
        BY <4>2
    <3> QED
      BY <1>2, <3>1, DrainCases DEF DrainInput
  <2>2. queue' # <<>> => handler' # None
    BY <2>1 DEF DrainInput
  <2> QED
    BY <1>1, <1>2, <2>1, <2>2 DEF DrainInput, Waiting
<1>3. CASE ~UNCHANGED <<wire, sent, behind>>
  <2>1. /\ ~busy /\ q # <<>> /\ connected'
        /\ queue' = Tail(q) /\ inflight' = TRUE /\ handler' = Head(q)
        /\ timers' = running \cup {Head(q)}
        /\ wire' = Append(wire, Head(q)) /\ sent' = sent \cup {Head(q)}
        /\ behind' = IF UnderWay \cap Abandoned # {} THEN behind \cup {Head(q)} ELSE behind
    BY <1>3, DrainCases
  <2>2. /\ q \in Seq(Asked) /\ Tail(q) \in Seq(Asked) /\ Head(q) \in Asked /\ Head(q) = q[1]
        /\ Len(q) \in Nat /\ Len(q) > 0 /\ DOMAIN q = 1 .. Len(q)
        /\ DOMAIN Tail(q) = 1 .. Len(q) - 1
        /\ \A i \in 1 .. Len(q) - 1 : Tail(q)[i] = q[i + 1]
    BY <2>1, Heads DEF DrainInput
  <2>3. wire' \in Seq(Asked)
    BY <1>1, <2>1, <2>2, Queues
  <2>4. \A i \in DOMAIN Tail(q) : i + 1 \in DOMAIN q /\ Tail(q)[i] = q[i + 1] /\ i + 1 # 1
    BY <2>2
  <2>5. \A i \in DOMAIN Tail(q) : told'[Tail(q)[i]] = "waiting" /\ Tail(q)[i] \notin sent'
    BY <2>1, <2>2, <2>4 DEF DrainInput
  <2>6. \A i, j \in DOMAIN Tail(q) : Tail(q)[i] = Tail(q)[j] => i = j
    BY <2>2, <2>4 DEF DrainInput
  <2>7. \A r \in sent' : told'[r] # "new"
    BY <2>1, <2>2 DEF DrainInput
  <2> QED
    BY <1>1, <2>1, <2>2, <2>3, <2>5, <2>6, <2>7 DEF DrainInput, Waiting
<1> QED
  BY <1>2, <1>3

\* Messages that are lost, and those that are on their way.
LEMMA BreakTypes ==
  ASSUME TypeOK, Break
  PROVE  wire' = <<>> /\ answers' = <<>> /\ done' \subseteq Asked
<1>1. \A k \in 0 .. Len(wire) : ToSet(SubSeq(wire, 1, k)) \subseteq Asked
  <2> SUFFICES ASSUME NEW k \in 0 .. Len(wire) PROVE ToSet(SubSeq(wire, 1, k)) \subseteq Asked
    OBVIOUS
  <2>1. wire \in Seq(Asked) /\ Len(wire) \in Nat
    BY DEF TypeOK, Asked
  <2>2. SubSeq(wire, 1, k) \in Seq(Asked)
    BY <2>1, SubSeqProperties
  <2> QED
    BY <2>2 DEF ToSet
<1> QED
  BY <1>1 DEF Break, TypeOK

\* A request comes in while there is a connection.
LEMMA QEnqueue ==
  ASSUME QInv, NEW r \in Asked, told[r] = "new", told' = [told EXCEPT ![r] = "waiting"],
         connected', Drain(Append(queue, r), inflight, handler, timers),
         UNCHANGED <<configured, ready, done, cutOff, answers, faults, stops>>,
         configured, connected' \in BOOLEAN
  PROVE  QInv'
<1> DEFINE q == Append(queue, r)
<1>1. queue \in Seq(Asked) /\ told \in [Asked -> {"new", "waiting", "ok", "failed"}] /\ sent \subseteq Asked
  BY DEF QInv, TypeOK, Asked
<1>2. /\ q \in Seq(Asked) /\ DOMAIN q = 1 .. Len(queue) + 1 /\ DOMAIN queue = 1 .. Len(queue)
      /\ Len(queue) \in Nat /\ q[Len(queue) + 1] = r
      /\ \A i \in 1 .. Len(queue) : q[i] = queue[i]
  BY <1>1, Queues
<1>3. \A i \in 1 .. Len(queue) : told[queue[i]] = "waiting" /\ queue[i] \notin sent /\ queue[i] # r
  BY <1>2 DEF QInv, Waiting
<1>4. r \notin sent /\ \A x \in Asked : told'[x] = IF x = r THEN "waiting" ELSE told[x]
  BY <1>1 DEF QInv, Waiting
<1>5. \A i \in DOMAIN q : q[i] \in Asked /\ told'[q[i]] = "waiting" /\ q[i] \notin sent
  <2> HIDE DEF q
  <2> SUFFICES ASSUME NEW i \in 1 .. Len(queue) + 1
               PROVE  q[i] \in Asked /\ told'[q[i]] = "waiting" /\ q[i] \notin sent
    BY <1>2
  <2>1. CASE i = Len(queue) + 1
    BY <1>2, <1>4, <2>1
  <2>2. CASE i \in 1 .. Len(queue)
    BY <1>1, <1>2, <1>3, <1>4, <2>2
  <2> QED
    BY <1>2, <2>1, <2>2
<1>6. \A i, j \in DOMAIN q : q[i] = q[j] => i = j
  <2> HIDE DEF q
  <2> SUFFICES ASSUME NEW i \in 1 .. Len(queue) + 1, NEW j \in 1 .. Len(queue) + 1, q[i] = q[j]
               PROVE  i = j
    BY <1>2
  <2>1. CASE i \in 1 .. Len(queue) /\ j \in 1 .. Len(queue)
    BY <1>2, <2>1 DEF QInv, Waiting
  <2>2. CASE i = Len(queue) + 1 \/ j = Len(queue) + 1
    BY <1>2, <1>3, <2>2
  <2> QED
    BY <1>2, <2>1, <2>2
<1>7. \A x \in sent : told'[x] # "new"
  BY <1>1, <1>4 DEF QInv, Waiting
<1>8. /\ handler \in Asked \cup {None} /\ timers \subseteq Asked /\ inflight = (handler # None)
      /\ handler # None => handler \in timers /\ handler \in sent
  BY DEF QInv, TypeOK, Busy
<1>9. DrainInput(q, inflight, handler, timers)
  <2> HIDE DEF q
  <2> QED
    BY <1>2, <1>5, <1>6, <1>8 DEF DrainInput
<1>10. told' \in [Asked -> {"new", "waiting", "ok", "failed"}]
  BY <1>1
<1>11. Drain(q, inflight, handler, timers)
  OBVIOUS
<1> HIDE DEF q
<1>12. /\ queue' \in Seq(Asked) /\ wire' \in Seq(Asked) /\ inflight' \in BOOLEAN
       /\ handler' \in Asked \cup {None} /\ timers' \subseteq Asked
       /\ sent' \subseteq Asked /\ behind' \subseteq Asked
       /\ inflight' <=> handler' # None
       /\ queue' # <<>> => handler' # None
       /\ handler' # None => handler' \in timers' /\ handler' \in sent'
       /\ Waiting'
  BY <1>7, <1>9, <1>11, DrainKeeps
<1>13. TypeOK'
  BY <1>10, <1>12 DEF QInv, TypeOK, Asked
<1>14. Busy'
  BY <1>12 DEF QInv, Busy
<1> QED
  BY <1>12, <1>13, <1>14 DEF QInv

LEMMA QAnswer == ASSUME QInv, Answer PROVE QInv'
<1> DEFINE a == Head(answers)
           error == a.error /\ CommandOf[a.of] = CommandOf[handler]
<1>1. /\ answers \in Seq(Reply) /\ answers # <<>> /\ answers' = Tail(answers) /\ answers' \in Seq(Reply)
      /\ a \in Reply /\ connected /\ UNCHANGED <<configured, connected, done, cutOff, faults, stops>>
  BY Heads DEF Answer, QInv, TypeOK, Busy, Reply
<1>2. CASE handler = None
  BY <1>1, <1>2 DEF Answer, QInv, TypeOK, Busy, Waiting, queueVars, history, Reply
<1>3. CASE handler # None
  <2>1. /\ ready' = ~(error /\ handler \in Probe)
        /\ told' = Settle({handler}, IF error THEN "failed" ELSE "ok")
        /\ Drain(queue, FALSE, None, timers \ {handler})
    BY <1>3 DEF Answer
  <2>2. told' \in [Asked -> {"new", "waiting", "ok", "failed"}]
    BY <2>1, SettleType DEF QInv
  <2>3. \A x \in Asked : told'[x] # told[x] => x = handler /\ told'[x] \in {"ok", "failed"}
    BY <2>1 DEF Settle
  <2>4. queue \in Seq(Asked) /\ sent \subseteq Asked /\ timers \subseteq Asked /\ handler \in sent
        /\ \A i \in DOMAIN queue : queue[i] \in Asked
    BY <1>3 DEF QInv, TypeOK, Busy, Asked
  <2>5. DrainInput(queue, FALSE, None, timers \ {handler})
    BY <1>1, <2>3, <2>4 DEF DrainInput, QInv, Waiting
  <2>6. \A x \in sent : told'[x] # "new"
    BY <2>3, <2>4 DEF QInv, Waiting
  <2>7. /\ queue' \in Seq(Asked) /\ wire' \in Seq(Asked) /\ inflight' \in BOOLEAN
        /\ handler' \in Asked \cup {None} /\ timers' \subseteq Asked
        /\ sent' \subseteq Asked /\ behind' \subseteq Asked
        /\ inflight' <=> handler' # None
        /\ queue' # <<>> => handler' # None
        /\ handler' # None => handler' \in timers' /\ handler' \in sent'
        /\ Waiting'
    BY <2>1, <2>5, <2>6, DrainKeeps
  <2>8. ready' \in BOOLEAN /\ connected'
    BY <1>1, <2>1
  <2>9. TypeOK'
    BY <1>1, <2>2, <2>7, <2>8 DEF QInv, TypeOK, Asked, Reply
  <2> QED
    BY <1>1, <2>7, <2>9 DEF QInv, Busy
<1> QED
  BY <1>2, <1>3

LEMMA QStep == ASSUME QInv, [Next]_vars PROVE QInv'
<1>0. /\ queue \in Seq(Asked) /\ wire \in Seq(Asked) /\ answers \in Seq(Reply)
      /\ told \in [Asked -> {"new", "waiting", "ok", "failed"}]
      /\ timers \subseteq Asked /\ sent \subseteq Asked /\ done \subseteq Asked
      /\ \A S : <<>> \in Seq(S)
  BY DEF QInv, TypeOK, Asked, Reply
<1>1. ASSUME NEW r \in Request, Ask(r) PROVE QInv'
  <2>1. r \in Asked /\ told[r] = "new"
    BY <1>1 DEF Ask, Asked
  <2>2. CASE configured /\ connected
    BY <1>1, <2>1, <2>2, QEnqueue DEF Ask, QInv, TypeOK
  <2>3. CASE ~(configured /\ connected)
    <3>1. /\ told' = [told EXCEPT ![r] = "failed"]
          /\ UNCHANGED <<configured, connected, ready, queueVars, netVars, history, faults, stops>>
      BY <1>1, <2>3 DEF Ask, netVars, history
    <3>2. told' \in [Asked -> {"new", "waiting", "ok", "failed"}]
      BY <1>0, <3>1
    <3>3. \A x \in Asked : told'[x] = IF x = r THEN "failed" ELSE told[x]
      BY <1>0, <3>1
    <3>4. Waiting'
      BY <1>0, <2>1, <3>1, <3>3 DEF QInv, Waiting, queueVars, history
    <3> QED
      BY <3>1, <3>2, <3>4 DEF QInv, TypeOK, Busy, queueVars, netVars, history
  <2> QED
    BY <2>2, <2>3
<1>2. ASSUME NEW p \in Probe, Subscribed(p) PROVE QInv'
  BY <1>2, QEnqueue DEF Subscribed, Asked
<1>3. ASSUME NEW r \in Asked, Timeout(r) PROVE QInv'
  <2>1. /\ r \in timers /\ timers' = timers \ {r}
        /\ inflight' = FALSE /\ handler' = None /\ queue' = <<>>
        /\ told' = Settle({r} \cup ToSet(queue), "failed")
        /\ cutOff' \subseteq Asked
        /\ UNCHANGED <<configured, connected, netVars, sent, behind, faults, stops>>
    BY <1>3 DEF Timeout, QInv, TypeOK, Asked
  <2>2. told' \in [Asked -> {"new", "waiting", "ok", "failed"}]
    BY <2>1, SettleType DEF QInv
  <2>3. \A x \in Asked : told'[x] = "new" => told[x] = "new"
    BY <2>1 DEF Settle
  <2>4. Waiting'
    <3>1. sent' = sent /\ DOMAIN queue' = {}
      BY <2>1 DEF history
    <3>2. \A x \in sent' : told'[x] # "new"
      BY <1>0, <2>3, <3>1 DEF QInv, Waiting
    <3> QED
      BY <3>1, <3>2 DEF Waiting
  <2>5. ready' \in BOOLEAN /\ (ready' => ready)
    BY <1>3 DEF Timeout
  <2> QED
    BY <1>0, <2>1, <2>2, <2>4, <2>5 DEF QInv, TypeOK, Busy, netVars, history, Asked
<1>4. CASE Close
  <2>1. wire' = <<>> /\ answers' = <<>> /\ done' \subseteq Asked
    BY <1>4, BreakTypes DEF Close, QInv
  <2>2. faults' = faults + 1
    BY <1>4 DEF Close
  <2>3. /\ wire' \in Seq(Request \cup Probe) /\ answers' \in Seq([of : Asked, error : BOOLEAN])
        /\ connected' = FALSE /\ ready' = FALSE /\ UNCHANGED <<configured, queueVars, told, history>>
    BY <1>0, <1>4, <2>1 DEF Close
  <2>4. TypeOK'
    BY <2>1, <2>3 DEF QInv, TypeOK, queueVars, history
  <2>5. Busy' /\ Waiting'
    BY <2>1, <2>3 DEF QInv, Busy, Waiting, queueVars, history
  <2> QED
    BY <2>4, <2>5 DEF QInv
<1>5. CASE Stop
  <2>1. wire' = <<>> /\ answers' = <<>> /\ done' \subseteq Asked
    BY <1>5, BreakTypes DEF Stop, QInv
  <2>2. /\ connected' = FALSE /\ ready' = FALSE /\ configured' = FALSE /\ UNCHANGED <<timers, history>>
        /\ queue' = <<>> /\ inflight' = FALSE /\ handler' = None
        /\ told' = Settle(ToSet(queue), "failed")
    BY <1>5 DEF Stop
  <2>3. told' \in [Asked -> {"new", "waiting", "ok", "failed"}]
    BY <2>2, SettleType DEF QInv
  <2>4. \A x \in Asked : told'[x] = "new" => told[x] = "new"
    BY <2>2 DEF Settle
  <2>5. /\ wire' \in Seq(Request \cup Probe) /\ answers' \in Seq([of : Asked, error : BOOLEAN])
        /\ queue' \in Seq(Request \cup Probe)
    BY <1>0, <2>1, <2>2
  <2>6. TypeOK'
    BY <2>1, <2>2, <2>3, <2>5 DEF QInv, TypeOK, history
  <2>7. Busy' /\ Waiting'
    BY <1>0, <2>1, <2>2, <2>4 DEF QInv, Busy, Waiting, history
  <2> QED
    BY <2>6, <2>7 DEF QInv
<1>6. CASE Initialise
  BY <1>6 DEF Initialise, QInv, TypeOK, Busy, Waiting, queueVars, netVars, history
<1>7. CASE Serve
  <2>1. wire # <<>> /\ Head(wire) \in Asked /\ wire' \in Seq(Asked)
    BY <1>0, <1>7, Heads DEF Serve
  <2>2. PICK error \in BOOLEAN :
          /\ done' = IF error THEN done ELSE done \cup {Head(wire)}
          /\ answers' = Append(answers, [of |-> Head(wire), error |-> error])
    BY <1>7 DEF Serve
  <2>3. done' \subseteq Asked
    BY <1>0, <2>1, <2>2
  <2>4. answers' \in Seq(Reply)
    <3> DEFINE m == [of |-> Head(wire), error |-> error]
    <3>1. m \in Reply
      BY <2>1 DEF Reply
    <3> HIDE DEF m
    <3> QED
      BY <1>0, <2>2, <3>1, Queues DEF m
  <2>5. UNCHANGED <<configured, connected, ready, queueVars, told, history, faults, stops>>
    BY <1>7 DEF Serve
  <2>6. TypeOK'
    BY <2>1, <2>3, <2>4, <2>5 DEF QInv, TypeOK, queueVars, history, Reply, Asked
  <2> QED
    BY <2>1, <2>5, <2>6 DEF QInv, Busy, Waiting, queueVars, history
<1>8. CASE Ignore
  <2>1. wire # <<>> /\ wire' \in Seq(Asked)
    BY <1>0, <1>8, Heads DEF Ignore
  <2> QED
    BY <1>8, <2>1 DEF Ignore, QInv, TypeOK, Busy, Waiting, queueVars, history, Asked
<1>9. CASE UNCHANGED vars
  BY <1>9 DEF vars, QInv, TypeOK, Busy, Waiting
<1> QED
  BY <1>1, <1>2, <1>3, <1>4, <1>5, <1>6, <1>7, <1>8, <1>9, QAnswer DEF Next

\* The variables of the client keep their types: what waits has a timer that will
\* fail it, whatever requests, timeouts, lost connections and stops there are
\* (_drain, the timeout and the 'close' handler of lib/dynsec.js).
THEOREM TypeCorrect == Spec => []TypeOK
<1>1. QInv => TypeOK
  BY DEF QInv
<1> QED
  BY <1>1, QInit, QStep, PTL DEF Spec

-----------------------------------------------------------------------------
(* What a caller was told *)

\* _drain sends only what waits: nothing that was settled.
LEMMA DrainSends ==
  ASSUME NEW q, NEW busy, NEW h, NEW running, Drain(q, busy, h, running),
         NEW r, r \in sent', r \notin sent
  PROVE  q # <<>> /\ r = Head(q)
<1>1. \/ sent' = sent
      \/ q # <<>> /\ sent' = sent \cup {Head(q)}
  BY DrainCases
<1> QED
  BY <1>1

LEMMA SettledStep ==
  ASSUME QInv, [Next]_vars, NEW r \in Asked, told[r] \in {"ok", "failed"}
  PROVE  told'[r] = told[r] /\ (r \in sent' => r \in sent)
<1>1. told \in [Asked -> {"new", "waiting", "ok", "failed"}] /\ queue \in Seq(Asked)
  BY DEF QInv, TypeOK, Asked
<1>2. ASSUME NEW x \in Asked, told[x] = "new", Drain(Append(queue, x), inflight, handler, timers), r \in sent'
      PROVE  r \in sent
  <2> DEFINE q == Append(queue, x)
  <2>1. /\ q \in Seq(Asked) /\ Head(q) = q[1] /\ Len(queue) \in Nat /\ DOMAIN queue = 1 .. Len(queue)
        /\ \A i \in 1 .. Len(queue) : q[i] = queue[i]
        /\ q[Len(queue) + 1] = x
    BY <1>1, Queues, Heads
  <2>2. Drain(q, inflight, handler, timers)
    BY <1>2
  <2> HIDE DEF q
  <2>3. told[Head(q)] \in {"new", "waiting"}
    <3>1. CASE Len(queue) = 0
      <4>1. Head(q) = x
        BY <2>1, <3>1
      <4> QED
        BY <1>2, <4>1
    <3>2. CASE Len(queue) > 0
      BY <2>1, <3>2 DEF QInv, Waiting
    <3> QED
      BY <2>1, <3>1, <3>2
  <2> QED
    BY <1>2, <2>2, <2>3, DrainSends
<1>3. ASSUME NEW x \in Request, Ask(x)
      PROVE  told'[r] = told[r] /\ (r \in sent' => r \in sent)
  <2>1. x \in Asked /\ told[x] = "new" /\ told'[r] = told[r]
    BY <1>1, <1>3 DEF Ask, Asked
  <2> QED
    BY <1>2, <1>3, <2>1 DEF Ask, history
<1>4. ASSUME NEW x \in Probe, Subscribed(x)
      PROVE  told'[r] = told[r] /\ (r \in sent' => r \in sent)
  <2>1. x \in Asked /\ told[x] = "new" /\ told'[r] = told[r]
    BY <1>1, <1>4 DEF Subscribed, Asked
  <2> QED
    BY <1>2, <1>4, <2>1 DEF Subscribed
<1>5. CASE Answer
  <2>1. CASE handler = None
    BY <1>5, <2>1 DEF Answer, history
  <2>2. CASE handler # None
    <3>1. PICK how \in {"ok", "failed"} : told' = Settle({handler}, how)
      BY <1>5, <2>2 DEF Answer
    <3>2. Drain(queue, FALSE, None, timers \ {handler})
      BY <1>5, <2>2 DEF Answer
    <3>3. queue # <<>> => told[Head(queue)] = "waiting"
      BY <1>1, Heads DEF QInv, Waiting
    <3> QED
      BY <3>1, <3>2, <3>3, DrainSends DEF Settle
  <2> QED
    BY <2>1, <2>2
<1>6. ASSUME NEW x \in Asked, Timeout(x)
      PROVE  told'[r] = told[r] /\ (r \in sent' => r \in sent)
  BY <1>6 DEF Timeout, Settle, history
<1>7. CASE Close
  BY <1>7 DEF Close, history
<1>8. CASE Stop
  BY <1>8 DEF Stop, Settle, history
<1>9. CASE Initialise \/ Serve \/ Ignore
  BY <1>9 DEF Initialise, Serve, Ignore, history
<1>10. CASE UNCHANGED vars
  BY <1>10 DEF vars
<1> QED
  BY <1>3, <1>4, <1>5, <1>6, <1>7, <1>8, <1>9, <1>10 DEF Next

\* What a caller is told of stands for good, and what was failed while it waited is
\* not sent afterwards, also when dynamic security is activated again before an old
\* timeout fires (the timeout of lib/dynsec.js, _drain).
THEOREM NothingLate == Spec => NothingSentLate
<1>1. QInv /\ [Next]_vars =>
        [\A r \in Asked : told[r] \in {"ok", "failed"} => told'[r] = told[r] /\ (r \in sent' => r \in sent)]_vars
  BY SettledStep
<1> QED
  BY <1>1, QInit, QStep, PTL DEF Spec, NothingSentLate
-----------------------------------------------------------------------------
(* Who is told that a command was done *)

\* Requests that have their answer, or will not get it as their handler is gone.
Final(r) == told[r] \in {"ok", "failed"} \/ r \in cutOff

\* What is on its way belongs to the request under way, or to one that was settled
\* or cut off, in which case the request under way was sent behind it; a good answer
\* says that its command was done.
Paired ==
  /\ OnTheWay \subseteq sent
  /\ handler = None => \A r \in OnTheWay : Final(r)
  /\ handler # None => \A r \in OnTheWay : r # handler => Final(r) /\ handler \in behind
  /\ \A i \in DOMAIN answers : ~answers[i].error => answers[i].of \in done

AInv == QInv /\ Paired /\ AckedTookEffect

LEMMA OnTheWayAfter ==
  ASSUME QInv
  PROVE  /\ wire # <<>> => ToSet(Tail(wire)) \subseteq ToSet(wire) /\ Head(wire) \in ToSet(wire)
         /\ \A h \in Asked : ToSet(Append(wire, h)) = ToSet(wire) \cup {h}
<1>1. wire \in Seq(Asked)
  BY DEF QInv, TypeOK, Asked
<1>2. ASSUME wire # <<>>
      PROVE  ToSet(Tail(wire)) \subseteq ToSet(wire) /\ Head(wire) \in ToSet(wire)
  <2>1. /\ Head(wire) = wire[1] /\ Len(wire) \in Nat /\ Len(wire) > 0 /\ DOMAIN wire = 1 .. Len(wire)
        /\ DOMAIN Tail(wire) = 1 .. Len(wire) - 1
        /\ \A i \in 1 .. Len(wire) - 1 : Tail(wire)[i] = wire[i + 1]
    BY <1>1, <1>2, Heads
  <2> QED
    BY <2>1 DEF ToSet
<1>3. ASSUME NEW h \in Asked PROVE ToSet(Append(wire, h)) = ToSet(wire) \cup {h}
  <2> DEFINE w == Append(wire, h)
  <2>1. /\ DOMAIN w = 1 .. Len(wire) + 1 /\ DOMAIN wire = 1 .. Len(wire) /\ Len(wire) \in Nat
        /\ \A i \in 1 .. Len(wire) : w[i] = wire[i]
        /\ w[Len(wire) + 1] = h
    BY <1>1, Queues
  <2> HIDE DEF w
  <2>2. \A i \in DOMAIN w : i \in DOMAIN wire \/ i = Len(wire) + 1
    BY <2>1
  <2>3. ToSet(w) \subseteq ToSet(wire) \cup {h}
    BY <2>1, <2>2 DEF ToSet
  <2>4. ToSet(wire) \subseteq ToSet(w) /\ h \in ToSet(w)
    BY <2>1 DEF ToSet
  <2> QED
    BY <2>3, <2>4 DEF w
<1> QED
  BY <1>2, <1>3

\* Sending the head of the queue keeps requests and answers paired.
LEMMA DrainPairs ==
  ASSUME QInv, NEW q \in Seq(Asked), NEW busy, NEW h, NEW running, Drain(q, busy, h, running),
         busy = (h # None), cutOff' = cutOff,
         UnderWay \subseteq sent,
         h = None => \A r \in UnderWay : Final(r)',
         h # None => \A r \in UnderWay : r # h => Final(r)' /\ h \in behind
  PROVE  /\ OnTheWay' \subseteq sent'
         /\ handler' = None => \A r \in OnTheWay' : Final(r)'
         /\ handler' # None => \A r \in OnTheWay' : r # handler' => Final(r)' /\ handler' \in behind'
         /\ behind \subseteq behind' /\ sent \subseteq sent'
<1>1. None \notin Asked /\ sent \subseteq Asked
  BY DynsecAssumption DEF QInv, TypeOK
<1>2. CASE /\ queue' = q /\ inflight' = busy /\ handler' = h /\ timers' = running
           /\ UNCHANGED <<wire, sent, behind>>
  <2>1. OnTheWay' = UnderWay
    BY <1>2 DEF OnTheWay, UnderWay
  <2> QED
    BY <1>2, <2>1
<1>3. CASE /\ ~busy /\ q # <<>> /\ connected'
           /\ queue' = Tail(q) /\ inflight' = TRUE /\ handler' = Head(q)
           /\ timers' = running \cup {Head(q)}
           /\ wire' = Append(wire, Head(q)) /\ sent' = sent \cup {Head(q)}
           /\ behind' = IF UnderWay \cap Abandoned # {} THEN behind \cup {Head(q)} ELSE behind
  <2>1. Head(q) \in Asked /\ h = None
    BY <1>3, Heads
  <2>2. OnTheWay' = UnderWay \cup {Head(q)}
    BY <1>3, <2>1, OnTheWayAfter DEF OnTheWay, UnderWay
  <2>3. ASSUME NEW r \in UnderWay PROVE Final(r)' /\ Head(q) \in behind'
    <3>1. Final(r)' /\ r \in Abandoned
      BY <1>1, <1>3, <2>1 DEF Final, Told, Abandoned
    <3> QED
      BY <1>3, <3>1
  <2> QED
    BY <1>1, <1>3, <2>1, <2>2, <2>3
<1> QED
  BY <1>2, <1>3, DrainCases

\* A request that is new is not on its way.
LEMMA PEnqueue ==
  ASSUME AInv, NEW r \in Asked, told[r] = "new", told' = [told EXCEPT ![r] = "waiting"],
         Drain(Append(queue, r), inflight, handler, timers),
         UNCHANGED <<answers, done, cutOff>>
  PROVE  Paired' /\ AckedTookEffect'
<1>1. /\ queue \in Seq(Asked) /\ told \in [Asked -> {"new", "waiting", "ok", "failed"}]
      /\ sent \subseteq Asked /\ inflight = (handler # None)
  BY DEF AInv, QInv, TypeOK, Asked
<1>2. \A x \in Asked : told'[x] = IF x = r THEN "waiting" ELSE told[x]
  BY <1>1
<1>3. UnderWay = OnTheWay
  BY DEF UnderWay, OnTheWay
<1>4. r \notin UnderWay /\ UnderWay \subseteq sent
  BY <1>3 DEF AInv, Paired, QInv, Waiting
<1>5. \A x \in UnderWay : Final(x) => Final(x)'
  BY <1>1, <1>2, <1>4 DEF Final
<1>6. /\ handler = None => \A x \in UnderWay : Final(x)'
      /\ handler # None => \A x \in UnderWay : x # handler => Final(x)' /\ handler \in behind
  BY <1>3, <1>5 DEF AInv, Paired
<1> DEFINE q == Append(queue, r)
<1>8. q \in Seq(Asked) /\ Drain(q, inflight, handler, timers)
  BY <1>1, Queues
<1> HIDE DEF q
<1>9. /\ OnTheWay' \subseteq sent'
      /\ handler' = None => \A x \in OnTheWay' : Final(x)'
      /\ handler' # None => \A x \in OnTheWay' : x # handler' => Final(x)' /\ handler' \in behind'
      /\ behind \subseteq behind'
  BY <1>1, <1>4, <1>6, <1>8, DrainPairs DEF AInv
<1>10. Paired'
  BY <1>9 DEF AInv, Paired
<1>11. AckedTookEffect'
  BY <1>2, <1>9 DEF AInv, AckedTookEffect
<1> QED
  BY <1>10, <1>11

LEMMA AckedStep == ASSUME AInv, QInv', [Next]_vars PROVE AInv'
<1>1. /\ queue \in Seq(Asked) /\ wire \in Seq(Asked) /\ answers \in Seq(Reply)
      /\ told \in [Asked -> {"new", "waiting", "ok", "failed"}]
      /\ sent \subseteq Asked /\ None \notin Asked
      /\ \A S : <<>> \in Seq(S)
  BY DynsecAssumption DEF AInv, QInv, TypeOK, Asked, Reply
<1>2. ASSUME wire' = <<>>, answers' = <<>>
      PROVE  Paired'
  BY <1>2 DEF Paired, OnTheWay, ToSet
<1>3. ASSUME NEW r \in Request, Ask(r) PROVE Paired' /\ AckedTookEffect'
  <2>1. r \in Asked /\ told[r] = "new"
    BY <1>3 DEF Ask, Asked
  <2>2. CASE configured /\ connected
    BY <1>3, <2>1, <2>2, PEnqueue DEF Ask
  <2>3. CASE ~(configured /\ connected)
    <3>1. /\ told' = [told EXCEPT ![r] = "failed"]
          /\ UNCHANGED <<configured, queueVars, netVars, history>>
      BY <1>3, <2>3 DEF Ask, netVars, history
    <3>2. \A x \in Asked : told'[x] = IF x = r THEN "failed" ELSE told[x]
      BY <1>1, <3>1
    <3>3. \A x \in OnTheWay : x # r /\ x \in Asked
      BY <1>1, <2>1 DEF AInv, Paired, QInv, Waiting
    <3>4. Paired'
      BY <3>1, <3>2, <3>3 DEF AInv, Paired, OnTheWay, Final, queueVars, netVars, history
    <3> QED
      BY <3>1, <3>2, <3>4 DEF AInv, AckedTookEffect, netVars, history
  <2> QED
    BY <2>2, <2>3
<1>4. ASSUME NEW p \in Probe, Subscribed(p) PROVE Paired' /\ AckedTookEffect'
  BY <1>4, PEnqueue DEF Subscribed, Asked
<1>5. CASE Answer
  <2> DEFINE a == Head(answers)
             error == a.error /\ CommandOf[a.of] = CommandOf[handler]
  <2>1. /\ answers # <<>> /\ answers' = Tail(answers) /\ a = answers[1] /\ a \in Reply
        /\ DOMAIN answers' = 1 .. Len(answers) - 1 /\ DOMAIN answers = 1 .. Len(answers)
        /\ Len(answers) \in Nat /\ Len(answers) > 0
        /\ \A i \in 1 .. Len(answers) - 1 : answers'[i] = answers[i + 1]
        /\ UNCHANGED <<configured, connected, done>>
    BY <1>1, <1>5, Heads DEF Answer
  <2>2. \A i \in DOMAIN answers' : i + 1 \in DOMAIN answers /\ answers'[i] = answers[i + 1]
    BY <2>1
  <2>3. \A i \in DOMAIN answers' : ~answers'[i].error => answers'[i].of \in done'
    BY <2>1, <2>2 DEF AInv, Paired
  <2>4. UnderWay \subseteq OnTheWay /\ a.of \in OnTheWay /\ (~a.error => a.of \in done)
    <3>1. \A i \in DOMAIN answers' : \E j \in DOMAIN answers : answers'[i].of = answers[j].of
      BY <2>2
    <3>2. 1 \in DOMAIN answers /\ a = answers[1]
      BY <2>1
    <3> QED
      BY <3>1, <3>2 DEF UnderWay, OnTheWay, AInv, Paired
  <2>5. CASE handler = None
    <3>1. UNCHANGED <<told, queue, inflight, handler, timers, wire, sent, cutOff, behind>>
      BY <1>5, <2>5 DEF Answer, queueVars, history
    <3>2. OnTheWay' \subseteq OnTheWay
      BY <2>4, <3>1 DEF OnTheWay, UnderWay
    <3>3. Paired'
      BY <2>1, <2>3, <2>5, <3>1, <3>2 DEF AInv, Paired, Final
    <3> QED
      BY <2>1, <3>1, <3>3 DEF AInv, AckedTookEffect
  <2>6. CASE handler # None
    <3>1. /\ told' = Settle({handler}, IF error THEN "failed" ELSE "ok")
          /\ Drain(queue, FALSE, None, timers \ {handler})
      BY <1>5, <2>6 DEF Answer
    <3>2. handler \in Asked /\ handler \in sent /\ told[handler] # "new"
      BY <2>6 DEF AInv, Paired, QInv, TypeOK, Busy, Waiting
    <3>3. told'[handler] \in {"ok", "failed"} /\ \A r \in Asked \ {handler} : told'[r] = told[r]
      BY <1>1, <3>1, <3>2 DEF Settle
    <3>6. cutOff' = cutOff
      BY <1>5 DEF Answer
    <3>4. \A r \in UnderWay : Final(r)'
      <4> SUFFICES ASSUME NEW r \in UnderWay PROVE Final(r)'
        OBVIOUS
      <4>1. r \in Asked
        BY <1>1, <2>4 DEF AInv, Paired
      <4> QED
        BY <2>4, <2>6, <3>3, <3>6, <4>1 DEF AInv, Paired, Final
    <3>5. UnderWay \subseteq sent
      BY <2>4 DEF AInv, Paired
    <3>7. /\ OnTheWay' \subseteq sent'
          /\ handler' = None => \A r \in OnTheWay' : Final(r)'
          /\ handler' # None => \A r \in OnTheWay' : r # handler' => Final(r)' /\ handler' \in behind'
          /\ behind \subseteq behind'
      BY <1>1, <3>1, <3>4, <3>5, <3>6, DrainPairs DEF AInv
    <3>8. Paired'
      BY <2>1, <2>3, <3>2, <3>7 DEF Paired
    <3>9. told'[handler] = "ok" /\ told[handler] # "ok" => handler \in done \/ handler \in behind
      <4>1. CASE a.of = handler
        <5>1. a.error \in BOOLEAN
          BY <2>1 DEF Reply
        <5> QED
          BY <2>4, <3>1, <3>2, <4>1, <5>1 DEF Settle
      <4>2. CASE a.of # handler
        BY <2>4, <2>6, <4>2 DEF AInv, Paired
      <4> QED
        BY <4>1, <4>2
    <3>10. AckedTookEffect'
      BY <2>1, <3>3, <3>7, <3>9 DEF AInv, AckedTookEffect
    <3> QED
      BY <3>8, <3>10 DEF AInv
  <2> QED
    BY <2>5, <2>6
<1>6. ASSUME NEW r \in Asked, Timeout(r) PROVE Paired' /\ AckedTookEffect'
  <2>1. /\ handler' = None /\ cutOff' = cutOff \cup ({handler} \ {r, None})
        /\ told' = Settle({r} \cup ToSet(queue), "failed")
        /\ UNCHANGED <<configured, connected, wire, answers, done, sent, behind>>
    BY <1>6 DEF Timeout, netVars, history
  <2>2. \A x \in Asked : told'[x] = told[x] \/ told'[x] = "failed"
    BY <2>1 DEF Settle
  <2>3. \A x \in Asked : Final(x) => Final(x)'
    BY <2>1, <2>2 DEF Final
  <2>4. handler # None => handler \in Asked /\ told[handler] # "new"
    BY DEF AInv, QInv, TypeOK, Busy, Waiting
  <2>5. ASSUME NEW x \in Asked, x = handler PROVE Final(x)'
    <3>1. x # None /\ told[x] # "new"
      BY <1>1, <2>4, <2>5
    <3>2. CASE r = x
      BY <1>1, <2>1, <3>1, <3>2 DEF Final, Settle
    <3>3. CASE r # x
      BY <2>1, <2>5, <3>1, <3>3 DEF Final
    <3> QED
      BY <3>2, <3>3
  <2>6. \A x \in OnTheWay : x \in Asked /\ Final(x)'
    BY <1>1, <2>3, <2>5 DEF AInv, Paired
  <2> QED
    BY <2>1, <2>2, <2>6 DEF AInv, Paired, OnTheWay, AckedTookEffect
<1>7. CASE Close
  <2>1. wire' = <<>> /\ answers' = <<>> /\ done \subseteq done'
    BY <1>7 DEF Close, Break
  <2>2. UNCHANGED <<configured, queueVars, told, history>>
    BY <1>7 DEF Close
  <2>3. Paired'
    BY <1>2, <2>1, <2>2 DEF AInv, Paired, queueVars
  <2> QED
    BY <2>1, <2>2, <2>3 DEF AInv, AckedTookEffect, history
<1>8. CASE Stop
  <2>1. wire' = <<>> /\ answers' = <<>> /\ done \subseteq done'
    BY <1>8 DEF Stop, Break
  <2>2. configured' = FALSE /\ handler' = None /\ behind' = behind /\ told' = Settle(ToSet(queue), "failed")
    BY <1>8 DEF Stop, history
  <2>3. Paired'
    BY <1>2, <2>1, <2>2
  <2> QED
    BY <2>1, <2>2, <2>3 DEF AInv, AckedTookEffect, Settle
<1>9. CASE Initialise
  <2>1. UNCHANGED <<queueVars, told, netVars, history>>
    BY <1>9 DEF Initialise
  <2>2. Paired'
    BY <2>1 DEF AInv, Paired, OnTheWay, Final, queueVars, netVars, history
  <2> QED
    BY <2>1, <2>2 DEF AInv, AckedTookEffect, netVars, history
<1>10. CASE Serve
  <2>1. /\ wire # <<>> /\ wire' = Tail(wire) /\ Head(wire) \in Asked
        /\ ToSet(wire') \subseteq ToSet(wire) /\ Head(wire) \in ToSet(wire)
    BY <1>1, <1>10, Heads, OnTheWayAfter DEF Serve, AInv
  <2>2. PICK error \in BOOLEAN :
          /\ done' = IF error THEN done ELSE done \cup {Head(wire)}
          /\ answers' = Append(answers, [of |-> Head(wire), error |-> error])
    BY <1>10 DEF Serve
  <2>3. UNCHANGED <<configured, queueVars, told, history>>
    BY <1>10 DEF Serve
  <2> DEFINE m == [of |-> Head(wire), error |-> error]
  <2>4. m \in Reply
    BY <2>1 DEF Reply
  <2>5. m.of = Head(wire) /\ m.error = error /\ answers' = Append(answers, m)
    BY <2>2
  <2> HIDE DEF m
  <2>6. /\ DOMAIN answers' = 1 .. Len(answers) + 1 /\ DOMAIN answers = 1 .. Len(answers) /\ Len(answers) \in Nat
        /\ \A i \in 1 .. Len(answers) : answers'[i] = answers[i]
        /\ answers'[Len(answers) + 1] = m
    BY <1>1, <2>4, <2>5, Queues
  <2>7. \A i \in DOMAIN answers' : (i \in DOMAIN answers /\ answers'[i] = answers[i]) \/ answers'[i] = m
    <3> SUFFICES ASSUME NEW i \in 1 .. Len(answers) + 1
                 PROVE  (i \in DOMAIN answers /\ answers'[i] = answers[i]) \/ answers'[i] = m
      BY <2>6
    <3>1. CASE i = Len(answers) + 1
      BY <2>6, <3>1
    <3>2. CASE i \in 1 .. Len(answers)
      BY <2>6, <3>2
    <3> QED
      BY <2>6, <3>1, <3>2
  <2>8. done \subseteq done' /\ (~m.error => m.of \in done')
    BY <2>2, <2>5
  <2>9. \A i \in DOMAIN answers' : ~answers'[i].error => answers'[i].of \in done'
    BY <2>7, <2>8 DEF AInv, Paired
  <2>10. OnTheWay' \subseteq OnTheWay
    BY <2>1, <2>5, <2>7 DEF OnTheWay
  <2>11. Paired'
    BY <2>3, <2>9, <2>10 DEF AInv, Paired, Final, queueVars, history
  <2> QED
    BY <2>3, <2>8, <2>11 DEF AInv, AckedTookEffect, history
<1>11. CASE Ignore
  <2>1. ToSet(wire') \subseteq ToSet(wire)
    BY <1>11, OnTheWayAfter DEF Ignore, AInv
  <2>2. UNCHANGED <<configured, queueVars, told, answers, done, history>>
    BY <1>11 DEF Ignore
  <2>3. OnTheWay' \subseteq OnTheWay
    BY <2>1, <2>2 DEF OnTheWay
  <2>4. Paired'
    BY <2>2, <2>3 DEF AInv, Paired, Final, queueVars, history
  <2> QED
    BY <2>2, <2>4 DEF AInv, AckedTookEffect, history
<1>12. CASE UNCHANGED vars
  BY <1>12 DEF vars, AInv, Paired, OnTheWay, Final, AckedTookEffect
<1> QED
  BY <1>3, <1>4, <1>5, <1>6, <1>7, <1>8, <1>9, <1>10, <1>11, <1>12 DEF Next, AInv

\* A caller who is told that a command was done can rely on it, although answers
\* carry no id, connections break, requests time out and init() follows stop() while
\* an old timer runs; only what was sent behind the answer to a request that was
\* settled or cut off is excused (the 'message' handler, the timeout and _drain of
\* lib/dynsec.js, POST /wizard/reinit of web/broker-api.js).
THEOREM AckedKept == Spec => []AckedTookEffect
<1>1. Init => AInv
  <2> SUFFICES ASSUME Init PROVE AInv
    OBVIOUS
  <2>1. Paired /\ AckedTookEffect
    BY DEF Init, Paired, OnTheWay, ToSet, AckedTookEffect
  <2> QED
    BY <2>1, QInit DEF AInv
<1>2. AInv /\ [Next]_vars => AInv'
  BY AckedStep, QStep DEF AInv
<1>3. AInv => AckedTookEffect
  BY DEF AInv
<1> QED
  BY <1>1, <1>2, <1>3, PTL DEF Spec
=============================================================================
