---------------------------- MODULE Start_proofs ----------------------------
(***************************************************************************)
(* Proofs about how the daemon starts (src/index.js).                      *)
(*                                                                         *)
(* Whether with user scripts (SafeMode), for any number of instances, any  *)
(* thresholds and any length of the record: the state is well typed; as    *)
(* long as instances do not start together the marker stays with its       *)
(* owner; and if none is killed while it starts either, the record is what *)
(* became of the killed runs, so that safe mode is entered after a loop    *)
(* and only then.                                                          *)
(*                                                                         *)
(* When (StartGate), for any set of topics, any timeouts and any number of *)
(* connections: the state is well typed, the sentinel never opens the gate *)
(* on a store that lacks a retained topic, and scripts start by the        *)
(* deadline.                                                               *)
(***************************************************************************)
EXTENDS SafeMode, StartGate, SequenceTheorems, FiniteSetTheorems, TLAPS

Entries == [end : Times, early : BOOLEAN]
Starting(i) == phase[i] \in {"looked", "recorded"}

\* Runs have numbers of their own.
RunsApart ==
    /\ \A i \in Instances : run[i] <= runs /\ (phase[i] # "down" => run[i] # 0)
    /\ \A i, j \in Instances : i # j /\ run[i] = run[j] => run[i] = 0

\* One instance starts at a time, and when it may take the marker nobody has it.
OneStarts ==
    \A i \in Instances : Starting(i) =>
        /\ \A j \in Instances \ {i} : ~Starting(j)
        /\ before[i] # "live" => \A j \in Instances : ~written[j]

OwnersUp == \A i \in Instances : written[i] => phase[i] = "up"

IInv == TypeOK /\ RunsApart /\ OneStarts /\ OwnersUp /\ MarkerOwned

-----------------------------------------------------------------------------
(* Lemmas *)

\* The record with one more end is a record, cut to Keep (crash-record.js evaluate).
LEMMA RecordType ==
    ASSUME TypeOK, NEW start \in {NoTime} \cup Times
    PROVE  RecordWith(start) \in Seq(Entries) /\ Len(RecordWith(start)) <= Keep
<1> DEFINE all == Append(crashes, Crash(start))
<1>1. Keep \in Nat /\ Keep > 0 /\ Early \in Nat
  BY SafeModeOK
<1>2. Crash(start) \in Entries
  BY <1>1 DEF Crash, Entries, TypeOK, Times
<1>3. crashes \in Seq(Entries) /\ Len(crashes) <= Keep
  BY DEF TypeOK, Entries
<1>4. all \in Seq(Entries) /\ Len(all) = Len(crashes) + 1
  BY <1>2, <1>3
<1>5. CASE Len(all) > Keep
  <2>1. Last(all, Keep) = SubSeq(all, Len(all) - Keep + 1, Len(all))
    BY DEF Last
  <2>2. Len(all) - Keep + 1 \in 1 .. Len(all) + 1
    BY <1>1, <1>4, <1>5
  <2>3. \A k \in Len(all) - Keep + 1 .. Len(all) : all[k] \in Entries
    BY <1>1, <1>4, <1>5, <2>2
  <2>4. Len(all) \in Int /\ Len(all) - Keep + 1 \in Int
    BY <1>1, <1>4
  <2>5. /\ SubSeq(all, Len(all) - Keep + 1, Len(all)) \in Seq(Entries)
        /\ Len(SubSeq(all, Len(all) - Keep + 1, Len(all))) = Keep
    <3> HIDE DEF all
    <3> QED
      BY <1>1, <1>4, <1>5, <2>3, <2>4, SubSeqProperties
  <2> QED
    BY <1>1, <1>5, <2>1, <2>5 DEF RecordWith
<1>6. CASE ~(Len(all) > Keep)
  BY <1>1, <1>4, <1>6 DEF RecordWith
<1> QED
  BY <1>5, <1>6

-----------------------------------------------------------------------------
(* Types *)

LEMMA TypeInit == Init => TypeOK
  BY SafeModeOK DEF Init, TypeOK, NoMarker, NoTime, Times

LEMMA TypeStep ==
    ASSUME TypeOK, [Next]_vars
    PROVE  TypeOK'
<1> USE DEF TypeOK, Times
<1>0. Early \in Nat /\ Keep \in Nat /\ Keep > 0 /\ MaxTime \in Nat /\ MaxRuns \in Nat
  BY SafeModeOK
<1>1. CASE Tick
  BY <1>0, <1>1 DEF Tick, runVars
<1>2. ASSUME NEW i \in Instances, Look(i)
      PROVE  TypeOK'
  <2>1. marker \in [run : 0 .. MaxRuns, start : {NoTime} \cup Times] /\ run' \in [Instances -> 0 .. MaxRuns] /\ runs' \in 0 .. MaxRuns
    BY <1>0, <1>2 DEF Look
  <2>2. phase' \in [Instances -> {"down", "looked", "recorded", "up"}] /\ before' \in [Instances -> {"null", "live", "stale"}]
    BY <1>2 DEF Look
  <2>3. dead' \in [Instances -> {NoTime} \cup Times] /\ born' \in [Instances -> Times] /\ safe' \in [Instances -> BOOLEAN]
    BY <1>2, <2>1 DEF Look
  <2> QED
    BY <1>2, <2>1, <2>2, <2>3 DEF Look
<1>3. ASSUME NEW i \in Instances, Record(i)
      PROVE  TypeOK'
  <2>1. CASE before[i] = "stale"
    <3>1. dead[i] \in {NoTime} \cup Times
      OBVIOUS
    <3>2. crashes' = RecordWith(dead[i])
      BY <1>3, <2>1 DEF Record
    <3>3. crashes' \in Seq([end : Times, early : BOOLEAN]) /\ Len(crashes') <= Keep
      BY <3>1, <3>2, RecordType DEF Entries
    <3>4. Decides(crashes') \in BOOLEAN
      BY DEF Decides
    <3>5. safe' \in [Instances -> BOOLEAN]
      BY <1>3, <2>1, <3>4 DEF Record
    <3> QED
      BY <1>3, <3>3, <3>5 DEF Record
  <2>2. CASE before[i] # "stale"
    BY <1>3, <2>2 DEF Record
  <2> QED
    BY <2>1, <2>2
<1>4. ASSUME NEW i \in Instances, Mark(i)
      PROVE  TypeOK'
  <2>1. phase' \in [Instances -> {"down", "looked", "recorded", "up"}]
    BY <1>4 DEF Mark
  <2>2. CASE before[i] = "live"
    BY <1>4, <2>1, <2>2 DEF Mark, runVars
  <2>3. CASE before[i] # "live"
    <3>1. marker' = [run |-> run[i], start |-> now] /\ written' = [written EXCEPT ![i] = TRUE]
      BY <1>4, <2>3 DEF Mark
    <3>2. run[i] \in 0 .. MaxRuns /\ now \in 0 .. MaxTime
      OBVIOUS
    <3>3. marker' \in [run : 0 .. MaxRuns, start : {NoTime} \cup Times]
      BY <3>1, <3>2
    <3>4. written' \in [Instances -> BOOLEAN]
      BY <3>1
    <3> QED
      BY <1>4, <2>1, <3>3, <3>4 DEF Mark, runVars
  <2> QED
    BY <2>2, <2>3
<1>5. ASSUME NEW i \in Instances, Healthy(i)
      PROVE  TypeOK'
  BY <1>0, <1>5 DEF Healthy, runVars
<1>6. ASSUME NEW i \in Instances, Stop(i)
      PROVE  TypeOK'
  BY <1>0, <1>6 DEF Stop, StopAnd, runVars, NoMarker, NoTime
<1>7. ASSUME NEW i \in Instances, Kill(i)
      PROVE  TypeOK'
  <2>1. phase' \in [Instances -> {"down", "looked", "recorded", "up"}]
    BY <1>7 DEF Kill
  <2>2. left' \in [Instances -> {NoTime} \cup Times] /\ written' \in [Instances -> BOOLEAN]
    BY <1>7 DEF Kill
  <2> DEFINE S == [start : Times, at : Times]
             e == [start |-> born[i], at |-> now]
  <2>3. e \in S /\ ends \in Seq(S)
    OBVIOUS
  <2>4. ends' = ends \/ ends' = Append(ends, e)
    BY <1>7 DEF Kill
  <2>5. ends' \in Seq(S)
    <3>1. Append(ends, e) \in Seq(S)
      <4> HIDE DEF S, e, TypeOK, Times
      <4> QED
        BY <2>3
    <3> QED
      BY <2>3, <2>4, <3>1
  <2> QED
    BY <1>7, <2>1, <2>2, <2>5 DEF Kill, runVars
<1>8. CASE UNCHANGED vars
  BY <1>8 DEF vars, runVars
<1> QED
  BY <1>1, <1>2, <1>3, <1>4, <1>5, <1>6, <1>7, <1>8 DEF Next

\* Every variable of safe mode keeps its type, and the record its length.
THEOREM TypeCorrect == Spec => []TypeOK
<1>1. Init => TypeOK
  BY TypeInit
<1>2. TypeOK /\ [Next]_vars => TypeOK'
  BY TypeStep
<1> QED
  BY <1>1, <1>2, PTL DEF Spec

-----------------------------------------------------------------------------
(* The marker *)

\* Whoever is to take the marker found that nobody had it.
LEMMA FreeWhenLooked ==
    ASSUME IInv, NEW i \in Instances, Look(i), before'[i] # "live"
    PROVE  \A j \in Instances : ~written[j]
<1> SUFFICES ASSUME NEW j \in Instances, written[j] PROVE FALSE
  OBVIOUS
<1>1. marker.run = run[j] /\ phase[j] = "up" /\ run[j] # 0
  BY DEF IInv, MarkerOwned, OwnersUp, RunsApart
<1>2. marker # NoMarker /\ Live(marker.run)
  BY <1>1 DEF NoMarker, Live
<1>3. before'[i] = "live"
  BY <1>2 DEF Look, IInv, TypeOK
<1> QED
  BY <1>3

LEMMA OwnedStep ==
    ASSUME "together" \notin Races, IInv, [Next]_vars
    PROVE  IInv'
<1>0. TypeOK /\ TypeOK'
  BY TypeStep DEF IInv
<1>00. /\ phase \in [Instances -> {"down", "looked", "recorded", "up"}]
       /\ run \in [Instances -> 0 .. MaxRuns] /\ runs \in 0 .. MaxRuns
       /\ before \in [Instances -> {"null", "live", "stale"}]
       /\ written \in [Instances -> BOOLEAN] /\ MaxRuns \in Nat
  BY <1>0, SafeModeOK DEF TypeOK
<1>000. RunsApart /\ OneStarts /\ OwnersUp /\ MarkerOwned
  BY DEF IInv
<1> SUFFICES RunsApart' /\ OneStarts' /\ OwnersUp' /\ MarkerOwned'
  BY <1>0 DEF IInv
<1> USE <1>00, <1>000 DEF RunsApart, OneStarts, OwnersUp, MarkerOwned, Starting
<1>1. CASE Tick
  BY <1>1 DEF Tick, runVars
<1>2. ASSUME NEW i \in Instances, Look(i)
      PROVE  RunsApart' /\ OneStarts' /\ OwnersUp' /\ MarkerOwned'
  <2>1. run' = [run EXCEPT ![i] = runs + 1] /\ runs' = runs + 1 /\ phase[i] = "down"
    BY <1>2 DEF Look
  <2>2. phase' = [phase EXCEPT ![i] = "looked"] /\ marker' = marker /\ written' = written
    BY <1>2 DEF Look
  <2>3. \A j \in Instances \ {i} : before'[j] = before[j]
    BY <1>2 DEF Look
  <2>4. \A j \in Instances : phase[j] \in {"down", "up"}
    BY <1>2 DEF Look
  <2>5. RunsApart'
    BY <2>1, <2>2
  <2>6. before'[i] # "live" => \A j \in Instances : ~written[j]
    BY <1>2, FreeWhenLooked
  <2>7. OneStarts'
    BY <2>2, <2>3, <2>4, <2>6
  <2>8. OwnersUp' /\ MarkerOwned'
    BY <2>1, <2>2
  <2> QED
    BY <2>5, <2>7, <2>8
<1>3. ASSUME NEW i \in Instances, Record(i)
      PROVE  RunsApart' /\ OneStarts' /\ OwnersUp' /\ MarkerOwned'
  BY <1>3 DEF Record
<1>4. ASSUME NEW i \in Instances, Mark(i)
      PROVE  RunsApart' /\ OneStarts' /\ OwnersUp' /\ MarkerOwned'
  BY <1>4 DEF Mark, runVars
<1>5. ASSUME NEW i \in Instances, Healthy(i)
      PROVE  RunsApart' /\ OneStarts' /\ OwnersUp' /\ MarkerOwned'
  BY <1>5 DEF Healthy, runVars
<1>6. ASSUME NEW i \in Instances, Stop(i)
      PROVE  RunsApart' /\ OneStarts' /\ OwnersUp' /\ MarkerOwned'
  BY <1>6 DEF Stop, StopAnd, runVars, NoMarker
<1>7. ASSUME NEW i \in Instances, Kill(i)
      PROVE  RunsApart' /\ OneStarts' /\ OwnersUp' /\ MarkerOwned'
  BY <1>7 DEF Kill, runVars
<1>8. CASE UNCHANGED vars
  BY <1>8 DEF vars, runVars
<1> QED
  BY <1>1, <1>2, <1>3, <1>4, <1>5, <1>6, <1>7, <1>8 DEF Next

\* If no two instances start together, the marker of a run that wrote one stays
\* until that run ends, whatever else starts, stops or is killed.
THEOREM MarkerKept ==
    ASSUME "together" \notin Races
    PROVE  Spec => []MarkerOwned
<1>1. Init => IInv
  BY TypeInit DEF Init, IInv, RunsApart, OneStarts, OwnersUp, MarkerOwned, Starting
<1>2. IInv /\ [Next]_vars => IInv'
  BY OwnedStep
<1>3. IInv => MarkerOwned
  BY DEF IInv
<1> QED
  BY <1>1, <1>2, <1>3, PTL DEF Spec

-----------------------------------------------------------------------------
(* The record and the runs that were killed *)

\* The last run that was killed is not in the record yet.
Pending ==
    /\ marker # NoMarker
    /\ \A j \in Instances : ~written[j] /\ ~(phase[j] = "recorded" /\ before[j] = "stale")

\* Killed runs the record has seen.
Known == IF Pending THEN Len(ends) - 1 ELSE Len(ends)

\* c is what a later start has recorded of e.
Fits(c, e) ==
    /\ e.start <= e.at /\ e.at <= c.end /\ c.end <= e.at + Downtime
    /\ c.early <=> c.end - e.start < Early

\* list holds the last of the first n killed runs, up to Keep.
Records(list, n) ==
    /\ Len(list) = IF n < Keep THEN n ELSE Keep
    /\ \A k \in 1 .. Len(list) : Fits(list[k], ends[n - Len(list) + k])

RecordKept == Records(crashes, Known)

\* The run not in the record yet has left the marker and will be found in time.
PendingEnd ==
    Pending =>
        /\ Len(ends) > 0 /\ ends[Len(ends)].start = marker.start
        /\ ends[Len(ends)].start <= ends[Len(ends)].at
        /\ ends[Len(ends)].at <= now /\ now <= ends[Len(ends)].at + Downtime
        /\ \E i \in Instances :
              \/ phase[i] = "down" /\ left[i] = ends[Len(ends)].at
              \/ phase[i] = "looked" /\ before[i] = "stale"

\* What an instance knows of the marker and of its own run.
Place(i) ==
    /\ phase[i] # "down" /\ run[i] = marker.run => written[i]
    /\ phase[i] = "up" => (written[i] <=> before[i] # "live")
    /\ written[i] => marker.start = born[i] /\ marker # NoMarker
    /\ born[i] <= now
    /\ Starting(i) => born[i] = now
    /\ Starting(i) /\ before[i] = "null" => marker = NoMarker
    /\ Starting(i) /\ before[i] = "stale" => marker # NoMarker /\ dead[i] = marker.start
    /\ phase[i] # "down" /\ safe[i] => before[i] = "stale" /\ phase[i] # "looked"
Places == marker.run <= runs /\ \A i \in Instances : Place(i)

\* The last Count killed runs, seen from a start at b, were killed early; so early
\* that every start after them found them early.
EarlyLoop(b) ==
    /\ Len(ends) >= Count
    /\ \A k \in Len(ends) - Count + 1 .. Len(ends) :
          ends[k].at - ends[k].start < Early /\ b - ends[k].at < Window + Early
CertainLoop(b) ==
    /\ Len(ends) >= Count
    /\ \A k \in Len(ends) - Count + 1 .. Len(ends) :
          ends[k].at + Downtime - ends[k].start < Early /\ b - ends[k].at <= Window

\* A start that has recorded a dead run decides by the killed runs.
Decided(i) ==
    phase[i] \in {"recorded", "up"} /\ before[i] = "stale" =>
        /\ safe[i] => EarlyLoop(born[i])
        /\ Count <= Keep /\ CertainLoop(born[i]) => safe[i]
AllDecided == \A i \in Instances : Decided(i)

LInv == IInv /\ Places /\ RecordKept /\ PendingEnd /\ AllDecided

Ends == [start : Times, at : Times]

LEMMA Numbers ==
    /\ Early \in Nat /\ Count \in Nat /\ Window \in Nat /\ Keep \in Nat /\ Downtime \in Nat
    /\ MaxTime \in Nat /\ MaxRuns \in Nat /\ Early > 0 /\ Count > 0 /\ Keep > 0
  BY SafeModeOK

\* The last c members of a sequence.
LEMMA LastMembers ==
    ASSUME NEW S, NEW s \in Seq(S), NEW c \in Nat, c > 0, c <= Len(s)
    PROVE  /\ Last(s, c) \in Seq(S) /\ Len(Last(s, c)) = c
           /\ \A k \in 1 .. c : Last(s, c)[k] = s[Len(s) - c + k]
           /\ Range(Last(s, c)) = {s[k] : k \in Len(s) - c + 1 .. Len(s)}
<1> DEFINE n == Len(s)
           t == SubSeq(s, n - c + 1, n)
<1>1. n \in Nat /\ n - c + 1 \in 1 .. n + 1 /\ n - c + 1 \in Int
  OBVIOUS
<1>2. \A k \in n - c + 1 .. n : s[k] \in S
  BY <1>1
<1>3. t \in Seq(S) /\ Len(t) = c /\ \A k \in 1 .. c : t[k] = s[n - c + k]
  <2>1. /\ t \in Seq(S)
        /\ Len(t) = IF n - c + 1 <= n THEN n - (n - c + 1) + 1 ELSE 0
        /\ \A k \in 1 .. n - (n - c + 1) + 1 : t[k] = s[n - c + 1 + k - 1]
    BY <1>1, <1>2, SubSeqProperties
  <2>2. n - (n - c + 1) + 1 = c /\ n - c + 1 <= n
    BY <1>1
  <2> HIDE DEF t
  <2>3. \A k \in 1 .. c : n - c + 1 + k - 1 = n - c + k
    BY <1>1
  <2> QED
    BY <2>1, <2>2, <2>3
<1> HIDE DEF t, n
<1>4. Range(t) = {s[k] : k \in n - c + 1 .. n}
  <2>1. DOMAIN t = 1 .. c
    BY <1>3
  <2>2. ASSUME NEW k \in 1 .. c PROVE n - c + k \in n - c + 1 .. n
    BY <1>1
  <2>3. ASSUME NEW k \in n - c + 1 .. n PROVE k - n + c \in 1 .. c /\ n - c + (k - n + c) = k
    BY <1>1
  <2>4. Range(t) = {t[k] : k \in 1 .. c}
    BY <2>1 DEF Range
  <2>5. ASSUME NEW k \in n - c + 1 .. n PROVE \E j \in 1 .. c : t[j] = s[k]
    <3>1. k - n + c \in 1 .. c /\ t[k - n + c] = s[n - c + (k - n + c)]
      BY <1>3, <2>3
    <3> QED
      BY <2>3, <3>1
  <2>6. ASSUME NEW x \in Range(t) PROVE x \in {s[k] : k \in n - c + 1 .. n}
    BY <1>3, <2>2, <2>4, <2>6
  <2>7. ASSUME NEW k \in n - c + 1 .. n PROVE s[k] \in Range(t)
    BY <2>4, <2>5
  <2> QED
    BY <2>6, <2>7
<1> QED
  BY <1>3, <1>4 DEF Last, t, n

\* The record with one more end, cut to Keep, has the last Keep ends.
LEMMA RecordGrows ==
    ASSUME TypeOK, NEW start \in {NoTime} \cup Times, NEW n \in Nat, n > 0,
           Records(crashes, n - 1), Fits(Crash(start), ends[n])
    PROVE  Records(RecordWith(start), n)
<1> DEFINE c == Crash(start)
           all == Append(crashes, c)
           m == Len(crashes)
<1>1. Keep \in Nat /\ Keep > 0 /\ Early \in Nat
  BY Numbers
<1>2. c \in Entries
  BY <1>1 DEF Crash, Entries, TypeOK, Times
<1>3. crashes \in Seq(Entries) /\ m \in Nat /\ m = (IF n - 1 < Keep THEN n - 1 ELSE Keep)
  BY DEF TypeOK, Entries, Records
<1>4. /\ all \in Seq(Entries) /\ Len(all) = m + 1
      /\ all[m + 1] = c /\ \A k \in 1 .. m : all[k] = crashes[k]
  BY <1>2, <1>3
<1>5. \A k \in 1 .. m : Fits(crashes[k], ends[n - 1 - m + k])
  BY DEF Records
<1>6. RecordWith(start) = IF Len(all) > Keep THEN Last(all, Keep) ELSE all
  BY DEF RecordWith
<1> HIDE DEF c, all, m
<1>7. CASE m + 1 > Keep
  <2>1. m = Keep /\ n > Keep
    BY <1>1, <1>3, <1>7
  <2>2. /\ Len(Last(all, Keep)) = Keep
        /\ \A k \in 1 .. Keep : Last(all, Keep)[k] = all[Len(all) - Keep + k]
    <3>1. all \in Seq(Entries) /\ Keep \in Nat /\ Keep > 0 /\ Keep <= Len(all)
      BY <1>1, <1>4, <2>1
    <3> QED
      BY <3>1, LastMembers
  <2>3. PICK list : list = Last(all, Keep)
    OBVIOUS
  <2>4. ASSUME NEW k \in 1 .. Keep PROVE Fits(list[k], ends[n - Keep + k])
    <3>1. list[k] = all[k + 1]
      <4>1. Len(all) - Keep + k = k + 1
        BY <1>1, <1>4, <2>1
      <4> QED
        BY <2>2, <2>3, <4>1
    <3>2. CASE k = Keep
      <4>1. n - Keep + k = n
        BY <1>1, <3>2
      <4> QED
        BY <1>4, <2>1, <3>1, <3>2, <4>1 DEF c
    <3>3. CASE k # Keep
      <4>1. k + 1 \in 1 .. m /\ n - 1 - m + (k + 1) = n - Keep + k
        BY <1>1, <2>1, <3>3
      <4> QED
        BY <1>4, <1>5, <3>1, <4>1
    <3> QED
      BY <3>2, <3>3
  <2>5. RecordWith(start) = list /\ Len(list) = Keep
    BY <1>4, <1>6, <1>7, <2>2, <2>3
  <2> QED
    BY <1>1, <2>1, <2>4, <2>5 DEF Records
<1>8. CASE ~(m + 1 > Keep)
  <2>1. m = n - 1 /\ n <= Keep
    BY <1>1, <1>3, <1>8
  <2>2. RecordWith(start) = all /\ Len(all) = n
    BY <1>4, <1>6, <1>8, <2>1
  <2>3. ASSUME NEW k \in 1 .. n PROVE Fits(all[k], ends[k])
    <3>1. CASE k = n
      BY <1>4, <2>1, <3>1 DEF c
    <3>2. CASE k # n
      <4>1. k \in 1 .. m /\ n - 1 - m + k = k
        BY <2>1, <3>2
      <4> QED
        BY <1>4, <1>5, <4>1
    <3> QED
      BY <3>1, <3>2
  <2>4. \A k \in 1 .. n : n - n + k = k
    OBVIOUS
  <2> QED
    BY <1>1, <2>1, <2>2, <2>3, <2>4 DEF Records
<1> QED
  BY <1>1, <1>3, <1>7, <1>8

\* A run from st to at, recorded at en, seen from t.
LEMMA NoticedEarly ==
    ASSUME NEW st \in Int, NEW at \in Int, NEW en \in Int, NEW t \in Int,
           en - st < Early, at <= en, t - en <= Window
    PROVE  at - st < Early /\ (st <= at => t - at < Window + Early)
  BY Numbers

LEMMA NoticedInTime ==
    ASSUME NEW st \in Int, NEW at \in Int, NEW en \in Int, NEW t \in Int,
           at + Downtime - st < Early, en <= at + Downtime, at <= en, t - at <= Window
    PROVE  en - st < Early /\ t - en <= Window
  BY Numbers

\* What the record decides is what the killed runs call for.
LEMMA RecordDecides ==
    ASSUME TypeOK, NEW list \in Seq(Entries), Records(list, Len(ends))
    PROVE  /\ Decides(list) => EarlyLoop(now)
           /\ Count <= Keep /\ CertainLoop(now) => Decides(list)
<1> DEFINE n == Len(ends)
           m == Len(list)
<1>1. /\ Keep \in Nat /\ Keep > 0 /\ Early \in Nat /\ Count \in Nat /\ Count > 0
      /\ Window \in Nat /\ Downtime \in Nat
  BY Numbers
<1>2. ends \in Seq(Ends) /\ n \in Nat /\ m \in Nat /\ m = (IF n < Keep THEN n ELSE Keep)
  BY DEF TypeOK, Records, Ends
<1>3. \A k \in 1 .. m : Fits(list[k], ends[n - m + k])
  BY DEF Records
<1>4. now \in Int /\ (\A k \in 1 .. n : ends[k].start \in Int /\ ends[k].at \in Int)
      /\ (\A k \in 1 .. m : list[k].end \in Int)
  <2>1. Times \subseteq Int /\ now \in Times
    BY DEF Times, TypeOK
  <2>2. ASSUME NEW k \in 1 .. n PROVE ends[k] \in Ends
    BY <1>2
  <2>3. ASSUME NEW k \in 1 .. m PROVE list[k] \in Entries
    OBVIOUS
  <2> HIDE DEF n, m
  <2> QED
    BY <2>1, <2>2, <2>3 DEF Ends, Entries
<1>5. Count <= m => Range(Last(list, Count)) = {list[k] : k \in m - Count + 1 .. m}
  BY <1>1, LastMembers
<1>6. Decides(list) <=>
        /\ m >= Count
        /\ \A k \in m - Count + 1 .. m : list[k].early /\ now - list[k].end <= Window
  BY <1>1, <1>2, <1>5 DEF Decides
<1> HIDE DEF n, m
<1>7. ASSUME Decides(list) PROVE EarlyLoop(now)
  <2>1. n >= Count
    BY <1>1, <1>2, <1>6, <1>7
  <2>2. ASSUME NEW k \in n - Count + 1 .. n
        PROVE  ends[k].at - ends[k].start < Early /\ now - ends[k].at < Window + Early
    <3> DEFINE j == m - n + k
    <3>1. j \in m - Count + 1 .. m /\ j \in 1 .. m /\ n - m + j = k /\ k \in 1 .. n
      BY <1>1, <1>2, <1>6, <1>7, <2>1
    <3>2. list[j].early /\ now - list[j].end <= Window /\ Fits(list[j], ends[k])
      BY <1>3, <1>6, <1>7, <3>1
    <3>3. list[j].end \in Int /\ ends[k].start \in Int /\ ends[k].at \in Int /\ now \in Int
      BY <1>4, <3>1
    <3>4. list[j].end - ends[k].start < Early /\ ends[k].at <= list[j].end /\ ends[k].start <= ends[k].at
      BY <3>2, Zenon DEF Fits
    <3> QED
      BY <3>2, <3>3, <3>4, NoticedEarly, Zenon
  <2> QED
    BY <2>1, <2>2 DEF EarlyLoop, n
<1>8. ASSUME Count <= Keep, CertainLoop(now) PROVE Decides(list)
  <2>1. n >= Count /\ m >= Count
    BY <1>1, <1>2, <1>8 DEF CertainLoop, n
  <2>2. ASSUME NEW j \in m - Count + 1 .. m
        PROVE  list[j].early /\ now - list[j].end <= Window
    <3> DEFINE k == n - m + j
    <3>1. k \in n - Count + 1 .. n /\ j \in 1 .. m /\ k \in 1 .. n /\ k = n - m + j
      BY <1>1, <1>2, <2>1
    <3> HIDE DEF k
    <3>2. /\ ends[k].at + Downtime - ends[k].start < Early /\ now - ends[k].at <= Window
          /\ Fits(list[j], ends[k])
      BY <1>3, <1>8, <3>1 DEF CertainLoop, n
    <3>3. list[j].end \in Int /\ ends[k].start \in Int /\ ends[k].at \in Int /\ now \in Int
      BY <1>4, <3>1
    <3>4. /\ ends[k].at <= list[j].end /\ list[j].end <= ends[k].at + Downtime
          /\ list[j].early <=> list[j].end - ends[k].start < Early
      BY <3>2, Zenon DEF Fits
    <3>5. ASSUME ends[k].at + Downtime - ends[k].start < Early, now - ends[k].at <= Window,
                 list[j].end <= ends[k].at + Downtime, ends[k].at <= list[j].end
          PROVE  list[j].end - ends[k].start < Early /\ now - list[j].end <= Window
      BY <3>3, <3>5, NoticedInTime, Zenon
    <3> QED
      BY <3>2, <3>4, <3>5, Zenon
  <2> QED
    BY <1>6, <2>1, <2>2
<1> QED
  BY <1>7, <1>8

-----------------------------------------------------------------------------
(* The steps, when instances do not start together and none is killed starting *)

Loop == Places /\ RecordKept /\ PendingEnd /\ AllDecided

LEMMA LoopTypes ==
    ASSUME IInv
    PROVE  /\ now \in Times /\ Times \subseteq Nat /\ runs \in Nat /\ marker.run \in Nat
           /\ \A i \in Instances : born[i] \in Nat /\ run[i] \in Nat
           /\ phase \in [Instances -> {"down", "looked", "recorded", "up"}]
           /\ run \in [Instances -> 0 .. MaxRuns]
           /\ before \in [Instances -> {"null", "live", "stale"}]
           /\ dead \in [Instances -> {NoTime} \cup Times]
           /\ safe \in [Instances -> BOOLEAN] /\ written \in [Instances -> BOOLEAN]
           /\ born \in [Instances -> Times] /\ left \in [Instances -> {NoTime} \cup Times]
           /\ ends \in Seq(Ends) /\ Len(ends) \in Nat
           /\ NoTime \notin Nat
  BY SafeModeOK DEF IInv, TypeOK, Times, Ends, NoTime

\* A run that wrote the marker is the only one.
LEMMA OneOwner ==
    ASSUME IInv, NEW i \in Instances, written[i]
    PROVE  /\ phase[i] = "up" /\ run[i] # 0
           /\ \A j \in Instances \ {i} : ~written[j] /\ run[j] # run[i]
           /\ \A j \in Instances : Starting(j) => before[j] = "live"
  BY DEF IInv, OwnersUp, MarkerOwned, RunsApart, OneStarts, Starting

LEMMA TickStep ==
    ASSUME IInv, Loop, Tick
    PROVE  Loop'
<1> USE LoopTypes
<1>1. /\ \A i \in Instances : phase[i] \in {"down", "up"}
      /\ \A i \in Instances : phase[i] = "down" /\ left[i] # NoTime => now - left[i] < Downtime
      /\ now' = now + 1
      /\ UNCHANGED <<marker, crashes, phase, run, before, dead, safe, born, written, left, ends, runs>>
  BY DEF Tick, runVars
<1>2. Places'
  <2>1. marker'.run <= runs'
    BY <1>1 DEF Loop, Places
  <2>2. ASSUME NEW i \in Instances PROVE Place(i)'
    <3>1. Place(i) /\ born[i] <= now + 1 /\ ~Starting(i)
      BY <1>1 DEF Loop, Places, Place, Starting
    <3> QED
      BY <1>1, <3>1 DEF Place, Starting
  <2> QED
    BY <2>1, <2>2 DEF Places
<1>3. Pending' <=> Pending
  BY <1>1 DEF Pending
<1>4. RecordKept'
  BY <1>1, <1>3 DEF Loop, RecordKept, Known, Records, Fits
<1>5. PendingEnd'
  <2> SUFFICES ASSUME Pending PROVE PendingEnd'
    BY <1>3 DEF PendingEnd
  <2>1. PICK i \in Instances : phase[i] = "down" /\ left[i] = ends[Len(ends)].at
    BY <1>1 DEF Loop, PendingEnd
  <2>2. Len(ends) > 0 /\ ends[Len(ends)].at \in Nat
    <3>1. Len(ends) > 0
      BY DEF Loop, PendingEnd
    <3>2. ends[Len(ends)] \in Ends
      BY <3>1
    <3>3. ends[Len(ends)].at \in Times
      BY <3>2 DEF Ends
    <3> QED
      BY <3>1, <3>3
  <2>3. now - left[i] < Downtime
    BY <1>1, <2>1, <2>2
  <2>4. ends[Len(ends)].at <= now /\ ends[Len(ends)].start <= ends[Len(ends)].at /\ ends[Len(ends)].start = marker.start
    BY DEF Loop, PendingEnd
  <2>5. ends[Len(ends)].at <= now' /\ now' <= ends[Len(ends)].at + Downtime
    BY <1>1, <2>1, <2>2, <2>3, <2>4, Numbers
  <2> QED
    BY <1>1, <2>1, <2>2, <2>4, <2>5 DEF PendingEnd
<1>6. AllDecided'
  BY <1>1 DEF Loop, AllDecided, Decided, EarlyLoop, CertainLoop
<1> QED
  BY <1>2, <1>4, <1>5, <1>6 DEF Loop

LEMMA LookStep ==
    ASSUME IInv, Loop, NEW i \in Instances, Look(i), "together" \notin Races
    PROVE  Loop'
<1> USE LoopTypes
<1>1. /\ phase[i] = "down" /\ \A j \in Instances : phase[j] \in {"down", "up"}
      /\ runs' = runs + 1 /\ phase' = [phase EXCEPT ![i] = "looked"]
      /\ run' = [run EXCEPT ![i] = runs + 1] /\ born' = [born EXCEPT ![i] = now]
      /\ safe' = [safe EXCEPT ![i] = FALSE] /\ dead' = [dead EXCEPT ![i] = marker.start]
      /\ UNCHANGED <<now, marker, crashes, written, left, ends>>
  BY DEF Look
<1>2. before' = [before EXCEPT ![i] =
            IF marker = NoMarker THEN "null" ELSE IF Live(marker.run) THEN "live" ELSE "stale"]
  BY DEF Look
<1>3. ~written[i] /\ marker.run <= runs
  BY <1>1 DEF IInv, OwnersUp, Loop, Places
<1>4. Pending' <=> Pending
  BY <1>1, <1>2 DEF Pending
<1>5. Pending => before'[i] = "stale"
  BY <1>2 DEF Pending, Live, Loop, Places, Place
<1>6. Places'
  <2>1. marker'.run <= runs'
    BY <1>1, <1>3
  <2>2. Place(i)'
    BY <1>1, <1>2, <1>3 DEF Place, Starting
  <2>3. ASSUME NEW j \in Instances \ {i} PROVE Place(j)'
    <3>1. Place(j)
      BY DEF Loop, Places
    <3> QED
      BY <1>1, <1>2, <3>1 DEF Place, Starting
  <2> QED
    BY <2>1, <2>2, <2>3 DEF Places
<1>7. RecordKept'
  BY <1>1, <1>4 DEF Loop, RecordKept, Known, Records, Fits
<1>8. PendingEnd'
  BY <1>1, <1>2, <1>4, <1>5 DEF Loop, PendingEnd
<1>9. AllDecided'
  BY <1>1, <1>2 DEF Loop, AllDecided, Decided, EarlyLoop, CertainLoop
<1> QED
  BY <1>6, <1>7, <1>8, <1>9 DEF Loop

LEMMA RecordStep ==
    ASSUME IInv, Loop, NEW i \in Instances, Record(i)
    PROVE  Loop'
<1> USE LoopTypes
<1>1. /\ phase[i] = "looked" /\ phase' = [phase EXCEPT ![i] = "recorded"]
      /\ UNCHANGED <<now, marker, run, before, dead, written, born, left, ends, runs>>
  BY DEF Record
<1>2. ~safe[i] /\ born[i] = now
  BY <1>1 DEF Loop, Places, Place, Starting
<1>3. \A j \in Instances \ {i} : phase'[j] = phase[j] /\ ~Starting(j) /\ safe'[j] = safe[j]
  <2>1. safe' = safe \/ safe' = [safe EXCEPT ![i] = Decides(crashes')]
    BY DEF Record
  <2> QED
    BY <1>1, <2>1 DEF IInv, OneStarts, Starting
<1>4. before[i] # "stale" => safe' = safe /\ crashes' = crashes
  BY DEF Record
<1>5. Places'
  <2>1. marker'.run <= runs'
    BY <1>1 DEF Loop, Places
  <2>2. Place(i)'
    <3>1. Place(i) /\ safe' \in [Instances -> BOOLEAN] /\ ~written[i]
      BY <1>1, TypeStep DEF Loop, Places, IInv, OwnersUp, Record, Decides
    <3> QED
      BY <1>1, <1>2, <1>4, <3>1 DEF Place, Starting
  <2>3. ASSUME NEW j \in Instances \ {i} PROVE Place(j)'
    <3>1. Place(j)
      BY DEF Loop, Places
    <3> QED
      BY <1>1, <1>3, <3>1 DEF Place, Starting
  <2> QED
    BY <2>1, <2>2, <2>3 DEF Places
<1>6. CASE before[i] = "stale"
  <2>1. crashes' = RecordWith(dead[i]) /\ safe' = [safe EXCEPT ![i] = Decides(crashes')]
    BY <1>6 DEF Record
  <2>2. marker # NoMarker /\ dead[i] = marker.start
    BY <1>1, <1>6 DEF Loop, Places, Place, Starting
  <2>3. Pending
    BY <1>1, <1>3, <1>6, <2>2 DEF Pending, IInv, OneStarts, Starting
  <2>4. ~Pending'
    BY <1>1, <1>6 DEF Pending
  <2>5. PendingEnd'
    BY <2>4 DEF PendingEnd
  <2> DEFINE n == Len(ends)
  <2>6. n > 0 /\ n \in Nat /\ Records(crashes, n - 1)
    BY <2>3 DEF Loop, RecordKept, Known, PendingEnd
  <2>7. Fits(Crash(dead[i]), ends[n])
    <3>1. /\ ends[n].start = dead[i] /\ ends[n].start <= ends[n].at
          /\ ends[n].at <= now /\ now <= ends[n].at + Downtime
      BY <2>2, <2>3 DEF Loop, PendingEnd
    <3> HIDE DEF n
    <3> QED
      BY <3>1, Zenon DEF Fits, Crash
  <2>8. dead[i] \in {NoTime} \cup Times /\ TypeOK
    BY DEF IInv
  <2>9. Records(crashes', n) /\ crashes' \in Seq(Entries)
    <3>1. PICK s \in {NoTime} \cup Times : s = dead[i]
      BY <2>8
    <3>2. Records(RecordWith(s), n)
      BY <2>6, <2>7, <2>8, <3>1, RecordGrows
    <3>3. RecordWith(s) \in Seq(Entries)
      BY <2>8, RecordType
    <3> QED
      BY <2>1, <3>1, <3>2, <3>3
  <2>10. RecordKept'
    BY <1>1, <2>4, <2>9 DEF RecordKept, Known, Records, Fits
  <2>11. /\ Decides(crashes') => EarlyLoop(now)
         /\ Count <= Keep /\ CertainLoop(now) => Decides(crashes')
    <3>1. PICK list \in Seq(Entries) : list = crashes'
      BY <2>9
    <3>2. /\ Decides(list) => EarlyLoop(now)
          /\ Count <= Keep /\ CertainLoop(now) => Decides(list)
      BY <2>8, <2>9, <3>1, RecordDecides
    <3> QED
      BY <3>1, <3>2
  <2>12. Decided(i)'
    <3>1. safe'[i] = Decides(crashes')
      BY <2>1
    <3> QED
      BY <1>1, <1>2, <2>11, <3>1 DEF Decided, EarlyLoop, CertainLoop
  <2>13. ASSUME NEW j \in Instances \ {i} PROVE Decided(j)'
    <3>1. Decided(j)
      BY DEF Loop, AllDecided
    <3> QED
      BY <1>1, <1>3, <3>1 DEF Decided, EarlyLoop, CertainLoop
  <2> QED
    BY <1>5, <2>5, <2>10, <2>12, <2>13 DEF Loop, AllDecided
<1>7. CASE before[i] # "stale"
  <2>1. safe' = safe /\ crashes' = crashes
    BY <1>4, <1>7
  <2>2. Pending' <=> Pending
    BY <1>1, <1>7 DEF Pending
  <2>3. RecordKept'
    BY <1>1, <2>1, <2>2 DEF Loop, RecordKept, Known, Records, Fits
  <2>4. PendingEnd'
    BY <1>1, <1>7, <2>2 DEF Loop, PendingEnd
  <2>5. AllDecided'
    BY <1>1, <1>7, <2>1 DEF Loop, AllDecided, Decided, EarlyLoop, CertainLoop
  <2> QED
    BY <1>5, <2>3, <2>4, <2>5 DEF Loop
<1> QED
  BY <1>6, <1>7

LEMMA MarkStep ==
    ASSUME IInv, Loop, NEW i \in Instances, Mark(i)
    PROVE  Loop'
<1> USE LoopTypes
<1>1. /\ phase[i] = "recorded" /\ phase' = [phase EXCEPT ![i] = "up"]
      /\ UNCHANGED <<now, crashes, run, before, dead, safe, born, left, ends, runs>>
  BY DEF Mark, runVars
<1>2. \A j \in Instances \ {i} : ~Starting(j) /\ phase'[j] = phase[j]
  BY <1>1 DEF IInv, OneStarts, Starting
<1>3. born[i] = now /\ ~written[i] /\ run[i] # 0 /\ run[i] <= runs
  BY <1>1 DEF Loop, Places, Place, Starting, IInv, OwnersUp, RunsApart
<1>4. AllDecided'
  BY <1>1 DEF Loop, AllDecided, Decided, EarlyLoop, CertainLoop
<1>5. CASE before[i] = "live"
  <2>1. UNCHANGED <<marker, written>>
    BY <1>5 DEF Mark
  <2>2. Pending' <=> Pending
    BY <1>1, <1>5, <2>1 DEF Pending
  <2>3. RecordKept'
    BY <1>1, <2>2 DEF Loop, RecordKept, Known, Records, Fits
  <2>4. PendingEnd'
    BY <1>1, <2>1, <2>2 DEF Loop, PendingEnd
  <2>5. Places'
    <3>1. marker'.run <= runs'
      BY <1>1, <2>1 DEF Loop, Places
    <3>2. ASSUME NEW j \in Instances PROVE Place(j)'
      <4>1. Place(j)
        BY DEF Loop, Places
      <4>2. CASE j = i
        BY <1>1, <1>3, <1>5, <2>1, <4>1, <4>2 DEF Place, Starting
      <4>3. CASE j # i
        BY <1>1, <1>2, <2>1, <4>1, <4>3 DEF Place, Starting
      <4> QED
        BY <4>2, <4>3
    <3> QED
      BY <3>1, <3>2 DEF Places
  <2> QED
    BY <1>4, <2>3, <2>4, <2>5 DEF Loop
<1>6. CASE before[i] # "live"
  <2>1. marker' = [run |-> run[i], start |-> now] /\ written' = [written EXCEPT ![i] = TRUE]
    BY <1>6 DEF Mark
  <2>2. marker' # NoMarker /\ marker'.run = run[i] /\ marker'.start = now
    BY <2>1 DEF NoMarker
  <2>3. \A j \in Instances : ~written[j]
    BY <1>1, <1>6 DEF IInv, OneStarts, Starting
  <2>4. ~Pending
    BY <1>1, <1>6 DEF Pending, Loop, Places, Place, Starting
  <2>5. ~Pending'
    BY <2>1 DEF Pending
  <2>6. RecordKept'
    BY <1>1, <2>4, <2>5 DEF Loop, RecordKept, Known, Records, Fits
  <2>7. PendingEnd'
    BY <2>5 DEF PendingEnd
  <2>8. Places'
    <3>1. marker'.run <= runs'
      BY <1>1, <1>3, <2>2
    <3>2. ASSUME NEW j \in Instances PROVE Place(j)'
      <4>1. Place(j)
        BY DEF Loop, Places
      <4>2. CASE j = i
        BY <1>1, <1>3, <1>6, <2>1, <2>2, <4>1, <4>2 DEF Place, Starting
      <4>3. CASE j # i
        <5>1. run[j] # run[i] /\ ~written'[j] /\ ~Starting(j)
          BY <1>2, <1>3, <2>1, <2>3, <4>3 DEF IInv, RunsApart
        <5> QED
          BY <1>1, <1>2, <2>2, <2>3, <4>1, <4>3, <5>1 DEF Place, Starting
      <4> QED
        BY <4>2, <4>3
    <3> QED
      BY <3>1, <3>2 DEF Places
  <2> QED
    BY <1>4, <2>6, <2>7, <2>8 DEF Loop
<1> QED
  BY <1>5, <1>6

LEMMA HealthyStep ==
    ASSUME IInv, Loop, NEW i \in Instances, Healthy(i)
    PROVE  Loop'
<1> USE LoopTypes
<1>1. /\ phase[i] = "up" /\ before[i] # "live" /\ ~safe[i]
      /\ crashes' = <<>> /\ ends' = <<>>
      /\ UNCHANGED <<now, marker, phase, run, before, dead, safe, born, written, left, runs>>
  BY DEF Healthy, HealthyDue, runVars
<1>2. written[i]
  BY <1>1 DEF Loop, Places, Place
<1>3. ~Pending'
  BY <1>1, <1>2 DEF Pending
<1>4. RecordKept'
  <2>1. Len(crashes') = 0 /\ Len(ends') = 0
    BY <1>1
  <2> QED
    BY <1>1, <1>3, <2>1, Numbers DEF RecordKept, Known, Records
<1>5. PendingEnd'
  BY <1>3 DEF PendingEnd
<1>6. Places'
  BY <1>1 DEF Loop, Places, Place, Starting
<1>7. ASSUME NEW j \in Instances PROVE Decided(j)'
  <2>1. ~(phase[j] \in {"recorded", "up"} /\ before[j] = "stale" /\ safe[j])
    <3>1. CASE j = i
      BY <1>1, <3>1
    <3>2. CASE j # i
      <4>1. ~written[j] /\ (Starting(j) => before[j] = "live")
        BY <1>2, <3>2, OneOwner
      <4>2. Place(j)
        BY DEF Loop, Places
      <4> QED
        BY <4>1, <4>2 DEF Place, Starting
    <3> QED
      BY <3>1, <3>2
  <2>2. Len(ends') = 0
    BY <1>1
  <2> QED
    BY <1>1, <2>1, <2>2, Numbers DEF Decided, CertainLoop
<1> QED
  BY <1>4, <1>5, <1>6, <1>7 DEF Loop, AllDecided

LEMMA StopStep ==
    ASSUME IInv, Loop, NEW i \in Instances, Stop(i)
    PROVE  Loop'
<1> USE LoopTypes
<1>1. /\ phase[i] = "up" /\ phase' = [phase EXCEPT ![i] = "down"]
      /\ marker' = (IF written[i] THEN NoMarker ELSE marker)
      /\ written' = [written EXCEPT ![i] = FALSE] /\ left' = [left EXCEPT ![i] = NoTime]
      /\ UNCHANGED <<now, crashes, run, before, dead, safe, born, ends, runs>>
  BY DEF Stop, StopAnd, runVars
<1>2. Pending' <=> Pending
  BY <1>1 DEF Pending
<1>3. RecordKept'
  BY <1>1, <1>2 DEF Loop, RecordKept, Known, Records, Fits
<1>4. PendingEnd'
  <2> SUFFICES ASSUME Pending PROVE PendingEnd'
    BY <1>2 DEF PendingEnd
  <2>1. ~written[i] /\ marker' = marker
    BY <1>1 DEF Pending
  <2>2. \A j \in Instances : phase[j] # "up" => phase'[j] = phase[j] /\ left'[j] = left[j]
    BY <1>1
  <2> QED
    BY <1>1, <2>1, <2>2 DEF Loop, PendingEnd
<1>5. AllDecided'
  BY <1>1 DEF Loop, AllDecided, Decided, EarlyLoop, CertainLoop
<1>6. Places'
  <2>1. marker'.run <= runs'
    BY <1>1 DEF Loop, Places, NoMarker
  <2>2. ASSUME NEW j \in Instances PROVE Place(j)'
    <3>1. Place(j)
      BY DEF Loop, Places
    <3>2. CASE j = i
      BY <1>1, <3>1, <3>2 DEF Place, Starting
    <3>3. CASE j # i /\ ~written[i]
      BY <1>1, <3>1, <3>3 DEF Place, Starting
    <3>4. CASE j # i /\ written[i]
      <4>1. ~written[j] /\ (Starting(j) => before[j] = "live") /\ marker' = NoMarker /\ marker'.run = 0
        BY <1>1, <3>4, OneOwner DEF NoMarker
      <4>2. phase[j] # "down" => run[j] # 0
        BY DEF IInv, RunsApart
      <4> QED
        BY <1>1, <3>1, <3>4, <4>1, <4>2 DEF Place, Starting
    <3> QED
      BY <3>2, <3>3, <3>4
  <2> QED
    BY <2>1, <2>2 DEF Places
<1> QED
  BY <1>3, <1>4, <1>5, <1>6 DEF Loop

LEMMA KillStep ==
    ASSUME IInv, Loop, NEW i \in Instances, Kill(i), "torn" \notin Races
    PROVE  Loop'
<1> USE LoopTypes
<1>1. /\ phase[i] = "up" /\ phase' = [phase EXCEPT ![i] = "down"]
      /\ left' = [left EXCEPT ![i] = now] /\ written' = [written EXCEPT ![i] = FALSE]
      /\ ends' = (IF written[i] THEN Append(ends, [start |-> born[i], at |-> now]) ELSE ends)
      /\ UNCHANGED <<now, marker, crashes, run, before, dead, safe, born, runs>>
  BY DEF Kill, runVars
<1>2. CASE ~written[i]
  <2>1. written' = written /\ ends' = ends
    BY <1>1, <1>2
  <2>2. Pending' <=> Pending
    BY <1>1, <2>1 DEF Pending
  <2>3. RecordKept'
    BY <1>1, <2>1, <2>2 DEF Loop, RecordKept, Known, Records, Fits
  <2>4. PendingEnd'
    <3> SUFFICES ASSUME Pending PROVE PendingEnd'
      BY <2>2 DEF PendingEnd
    <3>1. \A j \in Instances : phase[j] # "up" => phase'[j] = phase[j] /\ left'[j] = left[j]
      BY <1>1
    <3> QED
      BY <1>1, <2>1, <3>1 DEF Loop, PendingEnd
  <2>5. AllDecided'
    BY <1>1, <2>1 DEF Loop, AllDecided, Decided, EarlyLoop, CertainLoop
  <2>6. Places'
    BY <1>1, <2>1 DEF Loop, Places, Place, Starting
  <2> QED
    BY <2>3, <2>4, <2>5, <2>6 DEF Loop
<1>3. CASE written[i]
  <2> DEFINE e == [start |-> born[i], at |-> now]
             n == Len(ends)
  <2>1. \A j \in Instances \ {i} : ~written[j] /\ run[j] # run[i]
    BY <1>3, OneOwner
  <2>2. \A j \in Instances : Starting(j) => before[j] = "live"
    BY <1>3, OneOwner
  <2>3. marker # NoMarker /\ marker.start = born[i] /\ marker.run = run[i] /\ born[i] <= now
    BY <1>3 DEF Loop, Places, Place, IInv, MarkerOwned
  <2>4. e \in Ends /\ ends' = Append(ends, e)
    BY <1>1, <1>3 DEF Ends
  <2>5. /\ n \in Nat /\ ends' \in Seq(Ends) /\ Len(ends') = n + 1
        /\ ends'[n + 1] = e /\ \A k \in 1 .. n : ends'[k] = ends[k]
    <3> HIDE DEF e
    <3> QED
      BY <2>4
  <2>6. ~Pending
    BY <1>3 DEF Pending
  <2>7. Pending'
    BY <1>1, <2>1, <2>2, <2>3 DEF Pending, Starting
  <2>8. RecordKept'
    <3>1. Records(crashes, n)
      BY <2>6 DEF Loop, RecordKept, Known
    <3> DEFINE m == Len(crashes)
    <3>2. m \in Nat /\ m = (IF n < Keep THEN n ELSE Keep) /\ Keep \in Nat
      BY <3>1, Numbers DEF Records, IInv, TypeOK
    <3> HIDE DEF n
    <3>3. \A k \in 1 .. m : n - m + k \in 1 .. n
      BY <2>5, <3>2
    <3>4. \A k \in 1 .. m : Fits(crashes[k], ends'[n - m + k])
      BY <2>5, <3>1, <3>3 DEF Records
    <3>5. Known' = n
      BY <2>5, <2>7 DEF Known
    <3>6. crashes' = crashes
      BY <1>1
    <3> HIDE DEF m
    <3>7. Len(crashes') = m
      BY <3>6 DEF m
    <3> QED
      BY <3>2, <3>4, <3>5, <3>6, <3>7 DEF RecordKept, Records, Fits
  <2>9. PendingEnd'
    <3>1. phase'[i] = "down" /\ left'[i] = now /\ e.start = born[i] /\ e.at = now
      BY <1>1
    <3>2. Downtime \in Nat
      BY Numbers
    <3> HIDE DEF e, n
    <3>3. /\ Len(ends') > 0 /\ ends'[Len(ends')].start = marker'.start
          /\ ends'[Len(ends')].start <= ends'[Len(ends')].at
          /\ ends'[Len(ends')].at <= now' /\ now' <= ends'[Len(ends')].at + Downtime
          /\ left'[i] = ends'[Len(ends')].at
      BY <1>1, <2>3, <2>5, <3>1, <3>2
    <3> QED
      BY <3>1, <3>3 DEF PendingEnd
  <2>10. ASSUME NEW j \in Instances PROVE Decided(j)'
    <3>1. ~(phase'[j] \in {"recorded", "up"} /\ before[j] = "stale")
      <4>1. CASE j = i
        BY <1>1, <4>1
      <4>2. CASE j # i
        <5>1. Place(j) /\ ~written[j] /\ (Starting(j) => before[j] = "live")
          BY <2>1, <2>2, <4>2 DEF Loop, Places
        <5> QED
          BY <1>1, <4>2, <5>1 DEF Place, Starting
      <4> QED
        BY <4>1, <4>2
    <3> QED
      BY <1>1, <3>1 DEF Decided
  <2>11. Places'
    <3>1. marker'.run <= runs'
      BY <1>1 DEF Loop, Places
    <3>2. ASSUME NEW j \in Instances PROVE Place(j)'
      <4>1. Place(j)
        BY DEF Loop, Places
      <4>2. CASE j = i
        BY <1>1, <4>1, <4>2 DEF Place, Starting
      <4>3. CASE j # i
        BY <1>1, <2>1, <2>3, <4>1, <4>3 DEF Place, Starting
      <4> QED
        BY <4>2, <4>3
    <3> QED
      BY <3>1, <3>2 DEF Places
  <2> QED
    BY <2>8, <2>9, <2>10, <2>11 DEF Loop, AllDecided
<1> QED
  BY <1>2, <1>3

LEMMA LoopStep ==
    ASSUME Races = {}, IInv, Loop, [Next]_vars
    PROVE  Loop'
<1>1. CASE UNCHANGED vars
  BY <1>1 DEF vars, runVars, Loop, Places, Place, Starting, RecordKept, Known, Records, Fits,
              PendingEnd, Pending, AllDecided, Decided, EarlyLoop, CertainLoop
<1> QED
  BY <1>1, TickStep, LookStep, RecordStep, MarkStep, HealthyStep, StopStep, KillStep DEF Next

LEMMA LoopInit == Init => Loop
<1> SUFFICES ASSUME Init PROVE Loop
  OBVIOUS
<1>1. ~Pending /\ Len(ends) = 0 /\ Len(crashes) = 0
  BY DEF Init, Pending
<1>2. RecordKept /\ PendingEnd
  BY <1>1, Numbers DEF RecordKept, Known, Records, PendingEnd
<1>3. Places /\ AllDecided
  BY DEF Init, Places, Place, Starting, AllDecided, Decided, NoMarker
<1> QED
  BY <1>2, <1>3 DEF Loop

LEMMA LoopKept ==
    ASSUME Races = {}
    PROVE  Spec => [](IInv /\ Loop)
<1>1. Init => IInv /\ Loop
  BY TypeInit, LoopInit DEF Init, IInv, RunsApart, OneStarts, OwnersUp, MarkerOwned, Starting
<1>2. IInv /\ Loop /\ [Next]_vars => (IInv /\ Loop)'
  BY OwnedStep, LoopStep
<1> QED
  BY <1>1, <1>2, PTL DEF Spec

\* The last Count ends are those at the last Count places.
LEMMA LastEndsAt ==
    ASSUME TypeOK, Len(ends) >= Count
    PROVE  Range(Last(ends, Count)) = {ends[k] : k \in Len(ends) - Count + 1 .. Len(ends)}
<1>1. ends \in Seq(Ends) /\ Count \in Nat /\ Count > 0 /\ Count <= Len(ends)
  BY Numbers DEF TypeOK, Ends
<1> QED
  BY <1>1, LastMembers

\* Safe mode is entered only after Count early ends in a row, if instances do not
\* start together and none is killed while it starts.
THEOREM OnlyAfterLoop ==
    ASSUME Races = {}
    PROVE  Spec => []SafeOnlyAfterLoop
<1>1. ASSUME IInv, Loop PROVE SafeOnlyAfterLoop
  <2> SUFFICES ASSUME NEW i \in Instances, phase[i] = "up", safe[i]
               PROVE  LastEnds(LAMBDA e : e.at - e.start < Early /\ born[i] - e.at < Window + Early)
    BY DEF SafeOnlyAfterLoop
  <2>1. before[i] = "stale"
    BY <1>1 DEF Loop, Places, Place
  <2>2. EarlyLoop(born[i])
    BY <1>1, <2>1 DEF Loop, AllDecided, Decided
  <2>3. Range(Last(ends, Count)) = {ends[k] : k \in Len(ends) - Count + 1 .. Len(ends)}
    BY <1>1, <2>2, LastEndsAt DEF IInv, EarlyLoop
  <2> QED
    BY <2>2, <2>3 DEF LastEnds, EarlyLoop
<1> QED
  BY <1>1, LoopKept, PTL

\* After Count early ends in a row that are all in the window, the start that
\* finds the last one is in safe mode, if the record holds as many.
THEOREM LoopFound ==
    ASSUME Races = {}, Count <= Keep
    PROVE  Spec => []LoopDetected
<1>1. ASSUME IInv, Loop PROVE LoopDetected
  <2> SUFFICES ASSUME NEW i \in Instances, phase[i] = "up", before[i] = "stale",
                      LastEnds(LAMBDA e : e.at + Downtime - e.start < Early /\ born[i] - e.at <= Window)
               PROVE  safe[i]
    BY DEF LoopDetected
  <2>1. Len(ends) >= Count
    BY DEF LastEnds
  <2>2. Range(Last(ends, Count)) = {ends[k] : k \in Len(ends) - Count + 1 .. Len(ends)}
    BY <1>1, <2>1, LastEndsAt DEF IInv
  <2>3. CertainLoop(born[i])
    BY <2>1, <2>2 DEF LastEnds, CertainLoop
  <2> QED
    BY <1>1, <2>3 DEF Loop, AllDecided, Decided
<1> QED
  BY <1>1, LoopKept, PTL

-----------------------------------------------------------------------------
(* The start gates *)

\* Every retained topic is stored or waits before place k of the queue.
Delivered(k) ==
    \A t \in Topics : t \in store \/ \E j \in 1 .. k - 1 : down[j] = Retained(t)

\* A sentinel waits behind all retained topics, because the broker echoes
\* nothing before it has handled SUBSCRIBE and queued them.
QueueOK ==
    /\ \A k \in 1 .. Len(down) : down[k].type = "sentinel" => Delivered(k)
    /\ subscribed => Delivered(Len(down) + 1)
    /\ ~subscribed => down = <<>>

GateInv == GateTypeOK /\ QueueOK /\ SentinelMeansComplete

\* start() has run exactly when both gates are open.
GatesOK == started <=> mqttGate /\ matterGate

\* A closed gate has a timer that opens it in time, and time has not passed it.
MatterOK == ~matterGate => Matter /\ matterDue = MatterTimeout /\ sinceBoot <= MatterTimeout
MqttOK ==
    ~mqttGate =>
      /\ Broker
      /\ \/ startupTimeout = StartupTimeout /\ sinceBoot <= StartupTimeout
         \/ \E t \in timers : sinceBoot <= t[2] /\ t[2] <= StartupTimeout + SentinelTimeout

TimersOK == GateTypeOK /\ GatesOK /\ MatterOK /\ MqttOK

-----------------------------------------------------------------------------
(* Lemmas *)

\* The two kinds of messages to the daemon are told apart by their type.
LEMMA MessageTypes ==
    ASSUME NEW m \in DownMsg
    PROVE  /\ m.type = "sentinel" => \E c \in Conns : m = Sentinel(c)
           /\ m.type = "retained" => \E t \in Topics : m = Retained(t)
           /\ \A t \in Topics : Retained(t).type = "retained" /\ Retained(t).topic = t
           /\ \A c \in Conns : Sentinel(c).type = "sentinel" /\ Sentinel(c).conn = c
           /\ m.type = "retained" => m.topic \in Topics
  BY DEF DownMsg, Retained, Sentinel

\* Every order of the topics, sent as messages, is a sequence holding them all.
LEMMA OrdersDeliver ==
    ASSUME NEW order \in Orders
    PROVE  LET s == [k \in DOMAIN order |-> Retained(order[k])]
           IN  /\ s \in Seq(DownMsg)
               /\ \A t \in Topics : \E k \in 1 .. Len(s) : s[k] = Retained(t)
               /\ \A k \in 1 .. Len(s) : s[k].type = "retained"
<1> DEFINE n == Cardinality(Topics)
           s == [k \in DOMAIN order |-> Retained(order[k])]
<1>1. n \in Nat
  BY StartGateOK, FS_CardinalityType
<1>2. order \in [1 .. n -> Topics] /\ \A t \in Topics : \E k \in DOMAIN order : order[k] = t
  BY DEF Orders
<1>3. s \in [1 .. n -> DownMsg]
  BY <1>2 DEF DownMsg
<1>4. s \in Seq(DownMsg) /\ Len(s) = n
  BY <1>1, <1>3
<1>5. \A t \in Topics : \E k \in 1 .. n : s[k] = Retained(t)
  BY <1>2
<1>6. \A k \in 1 .. n : s[k].type = "retained"
  BY <1>2 DEF Retained
<1> QED
  BY <1>4, <1>5, <1>6

\* What is broadcast to the web clients is a pair of flags.
LEMMA Flags ==
    ASSUME NEW a \in BOOLEAN, NEW b \in BOOLEAN
    PROVE  [ready |-> a, connected |-> b] \in [ready : BOOLEAN, connected : BOOLEAN]
  OBVIOUS

\* startOnce keeps its variables well typed, touches neither the store nor the
\* queues, and names the caller as what opened the gate.
LEMMA StartOnceTypes ==
    ASSUME GateTypeOK, NEW reason \in {"sentinel", "sentinelTimeout", "startupTimeout"},
           NEW fired, StartOnce(reason, fired)
    PROVE  /\ started' \in BOOLEAN /\ mqttGate' \in BOOLEAN /\ matterGate' \in BOOLEAN
           /\ startupTimeout' \in Nat
           /\ sentinelTimeout' \in Conns \cup {None}
           /\ timers' \subseteq Conns \X Nat
           /\ ui' \in [ready : BOOLEAN, connected : BOOLEAN]
           /\ openedBy' \in {openedBy, reason}
           /\ openedBy' \in {"nothing", "sentinel", "sentinelTimeout", "startupTimeout"}
<1>1. started' \in BOOLEAN /\ mqttGate' \in BOOLEAN /\ matterGate' \in BOOLEAN
  BY Zenon DEF GateTypeOK, StartOnce, MaybeStart, gateVars
<1>2. startupTimeout' \in Nat /\ sentinelTimeout' \in Conns \cup {None}
  BY SMT DEF GateTypeOK, StartOnce, MaybeStart, gateVars, None
<1>3. timers' \subseteq Conns \X Nat
  BY SMT DEF GateTypeOK, StartOnce, MaybeStart
<1>4. ui' \in [ready : BOOLEAN, connected : BOOLEAN]
  <2>1. ui' = ui \/ ui' = [ready |-> TRUE, connected |-> connected]
    BY Zenon DEF StartOnce
  <2> QED
    BY <2>1, Flags, Zenon DEF GateTypeOK
<1>5. openedBy' \in {openedBy, reason}
  BY SMT DEF StartOnce, MaybeStart, gateVars
<1> QED
  BY <1>1, <1>2, <1>3, <1>4, <1>5 DEF GateTypeOK

-----------------------------------------------------------------------------
(* Type correctness *)

LEMMA InitGateTypeOK == GateInit => GateTypeOK
<1> SUFFICES ASSUME GateInit PROVE GateTypeOK
  OBVIOUS
<1>1. started \in BOOLEAN /\ mqttGate \in BOOLEAN /\ matterGate \in BOOLEAN
  BY Zenon DEF GateInit
<1>2. up \in Seq(UpMsg) /\ down \in Seq(DownMsg)
  BY DEF GateInit
<1>3. sinceBoot \in Nat /\ matterDue \in Nat /\ startupTimeout \in Nat
  BY StartGateOK DEF GateInit, None
<1> QED
  BY <1>1, <1>2, <1>3 DEF GateInit, GateTypeOK

LEMMA NextGateTypeOK == GateTypeOK /\ [GateNext]_startVars => GateTypeOK'
<1> SUFFICES ASSUME GateTypeOK, [GateNext]_startVars PROVE GateTypeOK'
  OBVIOUS
<1> USE StartGateOK
<1>1. CASE MatterReady
  BY <1>1 DEF GateTypeOK, MatterReady, MatterGateOpen, MaybeStart, connVars, brokerVars, None
<1>2. CASE MatterTimesOut
  BY <1>2 DEF GateTypeOK, MatterTimesOut, MatterGateOpen, MaybeStart, connVars, brokerVars, None
<1>3. CASE Connect
  <2>1. conn' \in Conns /\ conn' = conn + 1
    BY <1>3 DEF GateTypeOK, Connect, ConnectWith, Conns, None
  <2>2. connected' \in BOOLEAN /\ subscribed' \in BOOLEAN /\ down' = <<>>
    BY <1>3 DEF GateTypeOK, Connect, ConnectWith
  <2>3. up' \in Seq(UpMsg)
    <3>1. Subscribe \in UpMsg /\ Sentinel(conn') \in UpMsg
      BY <2>1 DEF UpMsg
    <3>2. <<Subscribe>> \in Seq(UpMsg) /\ <<Subscribe, Sentinel(conn')>> \in Seq(UpMsg)
      BY <3>1
    <3>3. up' = <<Subscribe>> \/ up' = <<Subscribe, Sentinel(conn')>>
      BY <1>3, Zenon DEF Connect, ConnectWith
    <3> QED
      BY <3>2, <3>3
  <2>4. startupTimeout' \in Nat /\ sentinelTimeout' \in Conns \cup {None}
    BY <1>3, <2>1 DEF GateTypeOK, Connect, ConnectWith, None
  <2>6. sentinelValue' \in Conns \cup {None}
    BY <1>3, <2>1 DEF GateTypeOK, Connect, ConnectWith
  <2>7. timers' \subseteq Conns \X Nat
    BY <1>3, <2>1 DEF GateTypeOK, Connect, ConnectWith
  <2>8. ui' \in [ready : BOOLEAN, connected : BOOLEAN]
    <3>1. ui' = [ready |-> TRUE, connected |-> TRUE] \/ ui' = [ready |-> FALSE, connected |-> TRUE]
      BY <1>3, Zenon DEF Connect, ConnectWith
    <3> QED
      BY <3>1, Flags, Zenon
  <2>5. UNCHANGED <<sinceBoot, gateVars, matterDue, late, store>>
    BY <1>3 DEF Connect, ConnectWith
  <2> QED
    BY <2>1, <2>2, <2>3, <2>4, <2>5, <2>6, <2>7, <2>8 DEF GateTypeOK, gateVars
<1>4. CASE Close
  <2>1. {m.conn : m \in {up[k] : k \in DOMAIN up} \ {Subscribe}} \subseteq Conns
    <3> SUFFICES ASSUME NEW k \in DOMAIN up, up[k] # Subscribe PROVE up[k].conn \in Conns
      OBVIOUS
    <3>1. up[k] \in UpMsg
      BY DEF GateTypeOK
    <3> QED
      BY <3>1 DEF UpMsg, Sentinel
  <2>2. late' \subseteq Conns
    BY <1>4, <2>1 DEF GateTypeOK, Close
  <2>3. ui' \in [ready : BOOLEAN, connected : BOOLEAN]
    BY <1>4, Flags, Zenon DEF GateTypeOK, Close
  <2>4. up' \in Seq(UpMsg) /\ down' \in Seq(DownMsg)
    BY <1>4 DEF Close
  <2>6. subscribed' \in BOOLEAN /\ connected' \in BOOLEAN
    BY <1>4 DEF Close
  <2>5. UNCHANGED <<sinceBoot, gateVars, timerVars, conn, sentinelValue, store>>
    BY <1>4 DEF Close
  <2> QED
    BY <2>2, <2>3, <2>4, <2>5, <2>6 DEF GateTypeOK, gateVars, timerVars
<1>5. CASE Receive
  <2>1. Head(down) \in DownMsg /\ Tail(down) \in Seq(DownMsg)
    BY <1>5, HeadTailProperties DEF GateTypeOK, Receive
  <2>2. down' \in Seq(DownMsg)
    BY <1>5, <2>1 DEF Receive
  <2>3. CASE StartOnce("sentinel", {}) /\ UNCHANGED store
    BY <1>5, <2>2, <2>3, StartOnceTypes DEF GateTypeOK, Receive, connVars
  <2>4. CASE /\ store' = IF Head(down).type = "retained" THEN store \cup {Head(down).topic} ELSE store
             /\ UNCHANGED <<gateVars, startupTimeout, sentinelTimeout, timers, ui>>
    <3>1. store' \subseteq Topics
      BY <2>1, <2>4, MessageTypes DEF GateTypeOK
    <3> QED
      BY <1>5, <2>2, <2>4, <3>1 DEF GateTypeOK, Receive, gateVars, connVars
  <2> QED
    BY <1>5, <2>3, <2>4 DEF Receive
<1>6. CASE StartupTimesOut
  BY <1>6, StartOnceTypes DEF GateTypeOK, StartupTimesOut, connVars, brokerVars
<1>7. ASSUME NEW t \in timers, SentinelTimesOut(t) PROVE GateTypeOK'
  BY <1>7, StartOnceTypes DEF GateTypeOK, SentinelTimesOut, connVars, brokerVars
<1>8. CASE GateTick
  BY <1>8 DEF GateTypeOK, GateTick, gateVars, timerVars, connVars, brokerVars
<1>9. CASE BrokerSubscribe
  <2>1. PICK order \in Orders : down' = down \o [k \in DOMAIN order |-> Retained(order[k])]
    BY <1>9 DEF BrokerSubscribe
  <2>2. down' \in Seq(DownMsg)
    BY <2>1, OrdersDeliver, ConcatProperties DEF GateTypeOK
  <2>3. up' \in Seq(UpMsg)
    BY <1>9, HeadTailProperties DEF GateTypeOK, BrokerSubscribe
  <2> QED
    BY <1>9, <2>2, <2>3 DEF GateTypeOK, BrokerSubscribe, gateVars, timerVars, connVars
<1>10. CASE BrokerEcho
  <2>1. Head(up) \in UpMsg /\ Tail(up) \in Seq(UpMsg) /\ Head(up) # Subscribe
    BY <1>10, HeadTailProperties DEF GateTypeOK, BrokerEcho, UpMsg
  <2>2. Head(up) \in DownMsg
    BY <2>1 DEF UpMsg, DownMsg
  <2>3. down' \in Seq(DownMsg)
    <3>1. down' = down \/ down' = Append(down, Head(up))
      BY <1>10 DEF BrokerEcho
    <3> QED
      BY <2>2, <3>1 DEF GateTypeOK
  <2> QED
    BY <1>10, <2>1, <2>3 DEF GateTypeOK, BrokerEcho, gateVars, timerVars, connVars
<1>11. ASSUME NEW c \in late, BrokerLate(c) PROVE GateTypeOK'
  <2>1. Sentinel(c) \in DownMsg
    BY <1>11 DEF GateTypeOK, DownMsg
  <2>2. down' \in Seq(DownMsg)
    BY <1>11, <2>1, AppendProperties DEF GateTypeOK, BrokerLate
  <2> QED
    BY <1>11, <2>2 DEF GateTypeOK, BrokerLate, gateVars, timerVars, connVars
<1>12. CASE UNCHANGED startVars
  BY <1>12 DEF GateTypeOK, startVars, gateVars, timerVars, connVars, brokerVars
<1> QED
  BY <1>1, <1>2, <1>3, <1>4, <1>5, <1>6, <1>7, <1>8, <1>9, <1>10, <1>11, <1>12
  DEF GateNext, Timeouts

\* Every variable has its type in every reachable state.
THEOREM GateTypeCorrect == GateSpec => []GateTypeOK
  BY InitGateTypeOK, NextGateTypeOK, PTL DEF GateSpec

-----------------------------------------------------------------------------
(* The sentinel comes last *)

\* Whatever leaves the queue and the store alone keeps the order.
LEMMA QueueKept ==
    ASSUME QueueOK, UNCHANGED <<down, subscribed, store>>
    PROVE  QueueOK'
  BY DEF QueueOK, Delivered

\* A connection begins and ends with an empty queue and no subscription.
LEMMA QueueEmptied ==
    ASSUME down' = <<>>, subscribed' = FALSE
    PROVE  QueueOK'
<1>1. Len(down') = 0
  OBVIOUS
<1> QED
  BY <1>1 DEF QueueOK

\* What was delivered before a place stays so when messages are put at the end.
LEMMA DeliveredExtends ==
    ASSUME NEW s \in Seq(DownMsg), down \in Seq(DownMsg), down' = down \o s,
           store' = store, NEW k \in 1 .. Len(down) + 1, Delivered(k)
    PROVE  Delivered(k)'
<1> SUFFICES ASSUME NEW t \in Topics, t \notin store
             PROVE  \E j \in 1 .. k - 1 : down'[j] = Retained(t)
  BY DEF Delivered
<1>1. PICK j \in 1 .. k - 1 : down[j] = Retained(t)
  BY DEF Delivered
<1>2. j \in 1 .. Len(down)
  BY LenProperties
<1>3. down'[j] = down[j]
  BY <1>2, ConcatProperties
<1> QED
  BY <1>1, <1>3

\* A message put behind the retained ones keeps the order.
LEMMA QueueAppend ==
    ASSUME GateTypeOK, QueueOK, subscribed, NEW m \in DownMsg,
           down' = Append(down, m), UNCHANGED <<subscribed, store>>
    PROVE  QueueOK'
<1>1. down \in Seq(DownMsg) /\ Len(down) \in Nat
  BY LenProperties DEF GateTypeOK
<1>2. <<m>> \in Seq(DownMsg) /\ down' = down \o <<m>>
  BY <1>1, AppendIsConcat
<1>3. Len(down') = Len(down) + 1 /\ \A k \in 1 .. Len(down) : down'[k] = down[k]
  BY <1>1, AppendProperties
<1>4. ASSUME NEW k \in 1 .. Len(down'), down'[k].type = "sentinel" PROVE Delivered(k)'
  <2>1. k \in 1 .. Len(down) + 1 /\ Delivered(k)
    BY <1>1, <1>3, <1>4 DEF QueueOK
  <2> QED
    BY <1>1, <1>2, <2>1, DeliveredExtends
\* Len(down) is the new length here.
<1>5. Delivered(Len(down) + 1)'
  <2> SUFFICES ASSUME NEW t \in Topics, t \notin store
               PROVE  \E j \in 1 .. Len(down') : down'[j] = Retained(t)
    BY <1>1, <1>3 DEF Delivered
  <2>1. PICK j \in 1 .. Len(down) : down[j] = Retained(t)
    BY <1>1 DEF QueueOK, Delivered
  <2> QED
    BY <1>1, <1>3, <2>1
<1> QED
  BY <1>4, <1>5 DEF QueueOK

\* The order is an invariant: one step per action.
LEMMA NextQueueOK == GateTypeOK /\ QueueOK /\ [GateNext]_startVars => QueueOK'
<1> SUFFICES ASSUME GateTypeOK, QueueOK, [GateNext]_startVars PROVE QueueOK'
  OBVIOUS
<1>1. down \in Seq(DownMsg) /\ Len(down) \in Nat
  BY LenProperties DEF GateTypeOK
<1>2. CASE Connect
  BY <1>2, QueueEmptied DEF Connect, ConnectWith
<1>3. CASE Close
  BY <1>3, QueueEmptied DEF Close
<1>4. CASE Receive
  <2>1. down # <<>> /\ down' = Tail(down) /\ subscribed' = subscribed
    BY <1>4 DEF Receive
  <2>2. Len(down) >= 1 /\ Len(down') = Len(down) - 1 /\ Head(down) = down[1]
    BY <1>1, <2>1, HeadTailProperties, EmptySeq
  <2>3. \A k \in 1 .. Len(down) - 1 : down'[k] = down[k + 1]
    BY <1>1, <2>1, HeadTailProperties
  <2>4. store \subseteq store' /\ \A t \in Topics : down[1] = Retained(t) => t \in store'
    <3>1. \A t \in Topics : Retained(t).type # "sentinel" /\ Retained(t).type = "retained" /\ Retained(t).topic = t
      BY DEF Retained
    <3> QED
      BY <1>4, <2>2, <3>1 DEF Receive
  <2>5. ASSUME NEW k \in 1 .. Len(down), Delivered(k + 1) PROVE Delivered(k)'
    <3> SUFFICES ASSUME NEW t \in Topics, t \notin store'
                 PROVE  \E j \in 1 .. k - 1 : down'[j] = Retained(t)
      BY DEF Delivered
    <3>1. PICK j \in 1 .. k : down[j] = Retained(t)
      BY <2>4, <2>5 DEF Delivered
    <3>2. j # 1
      BY <2>4, <3>1
    <3>3. down'[j - 1] = down[j]
      BY <1>1, <2>3, <3>2
    <3> QED
      BY <1>1, <3>1, <3>2, <3>3
  <2>6. ASSUME NEW k \in 1 .. Len(down'), down'[k].type = "sentinel" PROVE Delivered(k)'
    <3>1. k + 1 \in 1 .. Len(down) /\ down[k + 1].type = "sentinel"
      BY <1>1, <2>2, <2>3, <2>6
    <3>2. Delivered(k + 1)
      BY <3>1 DEF QueueOK
    <3> QED
      BY <1>1, <2>2, <2>5, <3>2
  <2>7. subscribed /\ Delivered(Len(down) + 1)
    BY <2>1 DEF QueueOK
  <2>8. Delivered(Len(down) + 1)'
    <3>1. PICK n \in Nat : n = Len(down)
      BY <1>1
    <3>2. Delivered(n)'
      BY <2>2, <2>5, <2>7, <3>1
    <3> QED
      BY <1>1, <2>2, <3>1, <3>2 DEF Delivered
  <2> QED
    BY <2>1, <2>6, <2>7, <2>8 DEF QueueOK
<1>5. CASE BrokerSubscribe
  <2>1. PICK order \in Orders : down' = down \o [k \in DOMAIN order |-> Retained(order[k])]
    BY <1>5 DEF BrokerSubscribe
  <2> DEFINE s == [k \in DOMAIN order |-> Retained(order[k])]
  <2>2. /\ s \in Seq(DownMsg)
        /\ \A t \in Topics : \E k \in 1 .. Len(s) : s[k] = Retained(t)
        /\ \A k \in 1 .. Len(s) : s[k].type = "retained"
    BY OrdersDeliver
  <2>3. down' = down \o s /\ store' = store /\ subscribed' = TRUE
    BY <1>5, <2>1 DEF BrokerSubscribe
  <2> HIDE DEF s
  <2>4. Len(s) \in Nat /\ Len(down') = Len(down) + Len(s)
    BY <1>1, <2>2, <2>3, ConcatProperties, LenProperties
  <2>5. /\ \A k \in 1 .. Len(down) : down'[k] = down[k]
        /\ \A k \in 1 .. Len(s) : down'[Len(down) + k] = s[k]
    BY <1>1, <2>2, <2>3, <2>4, ConcatProperties
  <2>6. ASSUME NEW k \in 1 .. Len(down'), down'[k].type = "sentinel" PROVE Delivered(k)'
    <3>1. k \in 1 .. Len(down)
      <4> SUFFICES ASSUME k \notin 1 .. Len(down) PROVE FALSE
        OBVIOUS
      <4>1. k - Len(down) \in 1 .. Len(s) /\ k = Len(down) + (k - Len(down))
        BY <1>1, <2>4
      <4>2. down'[k] = s[k - Len(down)]
        BY <2>5, <4>1
      <4> QED
        BY <2>2, <2>6, <4>1, <4>2
    <3>2. Delivered(k)
      BY <2>5, <2>6, <3>1 DEF QueueOK
    <3> QED
      BY <1>1, <2>2, <2>3, <3>1, <3>2, DeliveredExtends
  <2>7. Delivered(Len(down) + 1)'
    <3> SUFFICES ASSUME NEW t \in Topics
                 PROVE  \E j \in 1 .. Len(down') : down'[j] = Retained(t)
      BY <1>1, <2>4 DEF Delivered
    <3>1. PICK k \in 1 .. Len(s) : s[k] = Retained(t)
      BY <2>2
    <3> QED
      BY <1>1, <2>4, <2>5, <3>1
  <2> QED
    BY <2>3, <2>6, <2>7 DEF QueueOK
<1>6. CASE BrokerEcho
  <2>1. UNCHANGED <<subscribed, store>>
    BY <1>6 DEF BrokerEcho
  <2>2. CASE down' = down
    BY <2>1, <2>2, QueueKept
  <2>3. CASE subscribed /\ down' = Append(down, Head(up))
    <3>1. Head(up) \in UpMsg /\ Head(up) # Subscribe
      BY <1>6, HeadTailProperties DEF GateTypeOK, BrokerEcho
    <3>2. Head(up) \in DownMsg
      BY <3>1 DEF UpMsg, DownMsg
    <3> QED
      BY <2>1, <2>3, <3>2, QueueAppend
  <2> QED
    BY <1>6, <2>2, <2>3 DEF BrokerEcho
<1>7. ASSUME NEW c \in late, BrokerLate(c) PROVE QueueOK'
  <2>1. UNCHANGED <<subscribed, store>>
    BY <1>7 DEF BrokerLate
  <2>2. CASE ~subscribed
    BY <1>7, <2>1, <2>2, QueueKept DEF BrokerLate
  <2>3. CASE subscribed
    <3>1. Sentinel(c) \in DownMsg
      BY DEF GateTypeOK, DownMsg
    <3> QED
      BY <1>7, <2>1, <2>3, <3>1, QueueAppend DEF BrokerLate
  <2> QED
    BY <2>2, <2>3
<1>8. CASE MatterReady \/ MatterTimesOut
  BY <1>8, QueueKept DEF MatterReady, MatterTimesOut, brokerVars
<1>9. CASE StartupTimesOut \/ \E t \in timers : SentinelTimesOut(t)
  BY <1>9, QueueKept DEF StartupTimesOut, SentinelTimesOut, brokerVars
<1>10. CASE GateTick \/ UNCHANGED startVars
  BY <1>10, QueueKept DEF GateTick, startVars, brokerVars
<1> QED
  BY <1>2, <1>3, <1>4, <1>5, <1>6, <1>7, <1>8, <1>9, <1>10 DEF GateNext, Timeouts

-----------------------------------------------------------------------------
(* The sentinel means that the store is complete *)

\* Only startOnce names what opened the gate.
LEMMA NextComplete == GateInv /\ [GateNext]_startVars => SentinelMeansComplete'
<1> SUFFICES ASSUME GateInv, [GateNext]_startVars, openedBy' = "sentinel" PROVE Topics \subseteq store'
  BY DEF SentinelMeansComplete
<1>1. GateTypeOK /\ QueueOK /\ SentinelMeansComplete
  BY DEF GateInv
<1>2. CASE openedBy' = openedBy /\ store \subseteq store'
  BY <1>1, <1>2 DEF SentinelMeansComplete
<1>3. CASE Receive
  <2>1. down \in Seq(DownMsg) /\ down # <<>> /\ Head(down) = down[1] /\ 1 \in 1 .. Len(down)
    BY <1>1, <1>3, HeadTailProperties, EmptySeq, LenProperties DEF GateTypeOK, Receive
  <2>2. CASE Head(down).type = "sentinel"
    <3>1. Delivered(1)
      BY <1>1, <2>1, <2>2 DEF QueueOK
    <3>2. Topics \subseteq store
      BY <3>1 DEF Delivered
    <3>3. store' = store
      BY <1>3, <2>2 DEF Receive
    <3> QED
      BY <3>2, <3>3
  <2>3. CASE Head(down).type # "sentinel"
    BY <1>2, <1>3, <2>3 DEF Receive, gateVars
  <2> QED
    BY <2>2, <2>3
<1>4. CASE Timeouts
  <2>1. ASSUME NEW reason \in {"sentinelTimeout", "startupTimeout"}, NEW fired, StartOnce(reason, fired)
        PROVE  openedBy' = openedBy
    BY <1>1, <2>1, StartOnceTypes
  <2>2. store' = store
    BY <1>4 DEF Timeouts, MatterTimesOut, StartupTimesOut, SentinelTimesOut
  <2>3. openedBy' = openedBy
    BY <1>4, <2>1 DEF Timeouts, MatterTimesOut, MatterGateOpen, StartupTimesOut, SentinelTimesOut
  <2> QED
    BY <1>2, <2>2, <2>3
<1>5. CASE MatterReady \/ Connect \/ Close \/ GateTick
  BY <1>2, <1>5 DEF MatterReady, MatterGateOpen, Connect, ConnectWith, Close, GateTick, gateVars
<1>6. CASE BrokerSubscribe \/ BrokerEcho \/ \E c \in late : BrokerLate(c)
  BY <1>2, <1>6 DEF BrokerSubscribe, BrokerEcho, BrokerLate, gateVars
<1>7. CASE UNCHANGED startVars
  BY <1>2, <1>7 DEF startVars, gateVars
<1> QED
  BY <1>3, <1>4, <1>5, <1>6, <1>7 DEF GateNext

\* However often the connection was lost, the daemon's own sentinel opens the
\* gate only on a store that holds every retained topic.
THEOREM SentinelComplete == GateSpec => []SentinelMeansComplete
<1>1. GateInit => GateInv
  <2> SUFFICES ASSUME GateInit PROVE GateInv
    OBVIOUS
  <2>1. QueueOK
    <3>1. Len(down) = 0 /\ ~subscribed /\ down = <<>>
      BY DEF GateInit
    <3> QED
      BY <3>1 DEF QueueOK
  <2>2. SentinelMeansComplete
    BY DEF GateInit, SentinelMeansComplete
  <2> QED
    BY <2>1, <2>2, InitGateTypeOK DEF GateInv
<1>2. GateInv /\ [GateNext]_startVars => GateInv'
  BY NextGateTypeOK, NextQueueOK, NextComplete DEF GateInv
<1>3. GateInv => SentinelMeansComplete
  BY DEF GateInv
<1> QED
  BY <1>1, <1>2, <1>3, PTL DEF GateSpec

-----------------------------------------------------------------------------
(* Scripts start by the deadline *)

\* startOnce opens the MQTT gate, and the start needs the Matter gate too.
LEMMA StartOnceGates ==
    ASSUME GateTypeOK, GatesOK, NEW reason, NEW fired, StartOnce(reason, fired)
    PROVE  mqttGate' /\ matterGate' = matterGate /\ GatesOK'
  BY Zenon DEF GateTypeOK, GatesOK, StartOnce, MaybeStart, gateVars

LEMMA MatterGateOpenGates ==
    ASSUME GateTypeOK, GatesOK, MatterGateOpen
    PROVE  matterGate' /\ mqttGate' = mqttGate /\ GatesOK'
  BY Zenon DEF GateTypeOK, GatesOK, MatterGateOpen, MaybeStart

\* What each step does to the gates.
LEMMA NextGates ==
    ASSUME GateTypeOK, GatesOK, [GateNext]_startVars
    PROVE  GatesOK' /\ (mqttGate => mqttGate') /\ (matterGate => matterGate')
<1>1. CASE UNCHANGED gateVars
  BY <1>1, Zenon DEF GatesOK, gateVars
<1>2. ASSUME NEW reason, NEW fired, StartOnce(reason, fired)
      PROVE  GatesOK' /\ (mqttGate => mqttGate') /\ (matterGate => matterGate')
  BY <1>2, StartOnceGates, Zenon
<1>3. CASE MatterGateOpen
  <2>1. matterGate' /\ mqttGate' = mqttGate /\ GatesOK'
    BY <1>3, MatterGateOpenGates
  <2> QED
    BY <2>1, Zenon
<1>4. CASE Receive
  BY <1>1, <1>2, <1>4, Zenon DEF Receive, gateVars
<1>5. CASE MatterReady \/ Timeouts
  BY <1>2, <1>3, <1>5, Zenon DEF MatterReady, Timeouts, MatterTimesOut, StartupTimesOut, SentinelTimesOut
<1>6. CASE Connect \/ Close \/ GateTick \/ UNCHANGED startVars
  BY <1>1, <1>6, Zenon DEF Connect, ConnectWith, Close, GateTick, startVars
<1>7. CASE BrokerSubscribe \/ BrokerEcho \/ \E c \in late : BrokerLate(c)
  BY <1>1, <1>7, Zenon DEF BrokerSubscribe, BrokerEcho, BrokerLate
<1> QED
  BY <1>4, <1>5, <1>6, <1>7 DEF GateNext

\* The Matter timer is taken down only with the gate open.
LEMMA NextMatterOK ==
    ASSUME TimersOK, [GateNext]_startVars
    PROVE  MatterOK'
<1> SUFFICES ASSUME ~matterGate' PROVE Matter /\ matterDue' = MatterTimeout /\ sinceBoot' <= MatterTimeout
  BY DEF MatterOK
<1>1. GateTypeOK /\ GatesOK /\ MatterOK
  BY DEF TimersOK
<1>2. ~matterGate /\ Matter /\ matterDue = MatterTimeout /\ sinceBoot <= MatterTimeout
  BY <1>1, NextGates DEF MatterOK
<1>3. ~MatterGateOpen
  BY <1>1, MatterGateOpenGates
<1>4. CASE UNCHANGED <<matterDue, sinceBoot>>
  BY <1>2, <1>4
<1>5. CASE GateTick
  <2>1. matterDue > sinceBoot
    BY <1>2, <1>5, StartGateOK DEF GateTick, Due, None
  <2>2. sinceBoot' = sinceBoot + 1 /\ matterDue' = matterDue
    BY <1>5 DEF GateTick, timerVars
  <2> QED
    BY <1>1, <1>2, <2>1, <2>2, StartGateOK DEF GateTypeOK
<1>6. CASE Connect \/ Close \/ Receive \/ UNCHANGED startVars
  BY <1>4, <1>6 DEF Connect, ConnectWith, Close, Receive, startVars, timerVars
<1>7. CASE BrokerSubscribe \/ BrokerEcho \/ \E c \in late : BrokerLate(c)
  BY <1>4, <1>7 DEF BrokerSubscribe, BrokerEcho, BrokerLate, timerVars
<1>8. CASE MatterReady \/ Timeouts
  BY <1>3, <1>4, <1>8 DEF MatterReady, Timeouts, MatterTimesOut, StartupTimesOut, SentinelTimesOut
<1> QED
  BY <1>5, <1>6, <1>7, <1>8 DEF GateNext

\* While the MQTT gate is closed no timer is taken down but the boot timer, by a
\* connect that arms one no later than SentinelTimeout after it.
LEMMA NextMqttOK ==
    ASSUME TimersOK, [GateNext]_startVars
    PROVE  MqttOK'
<1> SUFFICES ASSUME ~mqttGate' PROVE MqttOK'
  BY DEF MqttOK
<1>1. GateTypeOK /\ GatesOK /\ MqttOK
  BY DEF TimersOK
<1>2. ~mqttGate /\ ~started /\ Broker
  BY <1>1, NextGates DEF MqttOK, GatesOK
<1>3. ASSUME NEW reason, NEW fired PROVE ~StartOnce(reason, fired)
  BY <1>1, StartOnceGates
<1>4. \/ startupTimeout = StartupTimeout /\ sinceBoot <= StartupTimeout
      \/ \E t \in timers : sinceBoot <= t[2] /\ t[2] <= StartupTimeout + SentinelTimeout
  BY <1>1, <1>2 DEF MqttOK
<1>5. CASE UNCHANGED <<startupTimeout, timers, sinceBoot>>
  BY <1>2, <1>4, <1>5 DEF MqttOK
<1>6. CASE Connect
  <2>1. timers' = timers \cup {<<conn', sinceBoot + SentinelTimeout>>} /\ sinceBoot' = sinceBoot
    BY <1>2, <1>6, Zenon DEF Connect, ConnectWith
  <2>2. CASE startupTimeout = StartupTimeout /\ sinceBoot <= StartupTimeout
    <3>1. sinceBoot <= sinceBoot + SentinelTimeout /\ sinceBoot + SentinelTimeout <= StartupTimeout + SentinelTimeout
      BY <1>1, <2>2, StartGateOK DEF GateTypeOK
    <3> DEFINE t == <<conn', sinceBoot + SentinelTimeout>>
    <3>2. t \in timers' /\ t[2] = sinceBoot + SentinelTimeout
      BY <2>1
    <3> QED
      BY <1>2, <2>1, <3>1, <3>2 DEF MqttOK
  <2>3. CASE \E t \in timers : sinceBoot <= t[2] /\ t[2] <= StartupTimeout + SentinelTimeout
    BY <1>2, <2>1, <2>3 DEF MqttOK
  <2> QED
    BY <1>4, <2>2, <2>3
<1>7. CASE GateTick
  <2>1. sinceBoot' = sinceBoot + 1 /\ UNCHANGED <<startupTimeout, timers>>
    BY <1>7 DEF GateTick, timerVars
  <2>2. CASE startupTimeout = StartupTimeout /\ sinceBoot <= StartupTimeout
    <3>1. startupTimeout > sinceBoot
      BY <1>7, <2>2, StartGateOK DEF GateTick, Due, None
    <3> QED
      BY <1>1, <1>2, <2>1, <2>2, <3>1, StartGateOK DEF GateTypeOK, MqttOK
  <2>3. CASE \E t \in timers : sinceBoot <= t[2] /\ t[2] <= StartupTimeout + SentinelTimeout
    <3>1. PICK t \in timers : sinceBoot <= t[2] /\ t[2] <= StartupTimeout + SentinelTimeout
      BY <2>3
    <3>2. t[2] \in Nat
      BY <1>1 DEF GateTypeOK
    <3>3. t[2] > sinceBoot
      BY <1>7 DEF GateTick, Due
    <3>4. sinceBoot' <= t[2]
      BY <1>1, <2>1, <3>2, <3>3 DEF GateTypeOK
    <3> QED
      BY <1>2, <2>1, <3>1, <3>4 DEF MqttOK
  <2> QED
    BY <1>4, <2>2, <2>3
<1>8. CASE Close \/ Receive \/ MatterReady \/ UNCHANGED startVars
  BY <1>3, <1>5, <1>8 DEF Close, Receive, MatterReady, startVars, timerVars
<1>9. CASE BrokerSubscribe \/ BrokerEcho \/ \E c \in late : BrokerLate(c)
  BY <1>5, <1>9 DEF BrokerSubscribe, BrokerEcho, BrokerLate, timerVars
<1>10. CASE Timeouts
  BY <1>3, <1>5, <1>10 DEF Timeouts, MatterTimesOut, StartupTimesOut, SentinelTimesOut
<1> QED
  BY <1>6, <1>7, <1>8, <1>9, <1>10 DEF GateNext

\* Whatever broker, network and Matter controller do, no time passes the
\* deadline before the scripts are started.
THEOREM DeadlineKept == GateSpec => []StartsByDeadline
<1>1. GateInit => TimersOK
  <2> SUFFICES ASSUME GateInit PROVE TimersOK
    OBVIOUS
  <2>1. GatesOK
    BY Zenon DEF GateInit, GatesOK
  <2>2. MatterOK
    <3>1. ~matterGate => Matter /\ matterDue = MatterTimeout /\ sinceBoot = 0
      BY StartGateOK, Zenon DEF GateInit
    <3> QED
      BY <3>1, StartGateOK DEF MatterOK
  <2>3. MqttOK
    <3>1. ~mqttGate => Broker /\ startupTimeout = StartupTimeout /\ sinceBoot = 0
      BY StartGateOK, Zenon DEF GateInit
    <3> QED
      BY <3>1, StartGateOK DEF MqttOK
  <2> QED
    BY <2>1, <2>2, <2>3, InitGateTypeOK DEF TimersOK
<1>2. TimersOK /\ [GateNext]_startVars => TimersOK'
  BY NextGateTypeOK, NextGates, NextMatterOK, NextMqttOK DEF TimersOK
<1>3. TimersOK => StartsByDeadline
  <2> SUFFICES ASSUME TimersOK, ~started PROVE sinceBoot <= Deadline
    BY StartGateOK DEF StartsByDeadline, TimersOK, GateTypeOK, Deadline
  <2>1. GateTypeOK /\ (~mqttGate \/ ~matterGate) /\ MatterOK /\ MqttOK
    BY DEF TimersOK, GatesOK
  <2>2. CASE ~mqttGate
    <3>1. Broker /\ sinceBoot <= StartupTimeout + SentinelTimeout
      <4>1. CASE startupTimeout = StartupTimeout /\ sinceBoot <= StartupTimeout
        BY <2>1, <2>2, <4>1, StartGateOK DEF GateTypeOK, MqttOK
      <4>2. ASSUME NEW t \in timers, sinceBoot <= t[2], t[2] <= StartupTimeout + SentinelTimeout
            PROVE  sinceBoot <= StartupTimeout + SentinelTimeout
        <5>1. t[2] \in Nat
          BY <2>1 DEF GateTypeOK
        <5> QED
          BY <2>1, <4>2, <5>1, StartGateOK DEF GateTypeOK
      <4> QED
        BY <2>1, <2>2, <4>1, <4>2 DEF MqttOK
    <3> QED
      BY <2>1, <3>1, StartGateOK DEF Deadline, GateTypeOK
  <2>3. CASE ~matterGate
    BY <2>1, <2>3, StartGateOK DEF MatterOK, Deadline, GateTypeOK
  <2> QED
    BY <2>1, <2>2, <2>3
<1> QED
  BY <1>1, <1>2, <1>3, PTL DEF GateSpec
===============================================================================
