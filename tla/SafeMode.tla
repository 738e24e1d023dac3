------------------------------ MODULE SafeMode ------------------------------
(***************************************************************************)
(* The decision to start without user scripts (src/index.js, safe mode;    *)
(* src/lib/crash-record.js): the marker .she-running a run leaves behind   *)
(* when it is killed, and the record .she-crashes.json of such ends.       *)
(* Several instances may share the data directory.  Time is in ticks.      *)
(***************************************************************************)
EXTENDS Integers, Sequences, Functions

CONSTANTS
    Instances, \* she processes with the same data directory
    Early,     \* safeModeEarlyCrash
    Count,     \* safeModeCrashCount
    Window,    \* safeModeCrashWindow
    Keep,      \* KEEP: entries the record holds
    Downtime,  \* what was killed is started again within this time
    Races,     \* subset of AllRaces
    MaxTime,   \* bound: ticks
    MaxRuns    \* bound: runs

\* "together": two instances start at the same time
\* "torn":     a run is killed while it starts
AllRaces == {"together", "torn"}

ASSUME SafeModeOK ==
    /\ {Early, Count, Window, Keep, Downtime, MaxTime, MaxRuns} \subseteq Nat
    /\ Early > 0 /\ Count > 0 /\ Keep > 0
    /\ Races \subseteq AllRaces

VARIABLES
    now,     \* Date.now()
    marker,  \* .she-running: the run that wrote it and when that started
    crashes, \* .she-crashes.json
    phase,   \* of each instance: "down", "looked", "recorded", "up"
    run,     \* the run (PID) of each instance
    before,  \* _sentinelBefore: "null", "live" or "stale"
    dead,    \* _deadRun: start of the run that left the marker
    safe,    \* SAFE_MODE
    written, \* _sentinelWritten
    born,    \* when the run started
    left,    \* when the last run was killed, NoTime if it was stopped
    ends,    \* marked runs killed since the last healthy one (history)
    runs     \* number of runs so far

runVars == <<run, before, dead, safe, born>>
vars == <<now, marker, crashes, phase, runVars, written, left, ends, runs>>

NoTime == -1
NoMarker == [run |-> 0, start |-> NoTime]

Last(s, n) == SubSeq(s, Len(s) - n + 1, Len(s))

-----------------------------------------------------------------------------
(* evaluate: the record with the dead run, and whether to enter safe mode *)

Crash(start) == [end |-> now, early |-> now - start < Early]

\* A mutant: the record keeps the oldest ends.
MutRecordFirst(start) ==
    IF Len(crashes) >= Keep THEN crashes ELSE Append(crashes, Crash(start))

RecordWith(start) ==
    LET all == Append(crashes, Crash(start))
    IN  IF Len(all) > Keep THEN Last(all, Keep) ELSE all

\* A mutant: only the last end has to be early.
MutDecides(list) ==
    /\ Len(list) >= Count
    /\ list[Len(list)].early
    /\ \A c \in Range(Last(list, Count)) : now - c.end <= Window

Decides(list) ==
    /\ Len(list) >= Count
    /\ \A c \in Range(Last(list, Count)) : c.early /\ now - c.end <= Window

-----------------------------------------------------------------------------
(* A start: look at the marker, record the dead run, leave a marker *)

Live(r) == \E j \in Instances : phase[j] # "down" /\ run[j] = r

Look(i) ==
    /\ phase[i] = "down" /\ runs < MaxRuns
    /\ "together" \in Races \/ \A j \in Instances : phase[j] \in {"down", "up"}
    /\ runs' = runs + 1
    /\ phase' = [phase EXCEPT ![i] = "looked"]
    /\ run' = [run EXCEPT ![i] = runs + 1]
    /\ born' = [born EXCEPT ![i] = now]
    /\ safe' = [safe EXCEPT ![i] = FALSE]
    /\ before' = [before EXCEPT ![i] =
            IF marker = NoMarker THEN "null" ELSE IF Live(marker.run) THEN "live" ELSE "stale"]
    /\ dead' = [dead EXCEPT ![i] = marker.start]
    /\ UNCHANGED <<now, marker, crashes, written, left, ends>>

Record(i) ==
    /\ phase[i] = "looked"
    /\ phase' = [phase EXCEPT ![i] = "recorded"]
    /\ IF before[i] = "stale"
       THEN /\ crashes' = RecordWith(dead[i])
            /\ safe' = [safe EXCEPT ![i] = Decides(crashes')]
       ELSE UNCHANGED <<crashes, safe>>
    /\ UNCHANGED <<now, marker, run, before, dead, written, born, left, ends, runs>>

Mark(i) ==
    /\ phase[i] = "recorded"
    /\ phase' = [phase EXCEPT ![i] = "up"]
    /\ IF before[i] = "live"
       THEN UNCHANGED <<marker, written>>
       ELSE /\ marker' = [run |-> run[i], start |-> now]
            /\ written' = [written EXCEPT ![i] = TRUE]
    /\ UNCHANGED <<now, crashes, runVars, left, ends, runs>>

-----------------------------------------------------------------------------
(* A run *)

\* The timer of a run with scripts: past Early, the record starts over.
HealthyDue(i) ==
    /\ phase[i] = "up" /\ before[i] # "live" /\ ~safe[i]
    /\ now - born[i] = Early
    /\ crashes # <<>> \/ ends # <<>>

Healthy(i) ==
    /\ HealthyDue(i)
    /\ crashes' = <<>> /\ ends' = <<>>
    /\ UNCHANGED <<now, marker, phase, runVars, written, left, runs>>

StopAnd(i, removes) ==
    /\ phase[i] = "up"
    /\ phase' = [phase EXCEPT ![i] = "down"]
    /\ marker' = IF removes THEN NoMarker ELSE marker
    /\ written' = [written EXCEPT ![i] = FALSE]
    /\ left' = [left EXCEPT ![i] = NoTime]
    /\ UNCHANGED <<now, crashes, runVars, ends, runs>>

\* A mutant: the marker is removed whoever wrote it.
MutStop(i) == StopAnd(i, TRUE)

\* gracefulShutdown or the exit handler: _clearSentinel.
Stop(i) == StopAnd(i, written[i])

\* SIGKILL, out of memory, power: nothing is cleaned up.
Kill(i) ==
    /\ phase[i] = "up" \/ (phase[i] # "down" /\ "torn" \in Races)
    /\ phase' = [phase EXCEPT ![i] = "down"]
    /\ left' = [left EXCEPT ![i] = now]
    /\ ends' = IF written[i] THEN Append(ends, [start |-> born[i], at |-> now]) ELSE ends
    /\ written' = [written EXCEPT ![i] = FALSE]
    /\ UNCHANGED <<now, marker, crashes, runVars, runs>>

\* A start takes no time, a timer that is due fires, and what was killed is
\* started again in time.
Tick ==
    /\ now < MaxTime
    /\ now' = now + 1
    /\ \A i \in Instances :
        /\ phase[i] \in {"down", "up"}
        /\ ~HealthyDue(i)
        /\ (phase[i] = "down" /\ left[i] # NoTime) => now - left[i] < Downtime
    /\ UNCHANGED <<marker, crashes, phase, runVars, written, left, ends, runs>>

-----------------------------------------------------------------------------

Init ==
    /\ now = 0
    /\ marker = NoMarker
    /\ crashes = <<>>
    /\ phase = [i \in Instances |-> "down"]
    /\ run = [i \in Instances |-> 0]
    /\ before = [i \in Instances |-> "null"]
    /\ dead = [i \in Instances |-> NoTime]
    /\ safe = [i \in Instances |-> FALSE]
    /\ written = [i \in Instances |-> FALSE]
    /\ born = [i \in Instances |-> 0]
    /\ left = [i \in Instances |-> NoTime]
    /\ ends = <<>>
    /\ runs = 0

Next ==
    \/ Tick
    \/ \E i \in Instances :
        \/ Look(i) \/ Record(i) \/ Mark(i)
        \/ Healthy(i) \/ Stop(i) \/ Kill(i)

Spec == Init /\ [][Next]_vars

-----------------------------------------------------------------------------
(* Properties *)

Times == 0 .. MaxTime

\* Every variable has its type; the record is never longer than Keep
\* (crash-record.js evaluate).
TypeOK ==
    /\ now \in Times
    /\ marker \in [run : 0 .. MaxRuns, start : {NoTime} \cup Times]
    /\ crashes \in Seq([end : Times, early : BOOLEAN]) /\ Len(crashes) <= Keep
    /\ phase \in [Instances -> {"down", "looked", "recorded", "up"}]
    /\ run \in [Instances -> 0 .. MaxRuns]
    /\ before \in [Instances -> {"null", "live", "stale"}]
    /\ dead \in [Instances -> {NoTime} \cup Times]
    /\ {safe, written} \subseteq [Instances -> BOOLEAN]
    /\ born \in [Instances -> Times]
    /\ left \in [Instances -> {NoTime} \cup Times]
    /\ ends \in Seq([start : Times, at : Times])
    /\ runs \in 0 .. MaxRuns

\* The last Count runs that did not end cleanly satisfy ok.
LastEnds(ok(_)) == Len(ends) >= Count /\ \A e \in Range(Last(ends, Count)) : ok(e)

\* doc/script-engine.md: "Safe mode is entered only when the crash repeats and
\* happens early": the last Count runs that did not end cleanly were killed before
\* Early, within the window (or as much before it as they took to be noticed), and
\* no run was healthy since.
SafeOnlyAfterLoop ==
    \A i \in Instances : phase[i] = "up" /\ safe[i] =>
        LastEnds(LAMBDA e : e.at - e.start < Early /\ born[i] - e.at < Window + Early)

\* doc/cli.md: safeModeCrashCount is "How many early crashes in a row put the next
\* start into safe mode": after as many, each followed by a start before Early was
\* over, all in the window, the start that finds the last one is in safe mode.
LoopDetected ==
    \A i \in Instances :
        /\ phase[i] = "up" /\ before[i] = "stale"
        /\ LastEnds(LAMBDA e : e.at + Downtime - e.start < Early /\ born[i] - e.at <= Window)
        => safe[i]

\* doc/script-engine.md: a second instance leaves the marker "to its owner": the
\* marker of a run that wrote one stays until that run ends.
MarkerOwned == \A i \in Instances : written[i] => marker.run = run[i]
=============================================================================
