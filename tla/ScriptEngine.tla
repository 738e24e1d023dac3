---------------------------- MODULE ScriptEngine ----------------------------
(***************************************************************************)
(* Loading, hot-reloading and unloading user scripts (src/index.js:        *)
(* loadScript, unloadScript, loadDir and its chokidar watcher), and what a *)
(* run leaves registered: subscriptions, timers, callbacks under way.      *)
(*                                                                         *)
(* The script directory is one level deep: every file lies in a directory, *)
(* and a file or a directory may carry a .shedisable- marker, a directory  *)
(* a .shelib marker.  Users change files and markers at any time; the      *)
(* watcher polls, sees one difference at a time and handles it against     *)
(* what is on disk by then.                                                *)
(***************************************************************************)
EXTENDS Integers, Sequences, FiniteSets

CONSTANTS
    Files,       \* script files
    Dirs,        \* directories below the script root
    DirOf,       \* the directory of a file
    Broken,      \* versions with a syntax error
    Races,       \* what users and the watcher may do (see below)
    MaxEdits,    \* bound: changes of file contents
    MaxMarks,    \* bound: markers set and removed
    MaxMessages  \* bound: messages dispatched

\* What a run allows beyond one change of one path at a time:
\*   "overlap": an event comes while a script is still being read
\*   "hasty":   a file or marker changes twice before the watcher looks
\*   "nested":  a marker changes inside a directory that is disabled, or
\*              becomes so before the watcher has seen the change
\*   "early":   something changes before the watcher is ready
\*   "late":    a callback subscribes after its script was unloaded
AllRaces == {"overlap", "hasty", "nested", "early", "late"}

Absent == 0 \* the version of a file that is not there

ASSUME ScriptEngineOK ==
    /\ DirOf \in [Files -> Dirs]
    /\ Files \cap Dirs = {}
    /\ Broken \subseteq Nat \ {Absent}
    /\ Races \subseteq AllRaces
    /\ {MaxEdits, MaxMarks, MaxMessages} \subseteq Nat

VARIABLES
    content,  \* disk: version of each file
    disabled, \* disk: files and directories with a .shedisable- marker
    lib,      \* disk: directories with a .shelib marker
    phase,    \* "boot", "loaded" (loadDir is through), "watching" (chokidar ready)
    seen,     \* the watcher's last look at the disk
    reads,    \* readFile calls under way for each file
    scripts,  \* scripts[file]: "none", "false" (did not compile) or "loaded"
    subs,     \* subscriptions with _script = file: the versions that made them
    timers,   \* scriptTimers.get(file): the versions that started them
    gen,      \* which Set scriptTimers holds for the file: a new one after each unload
    pending,  \* callbacks handed to setTimeout by stateChange: [file, ver, gen]
    orphans,  \* timers in a Set no longer in scriptTimers
    raced,    \* the races there have been so far (history)
    edits, marks, messages \* counts (bounds only)

diskVars == <<content, disabled, lib>>
regVars == <<scripts, subs, timers, gen>>
countVars == <<edits, marks, messages>>
vars == <<diskVars, phase, seen, reads, regVars, pending, orphans, raced, countVars>>

Disk == [content |-> content, disabled |-> disabled, lib |-> lib]
Exists(f) == content[f] # Absent
IsLibFile(f) == DirOf[f] \in lib
IsInDisabledDir(f) == DirOf[f] \in disabled
In(d) == {f \in Files : DirOf[f] = d}

\* What runs of a script register: they subscribe and start a timer.
Run == [file : Files, ver : Nat, gen : Nat]

\* A step that is a case of a race is taken only where Races allows it.
Case(kind, cond) == IF cond THEN {kind} ELSE {}
Race(kinds) == kinds \subseteq Races /\ raced' = raced \cup kinds

-----------------------------------------------------------------------------
(* Loading and unloading *)

\* unloadScript for the files of out, then loadScript for those of in: a file
\* that is loaded is not loaded again, one that is being read is.  keptSubs and
\* keptSets: what unloading forgets of.
Reload(out, in, keptSubs, keptSets) ==
    /\ scripts' = [f \in Files |-> IF f \in out THEN "none" ELSE scripts[f]]
    /\ subs' = [f \in Files |-> IF f \in out \ keptSubs THEN <<>> ELSE subs[f]]
    /\ timers' = [f \in Files |-> IF f \in out THEN {} ELSE timers[f]]
    /\ gen' = [f \in Files |-> IF f \in out \ keptSets THEN gen[f] + 1 ELSE gen[f]]
    /\ reads' = [f \in Files |-> IF f \in in /\ scripts'[f] # "loaded" THEN reads[f] + 1 ELSE reads[f]]

\* Mutants: the subscriptions of an unloaded script stay; its timers are cleared
\* but the Set they were in is not dropped.
MutUnloadKeepsSubs(out, in) == Reload(out, in, Files, {})
MutUnloadKeepsSet(out, in) == Reload(out, in, {}, Files)
UnloadThenLoad(out, in) == Reload(out, in, {}, {})

\* The callback of readFile: compile and run, whatever happened meanwhile.
ReadDone(f) ==
    /\ reads[f] > 0
    /\ reads' = [reads EXCEPT ![f] = @ - 1]
    /\ IF ~Exists(f)
       THEN UNCHANGED regVars
       ELSE IF content[f] \in Broken
       THEN /\ scripts' = [scripts EXCEPT ![f] = "false"]
            /\ UNCHANGED <<subs, timers, gen>>
       ELSE /\ scripts' = [scripts EXCEPT ![f] = "loaded"]
            /\ subs' = [subs EXCEPT ![f] = Append(@, content[f])]
            /\ timers' = [timers EXCEPT ![f] = @ \cup {content[f]}]
            /\ UNCHANGED gen
    /\ UNCHANGED <<diskVars, phase, seen, pending, orphans, raced, countVars>>

\* A mutant: files of a library are loaded with the others.
MutLoadable(d) == {f \in In(d) : Exists(f) /\ f \notin disabled}

\* loadDirRecursive on a directory: neither it nor what is above it is asked
\* whether it is disabled, only its files are.
Loadable(d) == {f \in In(d) : Exists(f) /\ ~IsLibFile(f) /\ f \notin disabled}

\* start(): loadDir on the script root.
Start ==
    /\ phase = "boot"
    /\ phase' = "loaded"
    /\ UnloadThenLoad({}, {f \in Files : DirOf[f] \notin disabled /\ f \in Loadable(DirOf[f])})
    /\ UNCHANGED <<diskVars, seen, pending, orphans, raced, countVars>>

\* ignoreInitial: what the watcher finds first is no event.
WatcherReady ==
    /\ phase = "loaded"
    /\ phase' = "watching"
    /\ seen' = Disk
    /\ UNCHANGED <<diskVars, reads, regVars, pending, orphans, raced, countVars>>

-----------------------------------------------------------------------------
(* The watcher's 'all' handler, one event each *)

Polls == phase = "watching" /\ Race(Case("overlap", \E f \in Files : reads[f] > 0))
HandlerUnchanged == UNCHANGED <<diskVars, phase, pending, orphans, countVars>>

Skipped(f) == IsLibFile(f) \/ f \in disabled \/ IsInDisabledDir(f)

\* A mutant: a changed file is loaded without unloading it first.
MutFileEvent(f) ==
    /\ Polls
    /\ content[f] # seen.content[f]
    /\ seen' = [seen EXCEPT !.content[f] = content[f]]
    /\ IF ~Exists(f)
       THEN UnloadThenLoad({f} \cap {g \in Files : scripts[g] = "loaded"}, {})
       ELSE UnloadThenLoad({}, {f} \ {g \in Files : Skipped(g)})
    /\ HandlerUnchanged

FileEvent(f) ==
    /\ Polls
    /\ content[f] # seen.content[f]
    /\ seen' = [seen EXCEPT !.content[f] = content[f]]
    /\ IF ~Exists(f)                        \* unlink
       THEN UnloadThenLoad({f} \cap {g \in Files : scripts[g] = "loaded"}, {})
       ELSE IF Skipped(f)
       THEN UNCHANGED <<regVars, reads>>
       ELSE IF seen.content[f] = Absent     \* add
       THEN UnloadThenLoad({}, {f})
       ELSE UnloadThenLoad({f}, {f})        \* change
    /\ HandlerUnchanged

\* A mutant: a script is not loaded when its marker goes.
MutFileMarkerEvent(f) ==
    /\ Polls
    /\ (f \in disabled) # (f \in seen.disabled)
    /\ seen' = [seen EXCEPT !.disabled = IF f \in disabled THEN @ \cup {f} ELSE @ \ {f}]
    /\ UnloadThenLoad({f} \cap {g \in Files : g \in disabled /\ scripts[g] = "loaded"}, {})
    /\ HandlerUnchanged

FileMarkerEvent(f) ==
    /\ Polls
    /\ (f \in disabled) # (f \in seen.disabled)
    /\ IF f \in disabled
       THEN /\ seen' = [seen EXCEPT !.disabled = @ \cup {f}]
            /\ UnloadThenLoad({f} \cap {g \in Files : scripts[g] = "loaded"}, {})
       ELSE /\ seen' = [seen EXCEPT !.disabled = @ \ {f}]
            /\ UnloadThenLoad({}, {f} \cap {g \in Files : Exists(g) /\ ~IsLibFile(g)})
    /\ HandlerUnchanged

DirMarkerEvent(d) ==
    /\ Polls
    /\ (d \in disabled) # (d \in seen.disabled)
    /\ IF d \in disabled
       THEN /\ seen' = [seen EXCEPT !.disabled = @ \cup {d}]
            /\ UnloadThenLoad({f \in In(d) : scripts[f] # "none"}, {})
       ELSE /\ seen' = [seen EXCEPT !.disabled = @ \ {d}]
            /\ UnloadThenLoad({}, Loadable(d))
    /\ HandlerUnchanged

LibMarkerEvent(d) ==
    /\ Polls
    /\ (d \in lib) # (d \in seen.lib)
    /\ IF d \in lib
       THEN /\ seen' = [seen EXCEPT !.lib = @ \cup {d}]
            /\ UnloadThenLoad({f \in In(d) : scripts[f] # "none"}, {})
       ELSE /\ seen' = [seen EXCEPT !.lib = @ \ {d}]
            /\ UnloadThenLoad({}, Loadable(d))
    /\ HandlerUnchanged

-----------------------------------------------------------------------------
(* Callbacks *)

\* stateChange: every subscription gets its callback through setTimeout, after
\* options.shift and options.random or at once; nothing tracks that timer.
Message(f) ==
    /\ messages < MaxMessages
    /\ messages' = messages + 1
    /\ subs[f] # <<>>
    /\ pending' = pending \cup {[file |-> f, ver |-> subs[f][k], gen |-> gen[f]] : k \in DOMAIN subs[f]}
    /\ UNCHANGED <<diskVars, phase, seen, reads, regVars, orphans, raced, edits, marks>>

\* The callback runs and starts a timer with its script's own setTimeout; one that
\* outlived its run may also subscribe, under the name of its script.
Callback(c) ==
    /\ c \in pending
    /\ pending' = pending \ {c}
    /\ \/ /\ IF c.gen = gen[c.file]
             THEN timers' = [timers EXCEPT ![c.file] = @ \cup {c.ver}] /\ UNCHANGED orphans
             ELSE orphans' = orphans \cup {c} /\ UNCHANGED timers
          /\ UNCHANGED <<subs, raced>>
       \/ /\ c.gen # gen[c.file] /\ Race({"late"})
          /\ subs' = [subs EXCEPT ![c.file] = Append(@, c.ver)]
          /\ UNCHANGED <<timers, orphans>>
    /\ UNCHANGED <<diskVars, phase, seen, reads, scripts, gen, countVars>>

TimerFires(f, v) ==
    /\ v \in timers[f]
    /\ timers' = [timers EXCEPT ![f] = @ \ {v}]
    /\ UNCHANGED <<diskVars, phase, seen, reads, scripts, subs, gen, pending, orphans, raced, countVars>>

OrphanFires(c) ==
    /\ c \in orphans
    /\ orphans' = orphans \ {c}
    /\ UNCHANGED <<diskVars, phase, seen, reads, regVars, pending, raced, countVars>>

-----------------------------------------------------------------------------
(* The user *)

Early == Case("early", phase # "watching")

\* A marker inside d changes while d is disabled, or d's own marker does before
\* the watcher has seen theirs.
Nested(d) == Case("nested", d \in disabled \cup seen.disabled)
Unsettled(d) ==
    Case("nested", (d \in lib) # (d \in seen.lib) \/ In(d) \cap disabled # In(d) \cap seen.disabled)

Edit(f) ==
    /\ Race(Early \cup Case("hasty", content[f] # seen.content[f]))
    /\ edits < MaxEdits
    /\ edits' = edits + 1
    /\ content' \in {[content EXCEPT ![f] = v] : v \in {Absent, edits + 2}}
    /\ content' # content
    /\ UNCHANGED <<disabled, lib, phase, seen, reads, regVars, pending, orphans, marks, messages>>

Mark(x) ==
    /\ Race(Early \cup Case("hasty", (x \in disabled) # (x \in seen.disabled))
                   \cup (IF x \in Files THEN Nested(DirOf[x]) ELSE Unsettled(x)))
    /\ marks < MaxMarks
    /\ marks' = marks + 1
    /\ disabled' = IF x \in disabled THEN disabled \ {x} ELSE disabled \cup {x}
    /\ UNCHANGED <<content, lib, phase, seen, reads, regVars, pending, orphans, edits, messages>>

MarkLib(d) ==
    /\ Race(Early \cup Case("hasty", (d \in lib) # (d \in seen.lib)) \cup Nested(d))
    /\ marks < MaxMarks
    /\ marks' = marks + 1
    /\ lib' = IF d \in lib THEN lib \ {d} ELSE lib \cup {d}
    /\ UNCHANGED <<content, disabled, phase, seen, reads, regVars, pending, orphans, edits, messages>>

-----------------------------------------------------------------------------

Init ==
    /\ content \in [Files -> {Absent, 1}]
    /\ disabled \in SUBSET (Files \cup Dirs)
    /\ lib \in SUBSET Dirs
    /\ phase = "boot"
    /\ seen = Disk
    /\ reads = [f \in Files |-> 0]
    /\ scripts = [f \in Files |-> "none"]
    /\ subs = [f \in Files |-> <<>>]
    /\ timers = [f \in Files |-> {}]
    /\ gen = [f \in Files |-> 0]
    /\ pending = {}
    /\ orphans = {}
    /\ raced = {}
    /\ edits = 0 /\ marks = 0 /\ messages = 0

Watch ==
    \/ \E f \in Files : FileEvent(f) \/ FileMarkerEvent(f)
    \/ \E d \in Dirs : DirMarkerEvent(d) \/ LibMarkerEvent(d)

Next ==
    \/ Start \/ WatcherReady
    \/ Watch
    \/ \E f \in Files : ReadDone(f) \/ Message(f) \/ Edit(f)
    \/ \E f \in Files, v \in 1 .. MaxEdits + 1 : TimerFires(f, v)
    \/ \E c \in pending : Callback(c)
    \/ \E c \in orphans : OrphanFires(c)
    \/ \E x \in Files \cup Dirs : Mark(x)
    \/ \E d \in Dirs : MarkLib(d)

Spec == Init /\ [][Next]_vars

\* Reads come back and the poll timer keeps firing.
FairSpec ==
    /\ Spec
    /\ WF_vars(Start) /\ WF_vars(WatcherReady) /\ WF_vars(Watch)
    /\ \A f \in Files : WF_vars(ReadDone(f))

-----------------------------------------------------------------------------
(* Properties *)

\* Every variable has its type; no read is called back that was not begun
\* (loadScript).
TypeOK ==
    /\ content \in [Files -> Nat]
    /\ disabled \subseteq Files \cup Dirs
    /\ lib \subseteq Dirs
    /\ phase \in {"boot", "loaded", "watching"}
    /\ seen \in [content : [Files -> Nat], disabled : SUBSET (Files \cup Dirs), lib : SUBSET Dirs]
    /\ reads \in [Files -> Nat]
    /\ scripts \in [Files -> {"none", "false", "loaded"}]
    /\ subs \in [Files -> Seq(Nat)]
    /\ timers \in [Files -> SUBSET Nat]
    /\ gen \in [Files -> Nat]
    /\ raced \subseteq AllRaces
    /\ pending \subseteq Run /\ orphans \subseteq Run
    /\ {edits, marks, messages} \subseteq Nat

\* The watcher has seen all there is and every script is read.
Quiet == phase = "watching" /\ seen = Disk /\ \A f \in Files : reads[f] = 0

Eligible(f) == Exists(f) /\ content[f] \notin Broken /\ ~Skipped(f)
Silent(f) == scripts[f] # "loaded" /\ subs[f] = <<>> /\ timers[f] = {}
RunsLatest(f) == scripts[f] = "loaded" /\ subs[f] # <<>> /\ subs[f][Len(subs[f])] = content[f]

\* Once the watcher has caught up, every script that may run does, in its
\* present version, whatever order files and markers were changed and seen in.
LatestRuns == Quiet /\ raced = {} => \A f \in Files : Eligible(f) => RunsLatest(f)

\* Once the watcher has caught up, a file that is gone, disabled, in a disabled
\* directory, in a library or no longer compiling has nothing left running.
IneligibleStops == Quiet /\ raced = {} => \A f \in Files : ~Eligible(f) => Silent(f)

\* A file has one run, the case loadScript's "already loaded?!" is to keep out:
\* so it is as long as no event comes while the file is being read and no callback
\* of an unloaded version subscribes.
OneInstance == raced \cap {"overlap", "late"} = {} => \A f \in Files : Len(subs[f]) <= 1

\* Nothing is registered for a script that is not loaded, under the same condition: of
\* two reads under way the second may find a version that does not compile, and the
\* first one's run stays; a callback may outlive its run.
Owned ==
    raced \cap {"overlap", "late"} = {} =>
        \A f \in Files : subs[f] # <<>> \/ timers[f] # {} => scripts[f] = "loaded"

\* Every script that may run ends up running its last version.
Settles == \A f \in Files : <>[](Eligible(f) /\ raced = {} => RunsLatest(f))
=============================================================================
