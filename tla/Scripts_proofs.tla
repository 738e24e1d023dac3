---------------------------- MODULE Scripts_proofs ----------------------------
(***************************************************************************)
(* Proofs about what scripts see: the engine that runs them (ScriptEngine) *)
(* and the variables they share (VarSync), for any files, directories,     *)
(* values and any number of writes, faults and messages under way.         *)
(***************************************************************************)
EXTENDS ScriptEngine, VarSync, SequenceTheorems, TLAPS

(***************************************************************************)
(* The script engine: the state is well typed, a script has one run and    *)
(* what is registered has an owner, and once the watcher has caught up     *)
(* exactly the scripts that may run do, in their last version.             *)
(***************************************************************************)

(***************************************************************************)
(* The inductive invariant.  Registered: while no event came during a read *)
(* and no dead callback subscribed, a file that is being read runs nothing *)
(* and a loaded one has one run, of a version that compiles; a callback of *)
(* the present Set of timers belongs to a loaded script.                   *)
(***************************************************************************)
Registered ==
  raced \cap {"overlap", "late"} = {} =>
    /\ \A f \in Files :
         /\ reads[f] # 0 => reads[f] = 1 /\ scripts[f] # "loaded"
         /\ scripts[f] # "loaded" => subs[f] = <<>> /\ timers[f] = {}
         /\ scripts[f] = "loaded" => Len(subs[f]) = 1 /\ subs[f][1] \notin Broken
         /\ phase = "boot" => reads[f] = 0 /\ scripts[f] = "none"
    /\ \A c \in pending : c.gen <= gen[c.file] /\ (c.gen = gen[c.file] => scripts[c.file] = "loaded")

RInv == TypeOK /\ Registered

\* A file that is loaded or about to be.
Live(f) == reads[f] # 0 \/ scripts[f] = "loaded"

\* While a directory's library marker or a marker of one of its files awaits the
\* watcher, the directory is not disabled and was not.
Apart ==
  \A d \in Dirs :
    \/ (d \in lib <=> d \in seen.lib) /\ \A f \in In(d) : f \in disabled <=> f \in seen.disabled
    \/ d \notin disabled /\ d \notin seen.disabled

\* What forbids a live file to run the watcher has not seen yet; a loaded file runs
\* what it contains, or an event about it is due; one that may run is live, or an event is due.
Tracked(f) ==
  LET d == DirOf[f] IN
  /\ Live(f) =>
       /\ content[f] # Absent \/ seen.content[f] # Absent
       /\ f \notin disabled \/ f \notin seen.disabled
       /\ d \notin disabled \/ d \notin seen.disabled
       /\ d \notin lib \/ d \notin seen.lib
  /\ scripts[f] = "loaded" =>
       subs[f][1] = content[f] \/ (content[f] # seen.content[f] /\ seen.content[f] # Absent) \/ Skipped(f)
  /\ phase # "boot" /\ Eligible(f) =>
       Live(f) \/ content[f] # seen.content[f] \/ f \in seen.disabled \/ d \in seen.disabled \/ d \in seen.lib

Caught ==
  raced = {} => /\ phase # "watching" => seen = Disk
                /\ Apart
                /\ \A f \in Files : Tracked(f)

SInv == RInv /\ Caught

-----------------------------------------------------------------------------
(* Lemmas *)

LEMMA Appended ==
  ASSUME NEW s \in Seq(Nat), NEW n \in Nat
  PROVE  Append(s, n) \in Seq(Nat) /\ (s = <<>> => Len(Append(s, n)) = 1 /\ Append(s, n)[1] = n)
  OBVIOUS

\* What unloading and loading does to each file.
LEMMA Reloads ==
  ASSUME TypeOK, NEW out, NEW in, UnloadThenLoad(out, in)
  PROVE  /\ scripts' \in [Files -> {"none", "false", "loaded"}] /\ subs' \in [Files -> Seq(Nat)]
         /\ timers' \in [Files -> SUBSET Nat] /\ gen' \in [Files -> Nat] /\ reads' \in [Files -> Nat]
         /\ \A f \in Files :
              /\ f \in out => scripts'[f] = "none" /\ subs'[f] = <<>> /\ timers'[f] = {} /\ gen'[f] = gen[f] + 1
              /\ f \notin out => scripts'[f] = scripts[f] /\ subs'[f] = subs[f] /\ timers'[f] = timers[f] /\ gen'[f] = gen[f]
              /\ f \in in /\ scripts'[f] # "loaded" => reads'[f] = reads[f] + 1
              /\ f \notin in \/ scripts'[f] = "loaded" => reads'[f] = reads[f]
<1>1. /\ scripts' = [f \in Files |-> IF f \in out THEN "none" ELSE scripts[f]]
      /\ subs' = [f \in Files |-> IF f \in out THEN <<>> ELSE subs[f]]
      /\ timers' = [f \in Files |-> IF f \in out THEN {} ELSE timers[f]]
      /\ gen' = [f \in Files |-> IF f \in out THEN gen[f] + 1 ELSE gen[f]]
      /\ reads' = [f \in Files |-> IF f \in in /\ scripts'[f] # "loaded" THEN reads[f] + 1 ELSE reads[f]]
  BY DEF UnloadThenLoad, Reload
<1>2. scripts' \in [Files -> {"none", "false", "loaded"}] /\ timers' \in [Files -> SUBSET Nat]
  BY <1>1 DEF TypeOK
<1>3. gen' \in [Files -> Nat]
  BY <1>1 DEF TypeOK
<1>4. subs' \in [Files -> Seq(Nat)]
  <2>1. \A f \in Files : (IF f \in out THEN <<>> ELSE subs[f]) \in Seq(Nat)
    BY DEF TypeOK
  <2> QED
    BY <1>1, <2>1
<1>5. reads' \in [Files -> Nat]
  BY <1>1 DEF TypeOK
<1> QED
  BY <1>1, <1>2, <1>3, <1>4, <1>5

\* A race is remembered.
LEMMA RaceKept ==
  ASSUME TypeOK, NEW kinds, Race(kinds)
  PROVE  raced \subseteq raced' /\ kinds \subseteq raced' /\ raced' \subseteq AllRaces
  BY ScriptEngineOK DEF Race, TypeOK

\* The watcher's view after an event.
SeenType == [content : [Files -> Nat], disabled : SUBSET (Files \cup Dirs), lib : SUBSET Dirs]

LEMMA SeenContent ==
  ASSUME TypeOK, NEW f \in Files, seen' = [seen EXCEPT !.content[f] = content[f]]
  PROVE  /\ seen' \in SeenType /\ seen'.disabled = seen.disabled /\ seen'.lib = seen.lib
         /\ \A g \in Files : seen'.content[g] = IF g = f THEN content[f] ELSE seen.content[g]
<1>1. seen \in SeenType /\ content[f] \in Nat
  BY DEF TypeOK, SeenType
<1>2. seen.content \in [Files -> Nat]
  BY <1>1 DEF SeenType
<1>3. PICK c \in [Files -> Nat] : c = [seen.content EXCEPT ![f] = content[f]]
  BY <1>1, <1>2
<1>4. \A g \in Files : c[g] = IF g = f THEN content[f] ELSE seen.content[g]
  BY <1>2, <1>3
<1>5. seen' = [seen EXCEPT !.content = c]
  BY <1>3
<1>6. seen' \in SeenType /\ seen'.disabled = seen.disabled /\ seen'.lib = seen.lib /\ seen'.content = c
  BY <1>1, <1>5 DEF SeenType
<1> QED
  BY <1>4, <1>6

LEMMA SeenDisabled ==
  ASSUME TypeOK, NEW s \in SUBSET (Files \cup Dirs), seen' = [seen EXCEPT !.disabled = s]
  PROVE  seen' \in SeenType /\ seen'.disabled = s /\ seen'.lib = seen.lib /\ seen'.content = seen.content
  BY DEF TypeOK, SeenType

LEMMA SeenLib ==
  ASSUME TypeOK, NEW s \in SUBSET Dirs, seen' = [seen EXCEPT !.lib = s]
  PROVE  seen' \in SeenType /\ seen'.disabled = seen.disabled /\ seen'.lib = s /\ seen'.content = seen.content
  BY DEF TypeOK, SeenType

\* The handlers of the events, one each.
LEMMA FileEventSees ==
  ASSUME TypeOK, NEW f \in Files, FileEvent(f)
  PROVE  /\ seen' \in SeenType /\ seen'.disabled = seen.disabled /\ seen'.lib = seen.lib
         /\ \A g \in Files : seen'.content[g] = IF g = f THEN content[f] ELSE seen.content[g]
  BY SeenContent DEF FileEvent

LEMMA FileMarkerEventSees ==
  ASSUME TypeOK, NEW f \in Files, FileMarkerEvent(f)
  PROVE  /\ seen' \in SeenType /\ seen'.lib = seen.lib /\ seen'.content = seen.content
         /\ seen'.disabled = IF f \in disabled THEN seen.disabled \cup {f} ELSE seen.disabled \ {f}
<1>1. seen.disabled \in SUBSET (Files \cup Dirs)
  BY DEF TypeOK
<1> QED
  BY <1>1, SeenDisabled DEF FileMarkerEvent

LEMMA DirMarkerEventSees ==
  ASSUME TypeOK, NEW d \in Dirs, DirMarkerEvent(d)
  PROVE  /\ seen' \in SeenType /\ seen'.lib = seen.lib /\ seen'.content = seen.content
         /\ seen'.disabled = IF d \in disabled THEN seen.disabled \cup {d} ELSE seen.disabled \ {d}
<1>1. seen.disabled \in SUBSET (Files \cup Dirs)
  BY DEF TypeOK
<1> QED
  BY <1>1, SeenDisabled DEF DirMarkerEvent

LEMMA LibMarkerEventSees ==
  ASSUME TypeOK, NEW d \in Dirs, LibMarkerEvent(d)
  PROVE  /\ seen' \in SeenType /\ seen'.disabled = seen.disabled /\ seen'.content = seen.content
         /\ seen'.lib = IF d \in lib THEN seen.lib \cup {d} ELSE seen.lib \ {d}
<1>1. seen.lib \in SUBSET Dirs
  BY DEF TypeOK
<1> QED
  BY <1>1, SeenLib DEF LibMarkerEvent

\* What all have in common: what is loaded is unloaded or reloaded, files are not touched,
\* and an event during a read is a race.
LEMMA EventReloads ==
  ASSUME TypeOK, Watch
  PROVE  /\ phase = "watching" /\ UNCHANGED <<content, disabled, lib, phase, pending, orphans, edits, marks, messages>>
         /\ Race(Case("overlap", \E f \in Files : reads[f] > 0))
         /\ seen' \in SeenType
         /\ UNCHANGED <<scripts, subs, timers, gen, reads>> \/ \E out, in : UnloadThenLoad(out, in)
<1>1. Polls /\ HandlerUnchanged
  BY DEF Watch, FileEvent, FileMarkerEvent, DirMarkerEvent, LibMarkerEvent
<1>2. seen' \in SeenType
  BY FileEventSees, FileMarkerEventSees, DirMarkerEventSees, LibMarkerEventSees DEF Watch
<1>3. ASSUME NEW f \in Files, FileEvent(f)
      PROVE  UNCHANGED <<scripts, subs, timers, gen, reads>> \/ \E out, in : UnloadThenLoad(out, in)
  BY <1>3 DEF FileEvent, regVars
<1>4. ASSUME NEW f \in Files, FileMarkerEvent(f) PROVE \E out, in : UnloadThenLoad(out, in)
  BY <1>4 DEF FileMarkerEvent
<1>5. ASSUME NEW d \in Dirs, DirMarkerEvent(d) PROVE \E out, in : UnloadThenLoad(out, in)
  BY <1>5 DEF DirMarkerEvent
<1>6. ASSUME NEW d \in Dirs, LibMarkerEvent(d) PROVE \E out, in : UnloadThenLoad(out, in)
  BY <1>6 DEF LibMarkerEvent
<1> QED
  BY <1>1, <1>2, <1>3, <1>4, <1>5, <1>6 DEF Watch, Polls, HandlerUnchanged, diskVars, countVars

-----------------------------------------------------------------------------
(* Types *)

\* A read that comes back.
LEMMA ReadDoes ==
  ASSUME TypeOK, NEW f \in Files, ReadDone(f)
  PROVE  /\ UNCHANGED <<content, disabled, lib, phase, seen, gen, pending, orphans, raced, edits, marks, messages>>
         /\ reads[f] # 0 /\ reads' \in [Files -> Nat] /\ reads'[f] = reads[f] - 1
         /\ \A g \in Files \ {f} : reads'[g] = reads[g] /\ scripts'[g] = scripts[g] /\ subs'[g] = subs[g] /\ timers'[g] = timers[g]
         /\ scripts' \in [Files -> {"none", "false", "loaded"}] /\ subs' \in [Files -> Seq(Nat)] /\ timers' \in [Files -> SUBSET Nat]
         /\ IF Exists(f) /\ content[f] \notin Broken
            THEN scripts'[f] = "loaded" /\ subs'[f] = Append(subs[f], content[f])
            ELSE /\ scripts'[f] = (IF Exists(f) THEN "false" ELSE scripts[f])
                 /\ subs'[f] = subs[f] /\ timers'[f] = timers[f]
<1>1. /\ reads[f] \in Nat /\ reads[f] # 0 /\ reads' = [reads EXCEPT ![f] = @ - 1] /\ content[f] \in Nat
      /\ subs[f] \in Seq(Nat)
      /\ UNCHANGED <<content, disabled, lib, phase, seen, pending, orphans, raced, edits, marks, messages>>
  BY DEF TypeOK, ReadDone, diskVars, countVars
<1>2. reads' \in [Files -> Nat] /\ reads'[f] = reads[f] - 1 /\ \A g \in Files \ {f} : reads'[g] = reads[g]
  BY <1>1 DEF TypeOK
<1>3. CASE ~Exists(f)
  BY <1>1, <1>2, <1>3 DEF ReadDone, regVars, TypeOK
<1>4. CASE Exists(f) /\ content[f] \in Broken
  BY <1>1, <1>2, <1>4 DEF ReadDone, TypeOK
<1>5. CASE Exists(f) /\ content[f] \notin Broken
  <2>1. /\ scripts' = [scripts EXCEPT ![f] = "loaded"] /\ subs' = [subs EXCEPT ![f] = Append(@, content[f])]
        /\ timers' = [timers EXCEPT ![f] = @ \cup {content[f]}] /\ gen' = gen
    BY <1>5 DEF ReadDone
  <2>2. PICK q \in Seq(Nat) : q = Append(subs[f], content[f])
    BY <1>1, Appended
  <2>3. subs' = [subs EXCEPT ![f] = q]
    BY <2>1, <2>2
  <2>4. subs' \in [Files -> Seq(Nat)] /\ subs'[f] = q /\ \A g \in Files \ {f} : subs'[g] = subs[g]
    BY <2>3 DEF TypeOK
  <2>5. timers' \in [Files -> SUBSET Nat] /\ \A g \in Files \ {f} : timers'[g] = timers[g]
    BY <1>1, <2>1 DEF TypeOK
  <2>6. scripts' \in [Files -> {"none", "false", "loaded"}] /\ scripts'[f] = "loaded" /\ \A g \in Files \ {f} : scripts'[g] = scripts[g]
    BY <2>1 DEF TypeOK
  <2> QED
    BY <1>1, <1>2, <1>5, <2>1, <2>2, <2>4, <2>5, <2>6
<1> QED
  BY <1>3, <1>4, <1>5

\* A message is handed to the callbacks there are.
LEMMA MessageDoes ==
  ASSUME TypeOK, NEW f \in Files, Message(f)
  PROVE  /\ UNCHANGED <<content, disabled, lib, phase, seen, reads, scripts, subs, timers, gen, orphans, raced, edits, marks>>
         /\ pending' \subseteq Run /\ messages' \in Nat /\ subs[f] # <<>>
         /\ \A c \in pending' : c \in pending \/ (c.file = f /\ c.gen = gen[f])
<1>1. subs[f] \in Seq(Nat) /\ gen[f] \in Nat
  BY DEF TypeOK
<1>2. \A k \in DOMAIN subs[f] : subs[f][k] \in Nat
  BY <1>1
<1>3. \A k \in DOMAIN subs[f] : [file |-> f, ver |-> subs[f][k], gen |-> gen[f]] \in Run
  BY <1>1, <1>2 DEF Run
<1> QED
  BY <1>3 DEF Message, TypeOK, diskVars, regVars

\* A callback starts a timer of its script or an orphan, or subscribes late.
LEMMA CallbackDoes ==
  ASSUME TypeOK, NEW c \in pending, Callback(c)
  PROVE  /\ UNCHANGED <<content, disabled, lib, phase, seen, reads, scripts, gen, edits, marks, messages>>
         /\ pending' = pending \ {c} /\ orphans' \subseteq Run /\ c \in Run
         /\ raced \subseteq raced' /\ raced' \subseteq AllRaces
         /\ subs' \in [Files -> Seq(Nat)] /\ timers' \in [Files -> SUBSET Nat]
         /\ \/ subs' = subs /\ (timers' = timers \/ c.gen = gen[c.file])
               /\ \A f \in Files \ {c.file} : timers'[f] = timers[f]
            \/ "late" \in raced'
<1>1. c \in Run /\ c.file \in Files /\ c.ver \in Nat
  BY DEF TypeOK, Run
<1>2. /\ UNCHANGED <<content, disabled, lib, phase, seen, reads, scripts, gen, edits, marks, messages>>
      /\ pending' = pending \ {c}
  BY DEF Callback, diskVars, countVars
<1>3. CASE /\ IF c.gen = gen[c.file]
              THEN timers' = [timers EXCEPT ![c.file] = @ \cup {c.ver}] /\ UNCHANGED orphans
              ELSE orphans' = orphans \cup {c} /\ UNCHANGED timers
           /\ UNCHANGED <<subs, raced>>
  <2>1. PICK g \in Files, v \in Nat : g = c.file /\ v = c.ver
    BY <1>1
  <2>2. CASE c.gen = gen[c.file]
    <3>1. timers' = [timers EXCEPT ![g] = @ \cup {v}] /\ orphans' = orphans
      BY <1>3, <2>1, <2>2
    <3>2. timers' \in [Files -> SUBSET Nat] /\ \A f \in Files \ {g} : timers'[f] = timers[f]
      BY <3>1 DEF TypeOK
    <3> QED
      BY <1>1, <1>2, <1>3, <2>1, <2>2, <3>1, <3>2 DEF TypeOK
  <2>3. CASE c.gen # gen[c.file]
    BY <1>1, <1>2, <1>3, <2>3 DEF TypeOK
  <2> QED
    BY <2>2, <2>3
<1>4. CASE /\ c.gen # gen[c.file] /\ Race({"late"})
           /\ subs' = [subs EXCEPT ![c.file] = Append(@, c.ver)]
           /\ UNCHANGED <<timers, orphans>>
  <2>1. subs[c.file] \in Seq(Nat)
    BY <1>1 DEF TypeOK
  <2>2. PICK q \in Seq(Nat) : q = Append(subs[c.file], c.ver)
    BY <1>1, <2>1, Appended
  <2>3. subs' \in [Files -> Seq(Nat)]
    BY <1>4, <2>2 DEF TypeOK
  <2>4. raced \subseteq raced' /\ "late" \in raced' /\ raced' \subseteq AllRaces
    BY <1>4, RaceKept
  <2> QED
    BY <1>1, <1>2, <1>4, <2>3, <2>4 DEF TypeOK
<1> QED
  BY <1>3, <1>4 DEF Callback

\* Users change the disk, nothing else.
LEMMA UserDoes ==
  ASSUME TypeOK, (\E f \in Files : Edit(f)) \/ (\E x \in Files \cup Dirs : Mark(x)) \/ (\E d \in Dirs : MarkLib(d))
  PROVE  /\ UNCHANGED <<phase, seen, reads, scripts, subs, timers, gen, pending, orphans, messages>>
         /\ raced \subseteq raced' /\ raced' \subseteq AllRaces
         /\ "early" \in raced' \/ phase = "watching"
         /\ content' \in [Files -> Nat] /\ disabled' \subseteq Files \cup Dirs /\ lib' \subseteq Dirs
         /\ edits' \in Nat /\ marks' \in Nat
<1>1. edits \in Nat /\ marks \in Nat /\ Absent \in Nat /\ edits + 2 \in Nat
  BY DEF TypeOK, Absent
<1>2. ASSUME NEW f \in Files, Edit(f)
      PROVE  /\ UNCHANGED <<phase, seen, reads, scripts, subs, timers, gen, pending, orphans, messages, disabled, lib, marks>>
             /\ content' \in [Files -> Nat] /\ edits' \in Nat
             /\ \E kinds : Race(Early \cup kinds)
  <2>1. PICK v \in Nat : content' = [content EXCEPT ![f] = v]
    BY <1>1, <1>2 DEF Edit
  <2>2. content' \in [Files -> Nat]
    BY <2>1 DEF TypeOK
  <2>3. \E kinds : Race(Early \cup kinds)
    BY <1>2 DEF Edit
  <2>4. /\ UNCHANGED <<phase, seen, reads, scripts, subs, timers, gen, pending, orphans, messages, disabled, lib, marks>>
        /\ edits' = edits + 1
    BY <1>2 DEF Edit, regVars
  <2>5. edits' \in Nat
    BY <1>1, <2>4
  <2> QED
    BY <2>2, <2>3, <2>4, <2>5
<1>3. ASSUME NEW x \in Files \cup Dirs, Mark(x)
      PROVE  /\ UNCHANGED <<phase, seen, reads, scripts, subs, timers, gen, pending, orphans, messages, content, lib, edits>>
             /\ disabled' \subseteq Files \cup Dirs /\ marks' \in Nat
  BY <1>1, <1>3 DEF Mark, TypeOK, regVars
<1>4. ASSUME NEW x \in Files \cup Dirs, Mark(x) PROVE \E kinds : Race(Early \cup kinds)
  <2> DEFINE kinds == Case("hasty", (x \in disabled) # (x \in seen.disabled))
                        \cup (IF x \in Files THEN Nested(DirOf[x]) ELSE Unsettled(x))
  <2>1. Race(Early \cup kinds)
    BY <1>4 DEF Mark, Race
  <2> QED
    BY <2>1
<1>5. ASSUME NEW d \in Dirs, MarkLib(d)
      PROVE  /\ UNCHANGED <<phase, seen, reads, scripts, subs, timers, gen, pending, orphans, messages, content, disabled, edits>>
             /\ lib' \subseteq Dirs /\ marks' \in Nat
  BY <1>1, <1>5 DEF MarkLib, TypeOK, regVars
<1>6. ASSUME NEW d \in Dirs, MarkLib(d) PROVE \E kinds : Race(Early \cup kinds)
  <2> DEFINE kinds == Case("hasty", (d \in lib) # (d \in seen.lib)) \cup Nested(d)
  <2>1. Race(Early \cup kinds)
    BY <1>6 DEF MarkLib, Race
  <2> QED
    BY <2>1
<1>7. PICK kinds : Race(Early \cup kinds)
  BY <1>2, <1>4, <1>6
<1>8. raced \subseteq raced' /\ raced' \subseteq AllRaces /\ ("early" \in raced' \/ phase = "watching")
  BY <1>7, RaceKept DEF Early, Case
<1> QED
  BY <1>2, <1>3, <1>5, <1>8 DEF TypeOK

LEMMA TInit == Init => TypeOK
<1> SUFFICES ASSUME Init PROVE TypeOK
  OBVIOUS
<1>1. content \in [Files -> Nat] /\ seen \in SeenType
  BY DEF Init, Absent, Disk, SeenType
<1>2. subs \in [Files -> Seq(Nat)]
  BY DEF Init
<1> QED
  BY <1>1, <1>2 DEF Init, TypeOK, SeenType

LEMMA TStep == TypeOK /\ [Next]_vars => TypeOK'
<1> SUFFICES ASSUME TypeOK, [Next]_vars PROVE TypeOK'
  OBVIOUS
<1>1. CASE UNCHANGED vars
  BY <1>1 DEF vars, diskVars, regVars, countVars, TypeOK
<1>2. CASE Start
  <2>1. /\ UNCHANGED <<content, disabled, lib, seen, pending, orphans, raced, edits, marks, messages>> /\ phase' = "loaded"
        /\ \E out, in : UnloadThenLoad(out, in)
    BY <1>2 DEF Start, diskVars, countVars
  <2>2. PICK out, in : UnloadThenLoad(out, in)
    BY <2>1
  <2>3. /\ scripts' \in [Files -> {"none", "false", "loaded"}] /\ subs' \in [Files -> Seq(Nat)]
        /\ timers' \in [Files -> SUBSET Nat] /\ gen' \in [Files -> Nat] /\ reads' \in [Files -> Nat]
    BY <2>2, Reloads
  <2> QED
    BY <2>1, <2>3 DEF TypeOK
<1>3. CASE WatcherReady
  BY <1>3 DEF WatcherReady, TypeOK, Disk, diskVars, regVars, countVars
<1>4. CASE Watch
  <2>1. /\ UNCHANGED <<content, disabled, lib, phase, pending, orphans, edits, marks, messages>>
        /\ seen' \in SeenType
        /\ UNCHANGED <<scripts, subs, timers, gen, reads>> \/ \E out, in : UnloadThenLoad(out, in)
    BY <1>4, EventReloads
  <2>2. raced' \subseteq AllRaces
    BY <1>4, EventReloads, RaceKept
  <2>3. /\ scripts' \in [Files -> {"none", "false", "loaded"}] /\ subs' \in [Files -> Seq(Nat)]
        /\ timers' \in [Files -> SUBSET Nat] /\ gen' \in [Files -> Nat] /\ reads' \in [Files -> Nat]
    <3>1. ASSUME NEW out, NEW in, UnloadThenLoad(out, in)
          PROVE  /\ scripts' \in [Files -> {"none", "false", "loaded"}] /\ subs' \in [Files -> Seq(Nat)]
                 /\ timers' \in [Files -> SUBSET Nat] /\ gen' \in [Files -> Nat] /\ reads' \in [Files -> Nat]
      BY <3>1, Reloads
    <3>2. CASE UNCHANGED <<scripts, subs, timers, gen, reads>>
      BY <3>2 DEF TypeOK
    <3> QED
      BY <2>1, <3>1, <3>2
  <2> QED
    BY <2>1, <2>2, <2>3 DEF TypeOK, SeenType
<1>5. ASSUME NEW f \in Files, ReadDone(f) PROVE TypeOK'
  <2>1. /\ UNCHANGED <<content, disabled, lib, phase, seen, gen, pending, orphans, raced, edits, marks, messages>>
        /\ reads' \in [Files -> Nat]
        /\ scripts' \in [Files -> {"none", "false", "loaded"}] /\ subs' \in [Files -> Seq(Nat)] /\ timers' \in [Files -> SUBSET Nat]
    BY <1>5, ReadDoes
  <2> QED
    BY <2>1 DEF TypeOK
<1>6. ASSUME NEW f \in Files, Message(f) PROVE TypeOK'
  <2>1. /\ UNCHANGED <<content, disabled, lib, phase, seen, reads, scripts, subs, timers, gen, orphans, raced, edits, marks>>
        /\ pending' \subseteq Run /\ messages' \in Nat
    BY <1>6, MessageDoes
  <2> QED
    BY <2>1 DEF TypeOK
<1>7. ASSUME NEW c \in pending, Callback(c) PROVE TypeOK'
  <2>1. /\ UNCHANGED <<content, disabled, lib, phase, seen, reads, scripts, gen, edits, marks, messages>>
        /\ pending' = pending \ {c} /\ orphans' \subseteq Run /\ raced' \subseteq AllRaces
        /\ subs' \in [Files -> Seq(Nat)] /\ timers' \in [Files -> SUBSET Nat]
    BY <1>7, CallbackDoes
  <2> QED
    BY <2>1 DEF TypeOK
<1>8. ASSUME NEW f \in Files, NEW v, TimerFires(f, v) PROVE TypeOK'
  BY <1>8 DEF TimerFires, TypeOK, diskVars, countVars
<1>9. ASSUME NEW c \in orphans, OrphanFires(c) PROVE TypeOK'
  BY <1>9 DEF OrphanFires, TypeOK, diskVars, regVars, countVars
<1>10. CASE (\E f \in Files : Edit(f)) \/ (\E x \in Files \cup Dirs : Mark(x)) \/ (\E d \in Dirs : MarkLib(d))
  <2>1. /\ UNCHANGED <<phase, seen, reads, scripts, subs, timers, gen, pending, orphans, messages>>
        /\ raced' \subseteq AllRaces
        /\ content' \in [Files -> Nat] /\ disabled' \subseteq Files \cup Dirs /\ lib' \subseteq Dirs
        /\ edits' \in Nat /\ marks' \in Nat
    BY <1>10, UserDoes
  <2> QED
    BY <2>1 DEF TypeOK
<1> QED
  BY <1>1, <1>2, <1>3, <1>4, <1>5, <1>6, <1>7, <1>8, <1>9, <1>10 DEF Next

\* The state keeps its types, whatever races there are: no read comes back that was not begun.
THEOREM TypeCorrect == Spec => []TypeOK
  BY TInit, TStep, PTL DEF Spec

-----------------------------------------------------------------------------
(* Runs and their owners *)

LEMMA RInit == Init => RInv
  BY TInit DEF Init, RInv, Registered, Absent

\* Files are unloaded and loaded while none is being read.
LEMMA ReloadKeeps ==
  ASSUME RInv, raced \cap {"overlap", "late"} = {}, phase' # "boot", pending' = pending,
         NEW out, NEW in, UnloadThenLoad(out, in), \A f \in Files : reads[f] = 0
  PROVE  Registered'
<1>1. TypeOK /\ pending \subseteq Run
  BY DEF RInv, TypeOK
<1>2. \A f \in Files :
        /\ f \in out => scripts'[f] = "none" /\ subs'[f] = <<>> /\ timers'[f] = {} /\ gen'[f] = gen[f] + 1
        /\ f \notin out => scripts'[f] = scripts[f] /\ subs'[f] = subs[f] /\ timers'[f] = timers[f] /\ gen'[f] = gen[f]
        /\ f \in in /\ scripts'[f] # "loaded" => reads'[f] = reads[f] + 1
        /\ f \notin in \/ scripts'[f] = "loaded" => reads'[f] = reads[f]
  BY <1>1, Reloads
<1>3. ASSUME NEW f \in Files
      PROVE  /\ reads'[f] # 0 => reads'[f] = 1 /\ scripts'[f] # "loaded"
             /\ scripts'[f] # "loaded" => subs'[f] = <<>> /\ timers'[f] = {}
             /\ scripts'[f] = "loaded" => Len(subs'[f]) = 1 /\ subs'[f][1] \notin Broken
  BY <1>2 DEF RInv, Registered
<1>4. ASSUME NEW c \in pending
      PROVE  c.gen <= gen'[c.file] /\ (c.gen = gen'[c.file] => scripts'[c.file] = "loaded")
  <2>1. PICK f \in Files, g \in Nat : f = c.file /\ g = c.gen
    BY <1>1, <1>4 DEF Run
  <2>2. gen[f] \in Nat /\ g <= gen[f] /\ (g = gen[f] => scripts[f] = "loaded")
    BY <2>1, <1>1 DEF RInv, Registered, TypeOK
  <2>3. g <= gen'[f] /\ (g = gen'[f] => scripts'[f] = "loaded")
    BY <1>2, <2>1, <2>2
  <2> QED
    BY <2>1, <2>3
<1> QED
  BY <1>3, <1>4 DEF Registered

LEMMA RStep == RInv /\ [Next]_vars => RInv'
<1> SUFFICES ASSUME RInv, [Next]_vars PROVE RInv'
  OBVIOUS
<1>0. TypeOK /\ TypeOK'
  BY TStep DEF RInv
<1> SUFFICES ASSUME raced' \cap {"overlap", "late"} = {} PROVE Registered'
  BY <1>0 DEF RInv, Registered
<1>1. CASE UNCHANGED vars
  BY <1>1 DEF vars, diskVars, regVars, countVars, RInv, Registered
<1>2. CASE Start
  <2>1. pending' = pending /\ raced' = raced /\ phase = "boot" /\ phase' = "loaded" /\ \E out, in : UnloadThenLoad(out, in)
    BY <1>2 DEF Start
  <2>2. \A f \in Files : reads[f] = 0
    BY <2>1 DEF RInv, Registered
  <2> QED
    BY <2>1, <2>2, ReloadKeeps
<1>3. CASE WatcherReady
  BY <1>3 DEF WatcherReady, RInv, Registered, diskVars, regVars, countVars
<1>4. CASE Watch
  <2>1. /\ phase = "watching" /\ UNCHANGED <<phase, pending>>
        /\ Race(Case("overlap", \E f \in Files : reads[f] > 0))
        /\ UNCHANGED <<scripts, subs, timers, gen, reads>> \/ \E out, in : UnloadThenLoad(out, in)
    BY <1>0, <1>4, EventReloads
  <2>2. raced \subseteq raced' /\ Case("overlap", \E f \in Files : reads[f] > 0) \subseteq raced'
    BY <1>0, <2>1, RaceKept
  <2>3. \A f \in Files : ~(reads[f] > 0)
    BY <2>2 DEF Case
  <2>4. \A f \in Files : reads[f] = 0
    BY <1>0, <2>3 DEF TypeOK
  <2>5. raced \cap {"overlap", "late"} = {}
    BY <2>2
  <2>6. CASE UNCHANGED <<scripts, subs, timers, gen, reads>>
    BY <2>1, <2>5, <2>6 DEF RInv, Registered
  <2>7. ASSUME NEW out, NEW in, UnloadThenLoad(out, in) PROVE Registered'
    BY <2>1, <2>4, <2>5, <2>7, ReloadKeeps
  <2> QED
    BY <2>1, <2>6, <2>7
<1>5. ASSUME NEW f \in Files, ReadDone(f) PROVE Registered'
  <2>1. /\ UNCHANGED <<phase, gen, pending, raced>>
        /\ reads[f] # 0 /\ reads'[f] = reads[f] - 1
        /\ \A g \in Files \ {f} : reads'[g] = reads[g] /\ scripts'[g] = scripts[g] /\ subs'[g] = subs[g] /\ timers'[g] = timers[g]
        /\ IF Exists(f) /\ content[f] \notin Broken
           THEN scripts'[f] = "loaded" /\ subs'[f] = Append(subs[f], content[f])
           ELSE /\ scripts'[f] = (IF Exists(f) THEN "false" ELSE scripts[f])
                /\ subs'[f] = subs[f] /\ timers'[f] = timers[f]
    BY <1>0, <1>5, ReadDoes
  <2>2. reads[f] = 1 /\ scripts[f] # "loaded" /\ subs[f] = <<>> /\ timers[f] = {} /\ phase # "boot"
    BY <2>1 DEF RInv, Registered
  <2>3. /\ reads'[f] = 0
        /\ scripts'[f] # "loaded" => subs'[f] = <<>> /\ timers'[f] = {}
        /\ scripts'[f] = "loaded" => Len(subs'[f]) = 1 /\ subs'[f][1] \notin Broken
    <3>1. content[f] \in Nat /\ subs[f] \in Seq(Nat)
      BY <1>0 DEF TypeOK
    <3>2. PICK q : q = Append(subs[f], content[f]) /\ Len(q) = 1 /\ q[1] = content[f]
      <4>1. subs[f] = <<>>
        BY <2>2
      <4>2. Len(Append(<<>>, content[f])) = 1 /\ Append(<<>>, content[f])[1] = content[f]
        BY <3>1, Appended
      <4> QED
        BY <4>1, <4>2
    <3> QED
      BY <2>1, <2>2, <3>2
  <2>4. ASSUME NEW c \in pending PROVE c.gen <= gen[c.file] /\ (c.gen = gen[c.file] => scripts'[c.file] = "loaded")
    <3>1. c.file \in Files /\ c.gen <= gen[c.file] /\ (c.gen = gen[c.file] => scripts[c.file] = "loaded")
      BY <1>0, <2>1 DEF RInv, Registered, TypeOK, Run
    <3>2. CASE c.file = f
      BY <2>2, <3>1, <3>2
    <3>3. CASE c.file # f
      BY <2>1, <3>1, <3>3
    <3> QED
      BY <3>2, <3>3
  <2> QED
    BY <2>1, <2>2, <2>3, <2>4 DEF RInv, Registered
<1>6. ASSUME NEW f \in Files, Message(f) PROVE Registered'
  <2>1. /\ UNCHANGED <<phase, reads, scripts, subs, timers, gen, raced>>
        /\ pending' \subseteq Run /\ subs[f] # <<>>
        /\ \A c \in pending' : c \in pending \/ (c.file = f /\ c.gen = gen[f])
    BY <1>0, <1>6, MessageDoes
  <2>2. scripts[f] = "loaded" /\ gen[f] \in Nat
    BY <1>0, <2>1 DEF RInv, Registered, TypeOK
  <2> QED
    BY <2>1, <2>2 DEF RInv, Registered
<1>7. ASSUME NEW c \in pending, Callback(c) PROVE Registered'
  <2>1. /\ UNCHANGED <<phase, reads, scripts, gen>>
        /\ pending' = pending \ {c} /\ c \in Run /\ raced \subseteq raced'
        /\ subs' = subs /\ (timers' = timers \/ c.gen = gen[c.file])
        /\ \A f \in Files \ {c.file} : timers'[f] = timers[f]
    BY <1>0, <1>7, CallbackDoes
  <2>2. c.gen = gen[c.file] => scripts[c.file] = "loaded"
    BY <2>1 DEF RInv, Registered
  <2>3. ASSUME NEW f \in Files, scripts[f] # "loaded" PROVE timers'[f] = {}
    BY <2>1, <2>2, <2>3 DEF RInv, Registered
  <2> QED
    BY <2>1, <2>3 DEF RInv, Registered
<1>8. ASSUME NEW f \in Files, NEW v, TimerFires(f, v) PROVE Registered'
  BY <1>0, <1>8 DEF TimerFires, RInv, Registered, TypeOK
<1>9. ASSUME NEW c \in orphans, OrphanFires(c) PROVE Registered'
  BY <1>9 DEF OrphanFires, RInv, Registered, regVars
<1>10. CASE (\E f \in Files : Edit(f)) \/ (\E x \in Files \cup Dirs : Mark(x)) \/ (\E d \in Dirs : MarkLib(d))
  <2>1. /\ UNCHANGED <<phase, reads, scripts, subs, timers, gen, pending>> /\ raced \subseteq raced'
    BY <1>0, <1>10, UserDoes
  <2> QED
    BY <2>1 DEF RInv, Registered
<1> QED
  BY <1>1, <1>2, <1>3, <1>4, <1>5, <1>6, <1>7, <1>8, <1>9, <1>10 DEF Next

\* What is registered belongs to a loaded script, unless an event came during a read or
\* a dead callback subscribed.
THEOREM AllOwned == Spec => []Owned
<1>1. RInv => Owned
  BY DEF RInv, Registered, Owned
<1> QED
  BY <1>1, RInit, RStep, PTL DEF Spec

\* Nor does a script run twice.
THEOREM SingleInstance == Spec => []OneInstance
<1>1. RInv => OneInstance
  <2> SUFFICES ASSUME RInv, raced \cap {"overlap", "late"} = {}, NEW f \in Files PROVE Len(subs[f]) <= 1
    BY DEF OneInstance
  <2>1. scripts[f] = "loaded" => Len(subs[f]) = 1
    BY DEF RInv, Registered
  <2>2. scripts[f] # "loaded" => subs[f] = <<>>
    BY DEF RInv, Registered
  <2>3. CASE scripts[f] = "loaded"
    <3>1. PICK n \in Nat : n = Len(subs[f]) /\ n = 1
      BY <2>1, <2>3
    <3> QED
      BY <3>1
  <2>4. CASE scripts[f] # "loaded"
    <3>1. PICK n \in Nat : n = Len(subs[f]) /\ n = 0
      BY <2>2, <2>4
    <3> QED
      BY <3>1
  <2> QED
    BY <2>3, <2>4
<1> QED
  BY <1>1, RInit, RStep, PTL DEF Spec

-----------------------------------------------------------------------------
(* The watcher catches up *)

LEMMA NoCase == ASSUME NEW k, NEW P \in BOOLEAN, Case(k, P) \subseteq {} PROVE ~P
  BY DEF Case

\* A file about which nothing changes.
LEMMA SameTracked ==
  ASSUME NEW f \in Files, Tracked(f), phase' # "boot" => phase # "boot",
         content'[f] = content[f], seen'.content[f] = seen.content[f],
         f \in disabled' <=> f \in disabled, f \in seen'.disabled <=> f \in seen.disabled,
         DirOf[f] \in disabled' <=> DirOf[f] \in disabled, DirOf[f] \in seen'.disabled <=> DirOf[f] \in seen.disabled,
         DirOf[f] \in lib' <=> DirOf[f] \in lib, DirOf[f] \in seen'.lib <=> DirOf[f] \in seen.lib,
         reads'[f] = reads[f], scripts'[f] = scripts[f], subs'[f] = subs[f]
  PROVE  Tracked(f)'
<1>1. (Live(f)' <=> Live(f)) /\ (Skipped(f)' <=> Skipped(f)) /\ (Eligible(f)' <=> Eligible(f))
  BY DEF Live, Skipped, Eligible, Exists, IsLibFile, IsInDisabledDir
<1> QED
  BY <1>1 DEF Tracked

\* A file that is not live and not eligible has nothing to be tracked.
LEMMA StoppedTracked ==
  ASSUME NEW f \in Files, reads'[f] = 0, scripts'[f] # "loaded", ~Eligible(f)'
  PROVE  Tracked(f)'
  BY DEF Tracked, Live

\* A file that is live by an event that found it eligible but for its version.
LEMMA LiveTracked ==
  ASSUME NEW f \in Files, Live(f)', Exists(f)', ~Skipped(f)',
         scripts'[f] = "loaded" =>
           subs'[f][1] = content'[f] \/ (content'[f] # seen'.content[f] /\ seen'.content[f] # Absent)
  PROVE  Tracked(f)'
  BY DEF Tracked, Skipped, Exists, IsLibFile, IsInDisabledDir

LEMMA FileEventTracks ==
  ASSUME SInv, raced = {}, \A g \in Files : reads[g] = 0, NEW f \in Files, FileEvent(f)
  PROVE  Apart' /\ \A g \in Files : Tracked(g)'
<1>1. TypeOK /\ Apart /\ UNCHANGED <<content, disabled, lib, phase>> /\ \A g \in Files : Tracked(g)
  BY DEF SInv, RInv, Caught, FileEvent, HandlerUnchanged, diskVars
<1>2. /\ seen'.disabled = seen.disabled /\ seen'.lib = seen.lib
      /\ \A g \in Files : seen'.content[g] = IF g = f THEN content[f] ELSE seen.content[g]
  BY <1>1, FileEventSees
<1>3. Apart'
  BY <1>1, <1>2 DEF Apart
<1>4. CASE ~Exists(f) /\ UnloadThenLoad({f} \cap {g \in Files : scripts[g] = "loaded"}, {})
  <2>1. ASSUME NEW g \in Files
        PROVE  /\ reads'[g] = 0
               /\ g # f => scripts'[g] = scripts[g] /\ subs'[g] = subs[g]
               /\ g = f => scripts'[g] # "loaded"
    <3>1. PICK out : UnloadThenLoad(out, {}) /\ (g \in out <=> g = f /\ scripts[g] = "loaded")
      BY <1>4
    <3>2. /\ g \in out => scripts'[g] = "none" /\ subs'[g] = <<>>
          /\ g \notin out => scripts'[g] = scripts[g] /\ subs'[g] = subs[g]
          /\ reads'[g] = reads[g]
      BY <1>1, <3>1, Reloads
    <3> QED
      BY <3>1, <3>2
  <2>2. Tracked(f)'
    BY <1>1, <1>4, <2>1, StoppedTracked DEF Eligible, Exists
  <2>3. ASSUME NEW g \in Files, g # f PROVE Tracked(g)'
    BY <1>1, <1>2, <2>1, <2>3, SameTracked
  <2> QED
    BY <1>3, <2>2, <2>3
<1>5. CASE Exists(f) /\ Skipped(f) /\ UNCHANGED <<regVars, reads>>
  <2>1. UNCHANGED <<reads, scripts, subs>>
    BY <1>5 DEF regVars
  <2>2. Tracked(f)'
    <3>1. (Live(f)' <=> Live(f)) /\ Skipped(f)' /\ ~Eligible(f)' /\ Exists(f)'
      BY <1>1, <1>5, <2>1 DEF Live, Skipped, Eligible, Exists, IsLibFile, IsInDisabledDir
    <3> QED
      BY <1>1, <1>2, <3>1 DEF Tracked, Exists
  <2>3. ASSUME NEW g \in Files, g # f PROVE Tracked(g)'
    BY <1>1, <1>2, <2>1, <2>3, SameTracked
  <2> QED
    BY <1>3, <2>2, <2>3
<1>6. CASE Exists(f) /\ ~Skipped(f) /\ seen.content[f] = Absent /\ UnloadThenLoad({}, {f})
  <2>1. ASSUME NEW g \in Files
        PROVE  /\ scripts'[g] = scripts[g] /\ subs'[g] = subs[g]
               /\ g # f => reads'[g] = reads[g]
               /\ g = f => reads'[g] = 1 \/ scripts'[g] = "loaded"
    BY <1>1, <1>6, Reloads
  <2>2. Live(f)' /\ Exists(f)' /\ ~Skipped(f)'
    BY <1>1, <1>6, <2>1 DEF Live, Exists, Skipped, IsLibFile, IsInDisabledDir
  <2>3. scripts'[f] = "loaded" => subs'[f][1] = content'[f]
    BY <1>1, <1>6, <2>1 DEF Tracked
  <2>4. Tracked(f)'
    BY <2>2, <2>3, LiveTracked
  <2>5. ASSUME NEW g \in Files, g # f PROVE Tracked(g)'
    BY <1>1, <1>2, <2>1, <2>5, SameTracked
  <2> QED
    BY <1>3, <2>4, <2>5
<1>7. CASE Exists(f) /\ ~Skipped(f) /\ UnloadThenLoad({f}, {f})
  <2>1. ASSUME NEW g \in Files
        PROVE  /\ g # f => scripts'[g] = scripts[g] /\ subs'[g] = subs[g] /\ reads'[g] = reads[g]
               /\ g = f => reads'[g] = 1 /\ scripts'[g] = "none"
    BY <1>1, <1>7, Reloads
  <2>2. Live(f)' /\ Exists(f)' /\ ~Skipped(f)'
    BY <1>1, <1>7, <2>1 DEF Live, Exists, Skipped, IsLibFile, IsInDisabledDir
  <2>3. Tracked(f)'
    BY <2>1, <2>2, LiveTracked
  <2>4. ASSUME NEW g \in Files, g # f PROVE Tracked(g)'
    BY <1>1, <1>2, <2>1, <2>4, SameTracked
  <2> QED
    BY <1>3, <2>3, <2>4
<1> QED
  BY <1>4, <1>5, <1>6, <1>7 DEF FileEvent

LEMMA FileMarkerEventTracks ==
  ASSUME SInv, raced = {}, \A g \in Files : reads[g] = 0, NEW f \in Files, FileMarkerEvent(f)
  PROVE  Apart' /\ \A g \in Files : Tracked(g)'
<1>1. /\ TypeOK /\ Apart /\ UNCHANGED <<content, disabled, lib, phase>> /\ \A g \in Files : Tracked(g)
      /\ \A g \in Files : DirOf[g] \in Dirs /\ DirOf[g] # f
  BY ScriptEngineOK DEF SInv, RInv, Caught, FileMarkerEvent, HandlerUnchanged, diskVars
<1>2. /\ seen'.lib = seen.lib /\ seen'.content = seen.content
      /\ seen'.disabled = IF f \in disabled THEN seen.disabled \cup {f} ELSE seen.disabled \ {f}
  BY <1>1, FileMarkerEventSees
<1>3. DirOf[f] \notin disabled /\ DirOf[f] \notin seen.disabled
  <2>1. f \in In(DirOf[f]) /\ ~(f \in disabled <=> f \in seen.disabled)
    BY DEF In, FileMarkerEvent
  <2> QED
    BY <1>1, <2>1 DEF Apart
<1>4. Apart'
  <2>1. ASSUME NEW d \in Dirs
        PROVE  \/ (d \in lib <=> d \in seen.lib) /\ \A g \in In(d) : g \in disabled <=> g \in seen'.disabled
               \/ d \notin disabled /\ d \notin seen'.disabled
    <3>1. d # f
      BY ScriptEngineOK
    <3>2. \A g : (g \in disabled <=> g \in seen.disabled) => (g \in disabled <=> g \in seen'.disabled)
      BY <1>2
    <3> QED
      BY <1>1, <1>2, <3>1, <3>2 DEF Apart
  <2> QED
    BY <1>1, <1>2, <2>1 DEF Apart, In
<1>5. CASE f \in disabled /\ UnloadThenLoad({f} \cap {g \in Files : scripts[g] = "loaded"}, {})
  <2>1. ASSUME NEW g \in Files
        PROVE  /\ reads'[g] = 0
               /\ g # f => scripts'[g] = scripts[g] /\ subs'[g] = subs[g]
               /\ g = f => scripts'[g] # "loaded"
    <3>1. PICK out : UnloadThenLoad(out, {}) /\ (g \in out <=> g = f /\ scripts[g] = "loaded")
      BY <1>5
    <3>2. /\ g \in out => scripts'[g] = "none" /\ subs'[g] = <<>>
          /\ g \notin out => scripts'[g] = scripts[g] /\ subs'[g] = subs[g]
          /\ reads'[g] = reads[g]
      BY <1>1, <3>1, Reloads
    <3> QED
      BY <3>1, <3>2
  <2>2. Tracked(f)'
    BY <1>1, <1>5, <2>1, StoppedTracked DEF Eligible, Skipped
  <2>3. ASSUME NEW g \in Files, g # f PROVE Tracked(g)'
    BY <1>1, <1>2, <2>1, <2>3, SameTracked
  <2> QED
    BY <1>4, <2>2, <2>3
<1>6. CASE f \notin disabled /\ UnloadThenLoad({}, {f} \cap {g \in Files : Exists(g) /\ ~IsLibFile(g)})
  <2>1. ASSUME NEW g \in Files
        PROVE  /\ scripts'[g] = scripts[g] /\ subs'[g] = subs[g]
               /\ g # f => reads'[g] = reads[g]
               /\ g = f /\ Exists(g) /\ ~IsLibFile(g) => reads'[g] = 1 \/ scripts'[g] = "loaded"
               /\ ~(Exists(g) /\ ~IsLibFile(g)) => reads'[g] = reads[g]
    BY <1>1, <1>6, Reloads
  <2>2. ASSUME Exists(f), ~IsLibFile(f) PROVE Tracked(f)'
    <3>1. Live(f)' /\ Exists(f)' /\ ~Skipped(f)'
      BY <1>1, <1>3, <1>6, <2>1, <2>2 DEF Live, Exists, Skipped, IsLibFile, IsInDisabledDir
    <3>2. ~Skipped(f)
      BY <1>3, <1>6, <2>2 DEF Skipped, IsInDisabledDir
    <3>3. scripts'[f] = "loaded" =>
           subs'[f][1] = content'[f] \/ (content'[f] # seen'.content[f] /\ seen'.content[f] # Absent)
      BY <1>1, <1>2, <2>1, <3>2 DEF Tracked
    <3> QED
      BY <3>1, <3>3, LiveTracked
  <2>3. ASSUME ~(Exists(f) /\ ~IsLibFile(f)) PROVE Tracked(f)'
    <3>1. (Live(f)' <=> Live(f)) /\ (Skipped(f)' <=> Skipped(f)) /\ ~Eligible(f)'
      BY <1>1, <2>1, <2>3 DEF Live, Exists, Skipped, Eligible, IsLibFile, IsInDisabledDir
    <3> QED
      BY <1>1, <1>2, <1>3, <1>6, <2>1, <3>1 DEF Tracked
  <2>4. ASSUME NEW g \in Files, g # f PROVE Tracked(g)'
    BY <1>1, <1>2, <2>1, <2>4, SameTracked
  <2> QED
    BY <1>4, <2>2, <2>3, <2>4
<1> QED
  BY <1>5, <1>6 DEF FileMarkerEvent

\* A directory's marker, of either kind: its files stop, or start if they may.
LEMMA MarkerEventTracks ==
  ASSUME SInv, raced = {}, \A g \in Files : reads[g] = 0, NEW d \in Dirs, DirMarkerEvent(d) \/ LibMarkerEvent(d)
  PROVE  Apart' /\ \A g \in Files : Tracked(g)'
<1>1. /\ TypeOK /\ Apart /\ UNCHANGED <<content, disabled, lib, phase>> /\ \A g \in Files : Tracked(g)
      /\ \A g \in Files : DirOf[g] \in Dirs /\ d # g
  BY ScriptEngineOK DEF SInv, RInv, Caught, DirMarkerEvent, LibMarkerEvent, HandlerUnchanged, diskVars
<1>2. /\ seen'.content = seen.content
      /\ \/ /\ seen'.lib = seen.lib /\ ~(d \in disabled <=> d \in seen.disabled)
            /\ seen'.disabled = IF d \in disabled THEN seen.disabled \cup {d} ELSE seen.disabled \ {d}
         \/ /\ seen'.disabled = seen.disabled /\ ~(d \in lib <=> d \in seen.lib)
            /\ seen'.lib = IF d \in lib THEN seen.lib \cup {d} ELSE seen.lib \ {d}
  <2>1. CASE DirMarkerEvent(d)
    <3>1. ~(d \in disabled <=> d \in seen.disabled)
      BY <2>1 DEF DirMarkerEvent
    <3> QED
      BY <1>1, <2>1, <3>1, DirMarkerEventSees
  <2>2. CASE LibMarkerEvent(d)
    <3>1. ~(d \in lib <=> d \in seen.lib)
      BY <2>2 DEF LibMarkerEvent
    <3> QED
      BY <1>1, <2>2, <3>1, LibMarkerEventSees
  <2> QED
    BY <2>1, <2>2
<1>3. Apart'
  <2>1. ASSUME NEW c \in Dirs
        PROVE  \/ (c \in lib <=> c \in seen'.lib) /\ \A g \in In(c) : g \in disabled <=> g \in seen'.disabled
               \/ c \notin disabled /\ c \notin seen'.disabled
    <3>1. \A g \in In(c) : g # d /\ (g \in seen'.disabled <=> g \in seen.disabled)
      BY <1>1, <1>2 DEF In
    <3> QED
      BY <1>1, <1>2, <3>1 DEF Apart
  <2> QED
    BY <1>1, <2>1 DEF Apart, In
<1>4. CASE UnloadThenLoad({f \in In(d) : scripts[f] # "none"}, {}) /\ (d \in disabled \/ d \in lib)
  <2>1. UnloadThenLoad({f \in In(d) : scripts[f] # "none"}, {})
    BY <1>4
  <2>2. ASSUME NEW g \in Files
        PROVE  /\ reads'[g] = 0
               /\ DirOf[g] # d => scripts'[g] = scripts[g] /\ subs'[g] = subs[g]
               /\ DirOf[g] = d => scripts'[g] # "loaded"
    BY <1>1, <2>1, Reloads DEF In
  <2>3. ASSUME NEW g \in Files, DirOf[g] = d PROVE Tracked(g)'
    BY <1>1, <1>4, <2>2, <2>3, StoppedTracked DEF Eligible, Skipped, IsLibFile, IsInDisabledDir
  <2>4. ASSUME NEW g \in Files, DirOf[g] # d PROVE Tracked(g)'
    <3>1. /\ DirOf[g] \in seen'.disabled <=> DirOf[g] \in seen.disabled
          /\ g \in seen'.disabled <=> g \in seen.disabled
          /\ DirOf[g] \in seen'.lib <=> DirOf[g] \in seen.lib
      BY <1>1, <1>2, <2>4
    <3> QED
      BY <1>1, <1>2, <2>2, <2>4, <3>1, SameTracked
  <2> QED
    BY <1>3, <2>3, <2>4
<1>5. CASE /\ UnloadThenLoad({}, Loadable(d)) /\ d \notin disabled
           /\ d \in seen'.disabled => d \in seen.disabled
           /\ d \notin lib \/ d \notin seen.lib => d \notin lib \/ d \notin seen'.lib
  <2>1. UnloadThenLoad({}, Loadable(d))
    BY <1>5
  <2>2. d \notin disabled
    BY <1>5
  <2>3. ASSUME NEW g \in Files
        PROVE  /\ scripts'[g] = scripts[g] /\ subs'[g] = subs[g]
               /\ g \notin Loadable(d) => reads'[g] = reads[g]
               /\ g \in Loadable(d) => reads'[g] = 1 \/ scripts'[g] = "loaded"
    BY <1>1, <2>1, Reloads
  <2>4. ASSUME NEW g \in Files, g \in Loadable(d) PROVE Tracked(g)'
    <3>1. Live(g)' /\ Exists(g)' /\ ~Skipped(g)' /\ ~Skipped(g)
      BY <1>1, <2>2, <2>3, <2>4 DEF Live, Exists, Skipped, Loadable, In, IsLibFile, IsInDisabledDir
    <3>2. scripts'[g] = "loaded" =>
           subs'[g][1] = content'[g] \/ (content'[g] # seen'.content[g] /\ seen'.content[g] # Absent)
      BY <1>1, <1>2, <2>3, <3>1 DEF Tracked
    <3> QED
      BY <3>1, <3>2, LiveTracked
  <2>5. ASSUME NEW g \in Files, g \notin Loadable(d), DirOf[g] = d PROVE Tracked(g)'
    <3>1. (Live(g)' <=> Live(g)) /\ (Skipped(g)' <=> Skipped(g)) /\ ~Eligible(g)'
      BY <1>1, <2>3, <2>5 DEF Live, Exists, Skipped, Eligible, Loadable, In, IsLibFile, IsInDisabledDir
    <3>2. g \in seen'.disabled <=> g \in seen.disabled
      BY <1>1, <1>2
    <3> QED
      BY <1>1, <1>2, <1>5, <2>2, <2>3, <2>5, <3>1, <3>2 DEF Tracked
  <2>6. ASSUME NEW g \in Files, DirOf[g] # d PROVE Tracked(g)'
    <3>1. g \notin Loadable(d)
      BY <2>6 DEF Loadable, In
    <3>2. /\ DirOf[g] \in seen'.disabled <=> DirOf[g] \in seen.disabled
          /\ g \in seen'.disabled <=> g \in seen.disabled
          /\ DirOf[g] \in seen'.lib <=> DirOf[g] \in seen.lib
      BY <1>1, <1>2, <2>6
    <3> QED
      BY <1>1, <1>2, <2>3, <3>1, <3>2, SameTracked
  <2> QED
    BY <1>3, <2>4, <2>5, <2>6
<1>6. CASE DirMarkerEvent(d)
  <2>1. IF d \in disabled THEN UnloadThenLoad({f \in In(d) : scripts[f] # "none"}, {}) ELSE UnloadThenLoad({}, Loadable(d))
    BY <1>6 DEF DirMarkerEvent
  <2>2. /\ seen'.lib = seen.lib
        /\ seen'.disabled = IF d \in disabled THEN seen.disabled \cup {d} ELSE seen.disabled \ {d}
    BY <1>1, <1>6, DirMarkerEventSees
  <2> QED
    BY <1>4, <1>5, <2>1, <2>2
<1>7. CASE LibMarkerEvent(d)
  <2>1. IF d \in lib THEN UnloadThenLoad({f \in In(d) : scripts[f] # "none"}, {}) ELSE UnloadThenLoad({}, Loadable(d))
    BY <1>7 DEF LibMarkerEvent
  <2>2. seen'.disabled = seen.disabled
    BY <1>1, <1>7, LibMarkerEventSees
  <2>3. d \notin disabled
    BY <1>1, <1>7 DEF LibMarkerEvent, Apart
  <2> QED
    BY <1>4, <1>5, <2>1, <2>2, <2>3
<1> QED
  BY <1>6, <1>7

\* Users change what the watcher has seen, one thing at a time.
LEMMA EditTracks ==
  ASSUME SInv, raced = {}, raced' = {}, NEW f \in Files, Edit(f)
  PROVE  Apart' /\ \A g \in Files : Tracked(g)'
<1>1. /\ TypeOK /\ Apart /\ UNCHANGED <<disabled, lib, phase, seen, reads, scripts, subs>> /\ \A g \in Files : Tracked(g)
  BY DEF SInv, RInv, Caught, Edit, regVars
<1>2. content[f] = seen.content[f]
  <2>1. Case("hasty", content[f] # seen.content[f]) \subseteq {}
    BY RaceKept, <1>1 DEF Edit
  <2> QED
    BY <2>1, NoCase
<1>3. /\ content'[f] # content[f]
      /\ \A g \in Files \ {f} : content'[g] = content[g]
  <2>1. PICK v : content' = [content EXCEPT ![f] = v]
    BY DEF Edit
  <2> QED
    BY <1>1, <2>1 DEF Edit, TypeOK
<1>4. Tracked(f)'
  <2>1. Live(f)' <=> Live(f)
    BY <1>1 DEF Live
  <2>2. Live(f) => seen.content[f] # Absent
    BY <1>1, <1>2 DEF Tracked
  <2>3. scripts[f] = "loaded" => Live(f)
    BY DEF Live
  <2> QED
    BY <1>1, <1>2, <1>3, <2>1, <2>2, <2>3 DEF Tracked
<1>5. ASSUME NEW g \in Files, g # f PROVE Tracked(g)'
  BY <1>1, <1>3, <1>5, SameTracked
<1>6. Apart'
  BY <1>1 DEF Apart
<1> QED
  BY <1>4, <1>5, <1>6

LEMMA MarkTracks ==
  ASSUME SInv, raced = {}, raced' = {}, NEW x \in Files \cup Dirs, Mark(x)
  PROVE  Apart' /\ \A g \in Files : Tracked(g)'
<1>1. /\ TypeOK /\ Apart /\ UNCHANGED <<content, lib, phase, seen, reads, scripts, subs>> /\ \A g \in Files : Tracked(g)
      /\ \A g \in Files : DirOf[g] \in Dirs /\ g \notin Dirs
      /\ disabled' = IF x \in disabled THEN disabled \ {x} ELSE disabled \cup {x}
  BY ScriptEngineOK DEF SInv, RInv, Caught, Mark, regVars
<1>2. /\ Case("hasty", (x \in disabled) # (x \in seen.disabled)) \subseteq {}
      /\ (IF x \in Files THEN Nested(DirOf[x]) ELSE Unsettled(x)) \subseteq {}
  BY RaceKept, <1>1 DEF Mark
<1>3. x \in disabled <=> x \in seen.disabled
  BY <1>2, NoCase
<1>4. ASSUME NEW g \in Files, g = x \/ DirOf[g] = x PROVE Tracked(g)'
  <2>1. Live(g) => x \notin disabled
    BY <1>1, <1>3, <1>4 DEF Tracked
  <2>2. x \in disabled \/ Skipped(g)'
    BY <1>1, <1>4 DEF Skipped, IsInDisabledDir
  <2>3. scripts[g] = "loaded" => Live(g)
    BY DEF Live
  <2>4. g \in disabled' /\ g \notin disabled => g = x
    BY <1>1
  <2>5. DirOf[g] \in disabled' /\ DirOf[g] \notin disabled => DirOf[g] = x
    BY <1>1
  <2>6. Live(g) => /\ g \notin disabled' \/ g \notin seen.disabled
                   /\ DirOf[g] \notin disabled' \/ DirOf[g] \notin seen.disabled
                   /\ DirOf[g] \notin lib' \/ DirOf[g] \notin seen.lib
    BY <1>1, <1>3, <2>1, <2>4, <2>5 DEF Tracked
  <2>7. CASE x \in disabled
    <3>1. ~Live(g) /\ (g \in seen.disabled \/ DirOf[g] \in seen.disabled)
      BY <1>3, <1>4, <2>1, <2>7
    <3>2. ~Live(g)' /\ scripts'[g] # "loaded"
      BY <1>1, <2>3, <3>1 DEF Live
    <3> QED
      BY <1>1, <3>1, <3>2 DEF Tracked
  <2>8. CASE x \notin disabled
    <3>1. Skipped(g)' /\ ~Eligible(g)'
      BY <2>2, <2>8 DEF Eligible
    <3>2. Live(g)' <=> Live(g)
      BY <1>1 DEF Live
    <3> QED
      BY <1>1, <2>6, <3>1, <3>2 DEF Tracked
  <2> QED
    BY <2>7, <2>8
<1>5. ASSUME NEW g \in Files, g # x, DirOf[g] # x PROVE Tracked(g)'
  BY <1>1, <1>5, SameTracked
<1>6. Apart'
  <2>1. CASE x \in Files
    <3>1. DirOf[x] \notin disabled /\ DirOf[x] \notin seen.disabled
      BY <1>2, <2>1, NoCase DEF Nested
    <3>2. ASSUME NEW d \in Dirs
          PROVE  \/ (d \in lib <=> d \in seen.lib) /\ \A g \in In(d) : g \in disabled' <=> g \in seen.disabled
                 \/ d \notin disabled' /\ d \notin seen.disabled
      <4>1. d # x
        BY <1>1, <2>1
      <4>2. CASE d = DirOf[x]
        BY <1>1, <3>1, <4>1, <4>2
      <4>3. CASE d # DirOf[x]
        <5>1. \A g \in In(d) : g # x
          BY <4>3 DEF In
        <5> QED
          BY <1>1, <4>1, <5>1 DEF Apart
      <4> QED
        BY <4>2, <4>3
    <3> QED
      BY <1>1, <3>2 DEF Apart, In
  <2>2. CASE x \notin Files
    <3>1. ~((x \in lib) # (x \in seen.lib) \/ In(x) \cap disabled # In(x) \cap seen.disabled)
      BY <1>2, <2>2, NoCase DEF Unsettled
    <3>2. (x \in lib <=> x \in seen.lib) /\ \A g \in In(x) : g \in disabled <=> g \in seen.disabled
      BY <3>1
    <3>3. ASSUME NEW d \in Dirs
          PROVE  \/ (d \in lib <=> d \in seen.lib) /\ \A g \in In(d) : g \in disabled' <=> g \in seen.disabled
                 \/ d \notin disabled' /\ d \notin seen.disabled
      <4>1. \A g \in In(d) : g # x
        BY <2>2 DEF In
      <4> QED
        BY <1>1, <3>2, <4>1 DEF Apart
    <3> QED
      BY <1>1, <3>3 DEF Apart, In
  <2> QED
    BY <2>1, <2>2
<1> QED
  BY <1>4, <1>5, <1>6

LEMMA MarkLibTracks ==
  ASSUME SInv, raced = {}, raced' = {}, NEW d \in Dirs, MarkLib(d)
  PROVE  Apart' /\ \A g \in Files : Tracked(g)'
<1>1. /\ TypeOK /\ Apart /\ UNCHANGED <<content, disabled, phase, seen, reads, scripts, subs>> /\ \A g \in Files : Tracked(g)
      /\ lib' = IF d \in lib THEN lib \ {d} ELSE lib \cup {d}
  BY DEF SInv, RInv, Caught, MarkLib, regVars
<1>2. Case("hasty", (d \in lib) # (d \in seen.lib)) \subseteq {} /\ Nested(d) \subseteq {}
  BY RaceKept, <1>1 DEF MarkLib
<1>3. (d \in lib <=> d \in seen.lib) /\ d \notin disabled /\ d \notin seen.disabled
  BY <1>2, NoCase DEF Nested
<1>4. ASSUME NEW g \in Files, DirOf[g] = d PROVE Tracked(g)'
  <2>1. (Live(g) => d \notin lib) /\ (Live(g)' <=> Live(g)) /\ (scripts[g] = "loaded" => Live(g))
    BY <1>1, <1>3, <1>4 DEF Tracked, Live
  <2>2. CASE d \in lib
    BY <1>1, <1>3, <1>4, <2>1, <2>2 DEF Tracked
  <2>3. CASE d \notin lib
    <3>1. Skipped(g)' /\ ~Eligible(g)'
      BY <1>1, <1>4, <2>3 DEF Skipped, IsLibFile, Eligible
    <3> QED
      BY <1>1, <1>3, <1>4, <2>1, <3>1 DEF Tracked
  <2> QED
    BY <2>2, <2>3
<1>5. ASSUME NEW g \in Files, DirOf[g] # d PROVE Tracked(g)'
  BY <1>1, <1>5, SameTracked
<1>6. Apart'
  <2>1. ASSUME NEW c \in Dirs
        PROVE  \/ (c \in lib' <=> c \in seen.lib) /\ \A g \in In(c) : g \in disabled <=> g \in seen.disabled
               \/ c \notin disabled /\ c \notin seen.disabled
    BY <1>1, <1>3 DEF Apart
  <2> QED
    BY <1>1, <2>1 DEF Apart, In
<1> QED
  BY <1>4, <1>5, <1>6

LEMMA SInit == Init => SInv
<1> SUFFICES ASSUME Init PROVE SInv
  OBVIOUS
<1>1. RInv
  BY RInit
<1>2. Apart
  BY DEF Init, Disk, Apart
<1>3. ASSUME NEW f \in Files PROVE Tracked(f)
  BY DEF Init, Tracked, Live
<1> QED
  BY <1>1, <1>2, <1>3 DEF SInv, Caught, Init

LEMMA SStep == SInv /\ [Next]_vars => SInv'
<1> SUFFICES ASSUME SInv, [Next]_vars PROVE SInv'
  OBVIOUS
<1>0. TypeOK /\ RInv /\ RInv'
  BY RStep DEF SInv, RInv
<1>1. raced \subseteq raced'
  <2>1. CASE UNCHANGED vars
    BY <2>1 DEF vars
  <2>2. CASE Watch
    BY <1>0, <2>2, EventReloads, RaceKept
  <2>3. ASSUME NEW c \in pending, Callback(c) PROVE raced \subseteq raced'
    BY <1>0, <2>3, CallbackDoes
  <2>4. CASE (\E f \in Files : Edit(f)) \/ (\E x \in Files \cup Dirs : Mark(x)) \/ (\E d \in Dirs : MarkLib(d))
    BY <1>0, <2>4, UserDoes
  <2> QED
    BY <2>1, <2>2, <2>3, <2>4 DEF Next, Start, WatcherReady, ReadDone, Message, TimerFires, OrphanFires
<1> SUFFICES ASSUME raced' = {}
             PROVE  (phase' # "watching" => seen' = Disk') /\ Apart' /\ \A f \in Files : Tracked(f)'
  BY <1>0 DEF SInv, Caught
<1>2. raced = {} /\ (phase # "watching" => seen = Disk) /\ Apart /\ \A f \in Files : Tracked(f)
  BY <1>1 DEF SInv, Caught
<1>3. ASSUME UNCHANGED <<content, disabled, lib, phase, seen, reads, scripts, subs>>
      PROVE  (phase' # "watching" => seen' = Disk') /\ Apart' /\ \A f \in Files : Tracked(f)'
  <2>1. Apart' /\ (phase' # "watching" => seen' = Disk')
    BY <1>2, <1>3 DEF Apart, Disk
  <2>2. ASSUME NEW f \in Files PROVE Tracked(f)'
    BY <1>2, <1>3, SameTracked
  <2> QED
    BY <2>1, <2>2
<1>4. CASE Start
  <2>1. /\ UNCHANGED <<content, disabled, lib, seen>> /\ phase = "boot" /\ phase' = "loaded"
        /\ UnloadThenLoad({}, {f \in Files : DirOf[f] \notin disabled /\ f \in Loadable(DirOf[f])})
    BY <1>4 DEF Start, diskVars
  <2>2. ASSUME NEW f \in Files PROVE Tracked(f)'
    <3>1. PICK in : UnloadThenLoad({}, in) /\ (f \in in <=> DirOf[f] \notin disabled /\ f \in Loadable(DirOf[f]))
      BY <2>1
    <3>2. /\ scripts'[f] = scripts[f]
          /\ f \in in /\ scripts'[f] # "loaded" => reads'[f] = reads[f] + 1
          /\ f \notin in \/ scripts'[f] = "loaded" => reads'[f] = reads[f]
      BY <1>0, <3>1, Reloads
    <3>3. scripts[f] = "none" /\ reads[f] = 0
      BY <1>2, <2>1 DEF SInv, RInv, Registered
    <3>4. CASE f \in in
      <4>1. Live(f)' /\ Exists(f)' /\ ~Skipped(f)' /\ scripts'[f] # "loaded"
        BY <2>1, <3>1, <3>2, <3>3, <3>4 DEF Live, Exists, Skipped, Loadable, IsLibFile, IsInDisabledDir
      <4> QED
        BY <4>1, LiveTracked
    <3>5. CASE f \notin in
      <4>1. ~Eligible(f)'
        BY <2>1, <3>1, <3>5 DEF Eligible, Exists, Skipped, Loadable, In, IsLibFile, IsInDisabledDir
      <4> QED
        BY <3>2, <3>3, <3>5, <4>1, StoppedTracked
    <3> QED
      BY <3>4, <3>5
  <2> QED
    BY <1>2, <2>1, <2>2 DEF Apart, Disk
<1>5. CASE WatcherReady
  <2>1. /\ UNCHANGED <<content, disabled, lib, reads, scripts, subs>> /\ phase = "loaded" /\ phase' = "watching" /\ seen' = seen
    BY <1>2, <1>5 DEF WatcherReady, diskVars, regVars, Disk
  <2>2. ASSUME NEW f \in Files PROVE Tracked(f)'
    BY <1>2, <2>1, SameTracked
  <2> QED
    BY <1>2, <2>1, <2>2 DEF Apart
<1>6. CASE Watch
  <2>1. phase' = "watching" /\ Race(Case("overlap", \E f \in Files : reads[f] > 0))
    BY <1>0, <1>6, EventReloads
  <2>2. Case("overlap", \E f \in Files : reads[f] > 0) \subseteq {}
    BY <1>0, <2>1, RaceKept
  <2>3. \A f \in Files : ~(reads[f] > 0)
    BY <2>2, NoCase
  <2>4. \A f \in Files : reads[f] = 0
    BY <1>0, <2>3 DEF TypeOK
  <2>5. Apart' /\ \A g \in Files : Tracked(g)'
    BY <1>2, <1>6, <2>4, FileEventTracks, FileMarkerEventTracks, MarkerEventTracks DEF Watch
  <2> QED
    BY <2>1, <2>5
<1>7. ASSUME NEW f \in Files, ReadDone(f)
      PROVE  (phase' # "watching" => seen' = Disk') /\ Apart' /\ \A g \in Files : Tracked(g)'
  <2>1. /\ UNCHANGED <<content, disabled, lib, phase, seen>>
        /\ reads[f] # 0 /\ reads'[f] = reads[f] - 1
        /\ \A g \in Files \ {f} : reads'[g] = reads[g] /\ scripts'[g] = scripts[g] /\ subs'[g] = subs[g]
        /\ IF Exists(f) /\ content[f] \notin Broken
           THEN scripts'[f] = "loaded" /\ subs'[f] = Append(subs[f], content[f])
           ELSE scripts'[f] = (IF Exists(f) THEN "false" ELSE scripts[f]) /\ subs'[f] = subs[f]
    BY <1>0, <1>7, ReadDoes
  <2>2. reads[f] = 1 /\ scripts[f] # "loaded" /\ subs[f] = <<>> /\ Live(f)
    BY <1>2, <2>1 DEF SInv, RInv, Registered, Live
  <2>3. scripts'[f] = "loaded" => subs'[f][1] = content[f]
    <3>1. content[f] \in Nat /\ subs[f] \in Seq(Nat)
      BY <1>0 DEF TypeOK
    <3>2. PICK q : q = Append(subs[f], content[f]) /\ q[1] = content[f]
      BY <2>2, <3>1, Appended
    <3> QED
      BY <2>1, <2>2, <3>2
  <2>4. Eligible(f)' => Live(f)'
    BY <2>1 DEF Eligible, Exists, Live
  <2>5. Tracked(f)'
    BY <1>2, <2>1, <2>2, <2>3, <2>4 DEF Tracked
  <2>6. ASSUME NEW g \in Files, g # f PROVE Tracked(g)'
    BY <1>2, <2>1, <2>6, SameTracked
  <2> QED
    BY <1>2, <2>1, <2>5, <2>6 DEF Apart, Disk
<1>8. ASSUME NEW c \in pending, Callback(c)
      PROVE  UNCHANGED <<content, disabled, lib, phase, seen, reads, scripts, subs>>
  BY <1>0, <1>8, CallbackDoes
<1>9. CASE (\E f \in Files : Edit(f)) \/ (\E x \in Files \cup Dirs : Mark(x)) \/ (\E d \in Dirs : MarkLib(d))
  <2>1. phase = "watching" /\ phase' = phase
    BY <1>0, <1>9, UserDoes
  <2>2. Apart' /\ \A g \in Files : Tracked(g)'
    BY <1>2, <1>9, EditTracks, MarkTracks, MarkLibTracks
  <2> QED
    BY <2>1, <2>2
<1>10. CASE UNCHANGED vars
  BY <1>3, <1>10 DEF vars, diskVars, regVars
<1>11. ASSUME NEW f \in Files, Message(f) PROVE UNCHANGED <<content, disabled, lib, phase, seen, reads, scripts, subs>>
  BY <1>0, <1>11, MessageDoes
<1>12. ASSUME NEW f \in Files, NEW v, TimerFires(f, v)
       PROVE  UNCHANGED <<content, disabled, lib, phase, seen, reads, scripts, subs>>
  BY <1>12 DEF TimerFires, diskVars
<1>13. ASSUME NEW c \in orphans, OrphanFires(c) PROVE UNCHANGED <<content, disabled, lib, phase, seen, reads, scripts, subs>>
  BY <1>13 DEF OrphanFires, diskVars, regVars
<1> QED
  BY <1>3, <1>4, <1>5, <1>6, <1>7, <1>8, <1>9, <1>10, <1>11, <1>12, <1>13 DEF Next

\* Once the watcher has caught up, every script that may run runs its present version,
\* whatever order files and markers were changed and seen in.
THEOREM LatestRun == Spec => []LatestRuns
<1>1. SInv => LatestRuns
  <2> SUFFICES ASSUME SInv, Quiet, raced = {}, NEW f \in Files, Eligible(f) PROVE RunsLatest(f)
    BY DEF LatestRuns
  <2>1. Tracked(f) /\ seen = Disk /\ phase = "watching" /\ reads[f] = 0
    BY DEF SInv, Caught, Quiet
  <2>2. content[f] = seen.content[f] /\ ~Skipped(f) /\ f \notin seen.disabled /\ DirOf[f] \notin seen.disabled /\ DirOf[f] \notin seen.lib
    BY <2>1 DEF Disk, Eligible, Skipped, IsLibFile, IsInDisabledDir
  <2>3. scripts[f] = "loaded" /\ subs[f][1] = content[f]
    BY <2>1, <2>2 DEF Tracked, Live
  <2>4. Len(subs[f]) = 1 /\ subs[f] \in Seq(Nat)
    BY <2>3 DEF SInv, RInv, Registered, TypeOK
  <2>5. subs[f] # <<>>
    BY <2>4
  <2> QED
    BY <2>3, <2>4, <2>5 DEF RunsLatest
<1> QED
  BY <1>1, SInit, SStep, PTL DEF Spec

\* And a file that is gone, disabled, in a disabled directory, in a library or no longer
\* compiling has nothing left running.
THEOREM IneligibleStopped == Spec => []IneligibleStops
<1>1. SInv => IneligibleStops
  <2> SUFFICES ASSUME SInv, Quiet, raced = {}, NEW f \in Files, ~Eligible(f) PROVE Silent(f)
    BY DEF IneligibleStops
  <2>1. Tracked(f) /\ seen = Disk
    BY DEF SInv, Caught, Quiet
  <2>2. scripts[f] # "loaded"
    <3> SUFFICES ASSUME scripts[f] = "loaded" PROVE FALSE
      OBVIOUS
    <3>1. Live(f)
      BY DEF Live
    <3>2. Exists(f) /\ ~Skipped(f)
      BY <2>1, <3>1 DEF Tracked, Disk, Exists, Skipped, IsLibFile, IsInDisabledDir
    <3>3. subs[f][1] = content[f]
      BY <2>1, <3>2 DEF Tracked, Disk
    <3>4. subs[f][1] \notin Broken
      BY DEF SInv, RInv, Registered
    <3> QED
      BY <3>2, <3>3, <3>4 DEF Eligible
  <2> QED
    BY <2>2 DEF SInv, RInv, Registered, Silent
<1> QED
  BY <1>1, SInit, SStep, PTL DEF Spec

-----------------------------------------------------------------------------
(***************************************************************************)
(* Variables: the state is well typed, no subscriber misses what the store *)
(* holds, and the write that came last wins.                               *)
(***************************************************************************)

Msg == Set \cup Status \cup Clear \cup Sentinel
Entry == State \cup {None}
Seen == Vals \cup {NoVal, Empty}

\* VarTypeOK variable by variable.
Typed ==
    /\ mqttEntry \in Entry /\ varEntry \in Entry /\ retained \in Entry
    /\ connected \in BOOLEAN /\ started \in BOOLEAN
    /\ up \in Seq(Status) /\ down \in Seq(Msg)
    /\ clock \in 0 .. MaxClock
    /\ anySub \in Seen /\ changeSub \in Seen
    /\ lastSet \in Vals \cup {NoVal}
    /\ happened \subseteq AllFaults \cup {"overlap"}
    /\ sets \in Nat /\ faults \in Nat

\* The status messages in s carry the value of e, if there is one.
Carries(s, e) == \A i \in DOMAIN s : s[i].type = "status" => e = None \/ s[i].st.val = e.val

\* As long as nothing but clears happens, the two entries differ only while the
\* daemon has not written the variable, and no echo brings another value.
Calm == happened \subseteq {"clear"}
OneValue ==
    Calm =>
        /\ varEntry = None \/ varEntry.val = mqttEntry.val
        /\ Carries(up, varEntry) /\ Carries(down, varEntry)
        /\ ~connected => varEntry = None /\ up = <<>> /\ down = <<>>

Sees(sub, e) == sub = e.val \/ (e = None /\ sub = Empty)

IInv == Typed /\ OneValue /\ SubscriberCurrent

-----------------------------------------------------------------------------
(* Lemmas *)

\* The kinds of messages to the daemon are told apart by their type.
LEMMA MessageTypes ==
    ASSUME NEW m \in Msg
    PROVE  /\ m.type = "set" => m \in Set /\ m.val \in Vals
           /\ m.type = "status" => m \in Status /\ m.st \in State
           /\ m \in Set => m.type = "set"
           /\ m \in Status => m.type = "status"
           /\ m.type \in {"set", "status", "clear", "sentinel"}
  BY DEF Msg, Set, Status, Clear, Sentinel

LEMMA Values ==
    /\ NoVal # Empty /\ NoVal \notin Vals /\ Empty \notin Vals
    /\ None.val = NoVal /\ None \notin State
    /\ \A st \in State : st.val \in Vals /\ st.ts \in Nat /\ st.lc \in Nat
  BY VarSyncOK DEF NoVal, Empty, None, State

\* A queue with one message more or less is a queue.
LEMMA Queues ==
    ASSUME NEW S, NEW s \in Seq(S), NEW m \in S
    PROVE  /\ Append(s, m) \in Seq(S)
           /\ s # <<>> => Tail(s) \in Seq(S) /\ Head(s) \in S
           /\ DOMAIN Append(s, m) = 1 .. Len(s) + 1 /\ DOMAIN s = 1 .. Len(s) /\ Len(s) \in Nat
           /\ \A i \in 1 .. Len(s) : Append(s, m)[i] = s[i]
           /\ Append(s, m)[Len(s) + 1] = m
           /\ s # <<>> => /\ DOMAIN Tail(s) = 1 .. Len(s) - 1 /\ Head(s) = s[1] /\ 1 \in DOMAIN s
                          /\ \A i \in 1 .. Len(s) - 1 : Tail(s)[i] = s[i + 1]
  OBVIOUS

-----------------------------------------------------------------------------
(* Types *)

LEMMA TypeParts == VarTypeOK <=> Typed
<1>1. ASSUME VarTypeOK PROVE Typed
  BY <1>1 DEF VarTypeOK, Typed, Entry, Seen, Msg
<1>2. ASSUME Typed PROVE VarTypeOK
  BY <1>2 DEF VarTypeOK, Typed, Entry, Seen, Msg
<1> QED
  BY <1>1, <1>2

LEMMA TypeInit == VarInit => VarTypeOK
<1> SUFFICES ASSUME VarInit PROVE Typed
  BY TypeParts
<1>1. 1 \in 0 .. MaxClock
  BY VarSyncOK
<1>2. retained \in Entry /\ mqttEntry \in Entry /\ varEntry \in Entry
  BY DEF VarInit, Entry, State
<1>3. up \in Seq(Status) /\ down \in Seq(Msg)
  BY DEF VarInit
<1> QED
  BY <1>1, <1>2, <1>3 DEF VarInit, Typed, Seen

LEMMA NowType == ASSUME NEW ts \in Now PROVE ts \in Nat /\ ts \in 0 .. MaxClock /\ ts > 0
  BY VarSyncOK DEF Now

\* What a publication of an entry is, and what a script or a client may store.
LEMMA Stored ==
    ASSUME NEW v \in Vals, NEW ts \in Nat, NEW lc \in Nat
    PROVE  /\ [val |-> v, ts |-> ts, lc |-> lc] \in State
           /\ Publication([val |-> v, ts |-> ts, lc |-> lc]) \in Status
  BY DEF State, Publication, Status

LEMMA EntryFields == \A e \in Entry : e.val \in Vals \cup {NoVal} /\ e.ts \in Nat /\ e.lc \in Nat
  BY DEF Entry, State, None

\* The message the daemon takes, and what is left of the queue.
LEMMA Taken ==
    ASSUME Typed, down # <<>>
    PROVE  Head(down) \in Msg /\ Tail(down) \in Seq(Msg)
  BY DEF Typed

LEMMA TypeSet ==
    ASSUME Typed, NEW v \in Vals, SetVariable(v)
    PROVE  Typed'
<1>1. PICK ts \in Now :
        LET st == [val |-> v, ts |-> ts, lc |-> IF v = varEntry.val THEN varEntry.lc ELSE ts]
        IN  /\ clock' = ts
            /\ varEntry' = st /\ mqttEntry' = st
            /\ StateChange(v, varEntry.val)
            /\ up' = IF connected /\ v # varEntry.val THEN Append(up, Publication(st)) ELSE up
  BY DEF SetVariable, SetAndPublish
<1> DEFINE lc == IF v = varEntry.val THEN varEntry.lc ELSE ts
           st == [val |-> v, ts |-> ts, lc |-> lc]
           m == Publication(st)
<1>2. ts \in Nat /\ ts \in 0 .. MaxClock /\ lc \in Nat
  BY NowType, EntryFields DEF Typed
<1>3. st \in State /\ m \in Status
  <2> HIDE DEF lc
  <2> QED BY <1>2, Stored
<1>4. up' = up \/ up' = Append(up, m)
  BY <1>1
<1>5. up' \in Seq(Status)
  <2> HIDE DEF m
  <2> QED BY <1>3, <1>4 DEF Typed
<1>6. varEntry' = st /\ mqttEntry' = st /\ clock' = ts /\ StateChange(v, varEntry.val)
  BY <1>1
<1>7. /\ sets' = sets + 1 /\ lastSet' = v
      /\ happened' = happened \cup Overlap \cup (IF connected /\ started THEN {} ELSE {"offline"})
      /\ UNCHANGED <<connected, started, down, retained, faults>>
  BY DEF SetVariable, SetAndPublish
<1>8. happened' \subseteq AllFaults \cup {"overlap"}
  BY <1>7 DEF Typed, Overlap, AllFaults
<1>9. varEntry' \in Entry /\ mqttEntry' \in Entry /\ anySub' \in Seen /\ changeSub' \in Seen
  <2> HIDE DEF st
  <2> QED BY <1>3, <1>6 DEF Typed, Entry, Seen, StateChange
<1> QED
  BY <1>2, <1>5, <1>6, <1>7, <1>8, <1>9 DEF Typed

LEMMA TypeOnSet ==
    ASSUME Typed, NEW m \in Msg, OnSet(m)
    PROVE  /\ mqttEntry' \in Entry /\ varEntry' \in Entry /\ clock' \in 0 .. MaxClock
           /\ up' \in Seq(Status) /\ anySub' \in Seen /\ changeSub' \in Seen
           /\ lastSet' \in Vals \cup {NoVal}
<1>1. m.val \in Vals /\ lastSet' = m.val /\ StateChange(m.val, mqttEntry.val)
  BY MessageTypes DEF OnSet, StoreSet
<1>2. PICK ts \in Now :
        LET st == [val |-> m.val, ts |-> ts,
                   lc |-> IF m.val = mqttEntry.val THEN mqttEntry.lc ELSE ts]
        IN  /\ clock' = ts
            /\ mqttEntry' = st /\ varEntry' = st
            /\ up' = Append(up, Publication(st))
  BY DEF OnSet, StoreSet
<1> DEFINE lc == IF m.val = mqttEntry.val THEN mqttEntry.lc ELSE ts
           st == [val |-> m.val, ts |-> ts, lc |-> lc]
           p == Publication(st)
<1>3. ts \in Nat /\ ts \in 0 .. MaxClock /\ lc \in Nat
  BY NowType, EntryFields DEF Typed
<1>4. st \in State /\ p \in Status
  <2> HIDE DEF lc
  <2> QED BY <1>1, <1>3, Stored
<1>5. up' = Append(up, p) /\ mqttEntry' = st /\ varEntry' = st /\ clock' = ts
  BY <1>2
<1>6. up' \in Seq(Status)
  <2> HIDE DEF p
  <2> QED BY <1>4, <1>5 DEF Typed
<1>7. mqttEntry' \in Entry /\ varEntry' \in Entry
  <2> HIDE DEF st
  <2> QED BY <1>4, <1>5 DEF Entry
<1>8. anySub' \in Seen /\ changeSub' \in Seen
  BY <1>1 DEF Typed, Seen, StateChange
<1> QED
  BY <1>1, <1>3, <1>5, <1>6, <1>7, <1>8

LEMMA TypeOnStatus ==
    ASSUME Typed, NEW m \in Msg, OnStatus(m)
    PROVE  /\ mqttEntry' \in Entry /\ clock' \in 0 .. MaxClock
           /\ anySub' \in Seen /\ changeSub' \in Seen
<1>1. m.st \in State /\ m.st.val \in Vals /\ m.st.ts \in Nat /\ m.st.lc \in Nat
  BY MessageTypes, Values DEF OnStatus
<1>2. PICK ts \in (IF m.st.ts = 0 THEN Now ELSE {m.st.ts}) :
        LET lc == IF m.st.lc # 0 THEN m.st.lc
                  ELSE IF mqttEntry.val # m.st.val \/ mqttEntry.lc = 0 THEN ts ELSE mqttEntry.lc
        IN  /\ clock' = IF m.st.ts = 0 THEN ts ELSE clock
            /\ IF mqttEntry = [m.st EXCEPT !.ts = ts]
               THEN UNCHANGED <<mqttEntry, anySub, changeSub>>
               ELSE /\ mqttEntry' = [val |-> m.st.val, ts |-> ts, lc |-> lc]
                    /\ StateChange(m.st.val, mqttEntry.val)
  BY DEF OnStatus
<1> DEFINE lc == IF m.st.lc # 0 THEN m.st.lc
                 ELSE IF mqttEntry.val # m.st.val \/ mqttEntry.lc = 0 THEN ts ELSE mqttEntry.lc
<1>3. ts \in Nat /\ clock' \in 0 .. MaxClock
  <2>1. CASE m.st.ts = 0
    BY <1>2, <2>1, NowType
  <2>2. CASE m.st.ts # 0
    BY <1>1, <1>2, <2>2 DEF Typed
  <2> QED BY <2>1, <2>2
<1>4. lc \in Nat
  BY <1>1, <1>3, EntryFields DEF Typed
<1>5. [val |-> m.st.val, ts |-> ts, lc |-> lc] \in Entry
  <2> HIDE DEF lc
  <2> QED BY <1>1, <1>3, <1>4, Stored DEF Entry
<1>6. CASE mqttEntry = [m.st EXCEPT !.ts = ts]
  BY <1>2, <1>3, <1>6 DEF Typed
<1>7. CASE mqttEntry # [m.st EXCEPT !.ts = ts]
  <2>1. mqttEntry' = [val |-> m.st.val, ts |-> ts, lc |-> lc] /\ StateChange(m.st.val, mqttEntry.val)
    BY <1>2, <1>7
  <2> QED
    BY <1>1, <1>3, <1>5, <2>1 DEF Typed, Seen, StateChange
<1> QED
  BY <1>6, <1>7

LEMMA TypeReceive == ASSUME Typed, Receive PROVE Typed'
<1> DEFINE m == Head(down)
<1>1. m \in Msg /\ down' = Tail(down) /\ down' \in Seq(Msg)
  BY Taken DEF Receive
<1>2. /\ happened' \subseteq AllFaults \cup {"overlap"}
      /\ UNCHANGED <<connected, retained, sets, faults>>
  BY DEF Receive, Typed, Overlap
<1> HIDE DEF m
<1>3. CASE OnSet(m) /\ UNCHANGED started
  BY <1>1, <1>2, <1>3, TypeOnSet DEF Typed
<1>4. CASE OnStatus(m) /\ UNCHANGED started
  <2>1. UNCHANGED <<varEntry, up, lastSet>>
    BY <1>4 DEF OnStatus
  <2> QED BY <1>1, <1>2, <1>4, <2>1, TypeOnStatus DEF Typed
<1>5. CASE OnClear(m) /\ UNCHANGED started
  <2>1. /\ mqttEntry' = None /\ varEntry' = None /\ UNCHANGED <<up, lastSet>>
        /\ StateChange(Empty, mqttEntry.val)
        /\ clock' \in Now
    BY <1>5 DEF OnClear
  <2>2. clock' \in 0 .. MaxClock
    BY <2>1, NowType
  <2> QED BY <1>1, <1>2, <1>5, <2>1, <2>2 DEF Typed, Entry, Seen, StateChange
<1>6. CASE OnSentinel(m)
  BY <1>1, <1>2, <1>6 DEF Typed, OnSentinel, storeVars
<1> QED
  BY <1>3, <1>4, <1>5, <1>6 DEF Receive, m

LEMMA FaultType ==
    ASSUME Typed, NEW kind, Fault(kind)
    PROVE  happened' \subseteq AllFaults \cup {"overlap"} /\ faults' \in Nat
  BY VarSyncOK DEF Fault, Typed

LEMMA TypeStep == ASSUME Typed, [VarNext]_varSyncVars PROVE Typed'
<1>1. CASE Connect
  <2>1. retained # None => <<[type |-> "status", st |-> retained]>> \in Seq(Msg)
    BY DEF Typed, Entry, Msg, Status
  <2>2. <<[type |-> "sentinel"]>> \in Seq(Msg)
    BY DEF Msg, Sentinel
  <2>3. down' \in Seq(Msg)
    BY <1>1, <2>1, <2>2, ConcatProperties DEF Connect
  <2> QED
    BY <1>1, <2>3 DEF Typed, Connect, storeVars
<1>2. CASE BrokerStatus
  <2>1. up # <<>> /\ up \in Seq(Status) /\ Head(up) \in Status /\ Tail(up) \in Seq(Status)
    BY <1>2 DEF BrokerStatus, Typed
  <2>2. Head(up) \in Msg /\ Head(up).st \in State
    BY <2>1 DEF Msg, Status
  <2>3. Append(down, Head(up)) \in Seq(Msg)
    BY <2>2 DEF Typed
  <2> QED
    BY <1>2, <2>1, <2>2, <2>3 DEF Typed, BrokerStatus, storeVars, Entry
<1>3. ASSUME NEW v \in Vals, ClientSet(v) PROVE Typed'
  <2>1. [type |-> "set", val |-> v] \in Msg
    BY DEF Msg, Set
  <2>2. Append(down, [type |-> "set", val |-> v]) \in Seq(Msg)
    BY <2>1 DEF Typed
  <2> QED
    BY <1>3, <2>2 DEF Typed, ClientSet, storeVars
<1>4. ASSUME NEW v \in Vals, ClientStatus(v) PROVE Typed'
  <2>1. Plain(v) \in State
    BY DEF Plain, State
  <2>2. [type |-> "status", st |-> Plain(v)] \in Msg
    BY <2>1 DEF Msg, Status
  <2>3. Append(down, [type |-> "status", st |-> Plain(v)]) \in Seq(Msg)
    BY <2>2 DEF Typed
  <2> QED
    BY <1>4, <2>1, <2>3, FaultType DEF Typed, ClientStatus, storeVars, Entry
<1>5. CASE ClientClear
  <2>1. [type |-> "clear"] \in Msg
    BY DEF Msg, Clear
  <2>2. Append(down, [type |-> "clear"]) \in Seq(Msg)
    BY <2>1 DEF Typed
  <2> QED
    BY <1>5, <2>2, FaultType DEF Typed, ClientClear, storeVars, Entry
<1>6. CASE Close
  <2>1. up' \in Seq(Status) /\ down' \in Seq(Msg) /\ connected' \in BOOLEAN
    BY <1>6, \A S : <<>> \in Seq(S) DEF Close
  <2>2. happened' \subseteq AllFaults \cup {"overlap"} /\ faults' \in Nat
    BY <1>6, FaultType DEF Close
  <2> QED
    BY <1>6, <2>1, <2>2 DEF Typed, Close, storeVars
<1>7. CASE Restart
  <2>1. up' \in Seq(Status) /\ down' \in Seq(Msg) /\ connected' \in BOOLEAN /\ started' \in BOOLEAN
    BY <1>7, \A S : <<>> \in Seq(S) DEF Restart
  <2>2. happened' \subseteq AllFaults \cup {"overlap"} /\ faults' \in Nat
    BY <1>7, FaultType DEF Restart
  <2> QED
    BY <1>7, <2>1, <2>2 DEF Typed, Restart, Entry, Seen
<1>8. CASE UNCHANGED varSyncVars
  BY <1>8 DEF Typed, varSyncVars, storeVars, wireVars
<1> QED
  BY <1>1, <1>2, <1>3, <1>4, <1>5, <1>6, <1>7, <1>8, TypeSet, TypeReceive DEF VarNext

\* The variables of VarSync hold what the code puts there, however many values,
\* writes and faults; '' is never stored (the empty-payload branch of the 'message'
\* handler).
THEOREM VarTypesKept == VarSpec => []VarTypeOK
<1>1. VarTypeOK /\ [VarNext]_varSyncVars => VarTypeOK'
  <2> SUFFICES ASSUME VarTypeOK, [VarNext]_varSyncVars PROVE VarTypeOK'
    OBVIOUS
  <2>2. Typed'
    BY TypeParts, TypeStep
  <2>3. Typed' => VarTypeOK'
    BY DEF Typed, VarTypeOK, Entry, Seen, Msg
  <2> QED
    BY <2>2, <2>3
<1> QED
  BY <1>1, TypeInit, PTL DEF VarSpec

-----------------------------------------------------------------------------
(* Subscribers *)

LEMMA CarriesNone == ASSUME NEW s PROVE Carries(s, None)
  BY DEF Carries

LEMMA CarriesAppend ==
    ASSUME NEW S, NEW s \in Seq(S), NEW m \in S, NEW e, Carries(s, e),
           m.type = "status" => e = None \/ m.st.val = e.val
    PROVE  Carries(Append(s, m), e)
<1> SUFFICES ASSUME NEW i \in 1 .. Len(s) + 1, Append(s, m)[i].type = "status"
             PROVE  e = None \/ Append(s, m)[i].st.val = e.val
  BY Queues DEF Carries
<1>1. Len(s) \in Nat /\ DOMAIN s = 1 .. Len(s)
  BY Queues
<1>2. CASE i = Len(s) + 1
  BY <1>2, Queues
<1>3. CASE i \in 1 .. Len(s)
  BY <1>1, <1>3, Queues DEF Carries
<1> QED
  BY <1>1, <1>2, <1>3

LEMMA CarriesTail ==
    ASSUME NEW S, NEW s \in Seq(S), s # <<>>, NEW e, Carries(s, e)
    PROVE  /\ Carries(Tail(s), e)
           /\ Head(s).type = "status" => e = None \/ Head(s).st.val = e.val
<1>1. /\ Len(s) \in Nat /\ DOMAIN s = 1 .. Len(s) /\ Head(s) = s[1] /\ 1 \in DOMAIN s
      /\ DOMAIN Tail(s) = 1 .. Len(s) - 1
      /\ \A i \in 1 .. Len(s) - 1 : Tail(s)[i] = s[i + 1]
  OBVIOUS
<1>2. \A i \in 1 .. Len(s) - 1 : i + 1 \in 1 .. Len(s)
  BY <1>1
<1> QED
  BY <1>1, <1>2 DEF Carries

\* Where no publication is under way, none carries another value.
LEMMA NoOverlap ==
    ASSUME Overlap = {}, NEW e
    PROVE  Carries(up, e) /\ Carries(down, e)
<1>1. \A m \in {up[i] : i \in DOMAIN up} \cup {down[i] : i \in DOMAIN down} : m.type # "status"
  BY DEF Overlap
<1> QED
  BY <1>1 DEF Carries

\* What stateChange does to the subscriptions.
LEMMA Told ==
    ASSUME NEW old \in Entry, NEW new \in Entry, StateChange(new.val, old.val), new.val \in Vals,
           Sees(changeSub, old)
    PROVE  Sees(changeSub', new)
  BY Values DEF StateChange, Sees, Entry, None

LEMMA KeptSet ==
    ASSUME IInv, NEW v \in Vals, SetVariable(v)
    PROVE  OneValue' /\ SubscriberCurrent'
<1>1. PICK ts \in Now :
        LET st == [val |-> v, ts |-> ts, lc |-> IF v = varEntry.val THEN varEntry.lc ELSE ts]
        IN  /\ clock' = ts
            /\ varEntry' = st /\ mqttEntry' = st
            /\ StateChange(v, varEntry.val)
            /\ up' = IF connected /\ v # varEntry.val THEN Append(up, Publication(st)) ELSE up
  BY DEF SetVariable, SetAndPublish
<1> DEFINE st == [val |-> v, ts |-> ts, lc |-> IF v = varEntry.val THEN varEntry.lc ELSE ts]
           m == Publication(st)
<1>2. st.val = v /\ m.type = "status" /\ m.st = st /\ mqttEntry' = st /\ varEntry' = st
  BY <1>1 DEF Publication
<1>3. /\ happened' = happened \cup Overlap \cup (IF connected /\ started THEN {} ELSE {"offline"})
      /\ UNCHANGED <<connected, started, down, retained, faults>>
  BY DEF SetVariable, SetAndPublish
<1>4. up' = up \/ up' = Append(up, m)
  BY <1>1
<1>5. anySub' = v /\ StateChange(v, varEntry.val)
  BY <1>1 DEF StateChange
<1> HIDE DEF st, m
<1>6. ASSUME Calm'
      PROVE  /\ Calm /\ Overlap = {} /\ connected
  BY <1>3, <1>6 DEF Calm, Overlap
<1>7. m \in Status
  <2>1. varEntry.lc \in Nat /\ ts \in Nat
    BY EntryFields, NowType DEF IInv, Typed
  <2>2. (IF v = varEntry.val THEN varEntry.lc ELSE ts) \in Nat
    BY <2>1
  <2> QED
    BY <2>1, <2>2, Stored DEF m, st
<1>8. ASSUME Calm'
      PROVE  /\ Carries(up', varEntry') /\ Carries(down', varEntry')
             /\ varEntry'.val = mqttEntry'.val /\ connected' = TRUE
  <2>1. Carries(up, st) /\ Carries(down, st)
    BY <1>6, <1>8, NoOverlap
  <2>2. Carries(Append(up, m), st)
    BY <1>2, <1>7, <2>1, CarriesAppend DEF IInv, Typed
  <2> QED
    BY <1>2, <1>3, <1>4, <1>6, <1>8, <2>1, <2>2 DEF IInv, Typed
<1>9. ASSUME Calm'
      PROVE  Sees(changeSub', mqttEntry')
  <2>1. Sees(changeSub, mqttEntry) /\ (varEntry = None \/ varEntry.val = mqttEntry.val)
    BY <1>6, <1>9 DEF IInv, OneValue, SubscriberCurrent, Calm, Sees
  <2>2. v # NoVal
    BY Values
  <2>3. CASE v = varEntry.val
    <3>1. v = mqttEntry.val /\ mqttEntry # None
      BY <2>1, <2>2, <2>3, Values
    <3> QED
      BY <1>2, <1>5, <2>1, <2>3, <3>1 DEF Sees, StateChange
  <2>4. CASE v # varEntry.val
    BY <1>2, <1>5, <2>4 DEF Sees, StateChange
  <2> QED
    BY <2>3, <2>4
<1>10. OneValue'
  BY <1>8 DEF OneValue
<1>11. SubscriberCurrent'
  BY <1>2, <1>5, <1>9 DEF SubscriberCurrent, Sees, Calm
<1> QED
  BY <1>10, <1>11

LEMMA KeptReceive ==
    ASSUME IInv, Receive
    PROVE  OneValue' /\ SubscriberCurrent'
<1> DEFINE m == Head(down)
<1>1. /\ down # <<>> /\ m \in Msg /\ down' = Tail(down) /\ down \in Seq(Msg)
      /\ UNCHANGED <<connected, retained, sets, faults>>
      /\ happened' = happened \cup IF m.type = "set" THEN Overlap ELSE {}
  BY Taken DEF Receive, IInv, Typed
<1>2. ASSUME Calm'
      PROVE  /\ Calm /\ connected /\ connected'
             /\ m.type = "set" => Overlap = {}
             /\ varEntry = None \/ varEntry.val = mqttEntry.val
             /\ Carries(up, varEntry) /\ Carries(Tail(down), varEntry)
             /\ m.type = "status" => varEntry = None \/ m.st.val = varEntry.val
             /\ Sees(changeSub, mqttEntry)
  <2>1. Calm /\ (m.type = "set" => Overlap = {})
    BY <1>1, <1>2 DEF Calm, Overlap
  <2>2. /\ connected
        /\ varEntry = None \/ varEntry.val = mqttEntry.val
        /\ Carries(up, varEntry) /\ Carries(down, varEntry)
        /\ Sees(changeSub, mqttEntry)
    BY <1>1, <2>1 DEF IInv, OneValue, SubscriberCurrent, Sees, Calm
  <2> QED
    BY <1>1, <2>1, <2>2, CarriesTail
<1>3. mqttEntry \in Entry /\ varEntry \in Entry /\ up \in Seq(Status) /\ Sees(anySub, mqttEntry)
  BY DEF IInv, Typed, SubscriberCurrent, Sees
<1> HIDE DEF m
<1>4. CASE OnSet(m)
  <2>1. m.type = "set" /\ m.val \in Vals /\ StateChange(m.val, mqttEntry.val)
    BY <1>1, <1>4, MessageTypes DEF OnSet, StoreSet
  <2>2. PICK ts \in Now :
          LET st == [val |-> m.val, ts |-> ts,
                     lc |-> IF m.val = mqttEntry.val THEN mqttEntry.lc ELSE ts]
          IN  mqttEntry' = st /\ varEntry' = st /\ up' = Append(up, Publication(st))
    BY <1>4 DEF OnSet, StoreSet
  <2> DEFINE lc == IF m.val = mqttEntry.val THEN mqttEntry.lc ELSE ts
             st == [val |-> m.val, ts |-> ts, lc |-> lc]
             p == Publication(st)
  <2>3. mqttEntry' = st /\ varEntry' = st /\ up' = Append(up, p) /\ st.val = m.val /\ p.type = "status" /\ p.st = st
    BY <2>2 DEF Publication
  <2>4. lc \in Nat /\ ts \in Nat
    BY <1>3, EntryFields, NowType
  <2>5. p \in Status /\ st \in State
    <3> HIDE DEF lc
    <3> QED BY <2>1, <2>4, Stored
  <2> HIDE DEF p, st
  <2>6. ASSUME Calm'
        PROVE  Carries(up', varEntry') /\ Carries(down', varEntry') /\ connected'
    <3>1. Carries(up, st) /\ Carries(down, st)
      BY <1>2, <2>1, <2>6, NoOverlap
    <3>2. Carries(Append(up, p), st)
      BY <1>3, <2>3, <2>5, <3>1, CarriesAppend
    <3>3. Carries(Tail(down), st)
      BY <1>1, <3>1, CarriesTail
    <3> QED
      BY <1>1, <1>2, <2>3, <2>6, <3>2, <3>3
  <2>7. OneValue'
    BY <2>3, <2>6 DEF OneValue
  <2>8. Sees(anySub', mqttEntry')
    BY <2>1, <2>3 DEF StateChange, Sees
  <2>9. ASSUME Calm' PROVE Sees(changeSub', mqttEntry')
    BY <1>2, <1>3, <2>1, <2>3, <2>5, <2>9, Told DEF Entry
  <2> QED
    BY <2>7, <2>8, <2>9 DEF SubscriberCurrent, Sees, Calm
<1>5. CASE OnStatus(m)
  <2>1. m.type = "status" /\ m.st \in State /\ m.st.val \in Vals /\ UNCHANGED <<varEntry, up, lastSet>>
    BY <1>1, <1>5, MessageTypes, Values DEF OnStatus
  <2>2. PICK ts \in (IF m.st.ts = 0 THEN Now ELSE {m.st.ts}) :
          LET lc == IF m.st.lc # 0 THEN m.st.lc
                    ELSE IF mqttEntry.val # m.st.val \/ mqttEntry.lc = 0 THEN ts ELSE mqttEntry.lc
          IN  IF mqttEntry = [m.st EXCEPT !.ts = ts]
              THEN UNCHANGED <<mqttEntry, anySub, changeSub>>
              ELSE /\ mqttEntry' = [val |-> m.st.val, ts |-> ts, lc |-> lc]
                   /\ StateChange(m.st.val, mqttEntry.val)
    BY <1>5 DEF OnStatus
  <2>3. \/ mqttEntry = [m.st EXCEPT !.ts = ts] /\ UNCHANGED <<mqttEntry, anySub, changeSub>>
        \/ mqttEntry'.val = m.st.val /\ StateChange(m.st.val, mqttEntry.val)
    BY <2>2
  <2>4. mqttEntry' \in Entry
    BY <1>1, <1>5, TypeOnStatus DEF IInv
  <2>5. Sees(anySub', mqttEntry')
    BY <1>3, <2>3 DEF Sees, StateChange
  <2>6. ASSUME Calm' PROVE Sees(changeSub', mqttEntry')
    BY <1>2, <1>3, <2>1, <2>3, <2>4, <2>6, Told
  <2>7. ASSUME Calm' PROVE varEntry' = None \/ varEntry'.val = mqttEntry'.val
    BY <1>2, <2>1, <2>3, <2>7
  <2>8. OneValue'
    BY <1>1, <1>2, <2>1, <2>7 DEF OneValue
  <2> QED
    BY <2>5, <2>6, <2>8 DEF SubscriberCurrent, Sees, Calm
<1>6. CASE OnClear(m)
  <2>1. mqttEntry' = None /\ varEntry' = None /\ StateChange(Empty, mqttEntry.val)
    BY <1>6 DEF OnClear
  <2>2. mqttEntry.val # Empty
    BY <1>3, EntryFields, Values
  <2>3. anySub' = Empty /\ changeSub' = Empty
    BY <2>1, <2>2 DEF StateChange
  <2>4. Carries(up', None) /\ Carries(down', None)
    BY CarriesNone
  <2> QED
    BY <1>2, <2>1, <2>3, <2>4 DEF OneValue, SubscriberCurrent
<1>7. CASE OnSentinel(m)
  BY <1>1, <1>2, <1>3, <1>7 DEF OnSentinel, storeVars, OneValue, SubscriberCurrent, Sees, Calm
<1> QED
  BY <1>4, <1>5, <1>6, <1>7 DEF Receive, m

LEMMA KeptStep ==
    ASSUME IInv, [VarNext]_varSyncVars
    PROVE  OneValue' /\ SubscriberCurrent'
<1>1. down \in Seq(Msg) /\ up \in Seq(Status)
  BY DEF IInv, Typed
<1>2. ASSUME UNCHANGED storeVars, Calm' => Calm
      PROVE  SubscriberCurrent'
  BY <1>2 DEF IInv, SubscriberCurrent, storeVars, Calm
<1>3. CASE Connect
  <2>1. UNCHANGED <<storeVars, up, happened>> /\ connected' = TRUE /\ ~connected
    BY <1>3 DEF Connect
  <2>2. ASSUME Calm' PROVE varEntry' = None
    BY <2>1, <2>2 DEF IInv, OneValue, Calm, storeVars
  <2>3. Carries(up', None) /\ Carries(down', None)
    BY CarriesNone
  <2> QED
    BY <1>2, <2>1, <2>2, <2>3 DEF OneValue, Calm
<1>4. CASE BrokerStatus
  <2>1. /\ UNCHANGED <<storeVars, connected, happened>> /\ up # <<>>
        /\ up' = Tail(up) /\ down' = Append(down, Head(up))
        /\ Head(up) \in Msg
    BY <1>1, <1>4 DEF BrokerStatus, Msg
  <2>2. ASSUME Calm'
        PROVE  /\ Carries(up', varEntry) /\ Carries(down', varEntry) /\ connected
               /\ varEntry = None \/ varEntry.val = mqttEntry.val
    <3>1. /\ Carries(up, varEntry) /\ Carries(down, varEntry) /\ connected
          /\ varEntry = None \/ varEntry.val = mqttEntry.val
      BY <2>1, <2>2 DEF IInv, OneValue, Calm
    <3>2. Carries(Tail(up), varEntry) /\ (Head(up).type = "status" => varEntry = None \/ Head(up).st.val = varEntry.val)
      BY <1>1, <2>1, <3>1, CarriesTail
    <3>3. Carries(Append(down, Head(up)), varEntry)
      BY <1>1, <2>1, <3>1, <3>2, CarriesAppend
    <3> QED
      BY <2>1, <3>1, <3>2, <3>3
  <2> QED
    BY <1>2, <2>1, <2>2 DEF OneValue, Calm, storeVars
<1>5. ASSUME NEW m \in Msg, m.type # "status", UNCHANGED <<storeVars, connected, up>>,
             down' = IF connected THEN Append(down, m) ELSE down,
             Calm' => Calm
      PROVE  OneValue' /\ SubscriberCurrent'
  <2>1. ASSUME Calm'
        PROVE  /\ Carries(up, varEntry) /\ Carries(down', varEntry)
               /\ varEntry = None \/ varEntry.val = mqttEntry.val
               /\ ~connected => varEntry = None /\ up = <<>> /\ down' = <<>>
    <3>1. /\ Carries(up, varEntry) /\ Carries(down, varEntry)
          /\ varEntry = None \/ varEntry.val = mqttEntry.val
          /\ ~connected => varEntry = None /\ up = <<>> /\ down = <<>>
      BY <1>5, <2>1 DEF IInv, OneValue
    <3>2. Carries(Append(down, m), varEntry)
      BY <1>1, <1>5, <3>1, CarriesAppend
    <3> QED
      BY <1>5, <3>1, <3>2
  <2> QED
    BY <1>2, <1>5, <2>1 DEF OneValue, storeVars
<1>6. ASSUME NEW v \in Vals, ClientSet(v)
      PROVE  OneValue' /\ SubscriberCurrent'
  <2> DEFINE m == [type |-> "set", val |-> v]
  <2>1. m \in Msg /\ m.type # "status"
    BY DEF Msg, Set
  <2>2. /\ UNCHANGED <<storeVars, connected, up>>
        /\ down' = IF connected THEN Append(down, m) ELSE down
    BY <1>6 DEF ClientSet
  <2>3. Calm' => Calm
    BY <1>6 DEF ClientSet, Calm
  <2> HIDE DEF m
  <2> QED
    BY <1>5, <2>1, <2>2, <2>3
<1>7. CASE ClientClear
  <2> DEFINE m == [type |-> "clear"]
  <2>1. m \in Msg /\ m.type # "status"
    BY DEF Msg, Clear
  <2>2. /\ UNCHANGED <<storeVars, connected, up>>
        /\ down' = IF connected THEN Append(down, m) ELSE down
    BY <1>7 DEF ClientClear
  <2>3. Calm' => Calm
    BY <1>7 DEF ClientClear, Fault, Calm
  <2> HIDE DEF m
  <2> QED
    BY <1>5, <2>1, <2>2, <2>3
<1>8. ASSUME NEW v \in Vals, ClientStatus(v)
      PROVE  OneValue' /\ SubscriberCurrent'
  <2>1. ~Calm' /\ UNCHANGED storeVars
    BY <1>8 DEF ClientStatus, Fault, Calm
  <2> QED
    BY <1>2, <2>1 DEF OneValue
<1>9. CASE Close
  <2>1. ~Calm' /\ UNCHANGED storeVars
    BY <1>9 DEF Close, Fault, Calm
  <2> QED
    BY <1>2, <2>1 DEF OneValue
<1>10. CASE Restart
  <2>1. ~Calm' /\ mqttEntry' = None /\ anySub' = NoVal
    BY <1>10 DEF Restart, Fault, Calm
  <2> QED
    BY <2>1, Values DEF OneValue, SubscriberCurrent, Calm
<1>11. CASE UNCHANGED varSyncVars
  BY <1>2, <1>11 DEF IInv, OneValue, Calm, varSyncVars, storeVars, wireVars
<1> QED
  BY <1>3, <1>4, <1>6, <1>7, <1>8, <1>9, <1>10, <1>11, KeptSet, KeptReceive DEF VarNext

LEMMA KeptInit == VarInit => IInv
<1> SUFFICES ASSUME VarInit PROVE IInv
  OBVIOUS
<1>1. Typed
  BY TypeInit, TypeParts
<1>2. OneValue
  BY CarriesNone DEF VarInit, OneValue
<1>3. SubscriberCurrent
  BY Values DEF VarInit, SubscriberCurrent
<1> QED
  BY <1>1, <1>2, <1>3 DEF IInv

\* A subscription has seen the value the store holds, and one for changes only as
\* well while nothing but clears happens, however many values, writes and faults
\* (stateChange as setVariable and the 'message' handler call it).
THEOREM SubscriberKept == VarSpec => []SubscriberCurrent
<1>1. IInv /\ [VarNext]_varSyncVars => IInv'
  BY TypeStep, KeptStep DEF IInv
<1>2. IInv => SubscriberCurrent
  BY DEF IInv
<1> QED
  BY <1>1, <1>2, KeptInit, PTL DEF VarSpec

-----------------------------------------------------------------------------
(* The write that came last *)

HasStatus(s) == \E k \in DOMAIN s : s[k].type = "status"

\* The last publication in s carries v.
Ends(s, v) ==
    \A k \in DOMAIN s :
        s[k].type = "status" /\ (\A j \in DOMAIN s : s[j].type = "status" => j <= k)
            => s[k].st.val = v

\* Nothing failed and nobody else published.
Undisturbed == happened \subseteq {"overlap"}

\* The write that came last is what var:: holds; it is the last publication on its
\* way, and what it has reached has its value.
LastOne ==
    Undisturbed =>
        /\ varEntry.val = lastSet
        /\ ~connected => lastSet = NoVal /\ up = <<>> /\ down = <<>>
        /\ \A k \in DOMAIN down : down[k].type # "clear"
        /\ Ends(up, lastSet)
        /\ up = <<>> /\ lastSet # NoVal =>
              /\ retained.val = lastSet
              /\ Ends(down, lastSet)
              /\ HasStatus(down) \/ mqttEntry.val = lastSet

LEMMA EndsAppend ==
    ASSUME NEW S, NEW s \in Seq(S), NEW m \in S, NEW v
    PROVE  /\ m.type = "status" => Ends(Append(s, m), m.st.val) /\ HasStatus(Append(s, m))
           /\ m.type # "status" /\ Ends(s, v) => Ends(Append(s, m), v)
           /\ HasStatus(s) => HasStatus(Append(s, m))
<1> DEFINE n == Len(s)
           t == Append(s, m)
<1>1. /\ DOMAIN t = 1 .. n + 1 /\ DOMAIN s = 1 .. n /\ n \in Nat
      /\ \A i \in 1 .. n : t[i] = s[i]
      /\ t[n + 1] = m
  BY Queues
<1> HIDE DEF n, t
<1>2. HasStatus(s) => HasStatus(t)
  BY <1>1 DEF HasStatus
<1>3. CASE m.type = "status"
  <2>1. n + 1 \in DOMAIN t
    BY <1>1
  <2>2. \A k \in DOMAIN t : k <= n + 1 /\ (k >= n + 1 => k = n + 1)
    BY <1>1
  <2>3. Ends(t, m.st.val)
    <3> SUFFICES ASSUME NEW k \in DOMAIN t, \A j \in DOMAIN t : t[j].type = "status" => j <= k
                 PROVE  t[k].st.val = m.st.val
      BY DEF Ends
    <3>1. n + 1 <= k
      BY <1>1, <1>3, <2>1
    <3>2. k = n + 1
      BY <1>1, <3>1
    <3> QED
      BY <1>1, <3>2
  <2> QED
    BY <1>1, <1>2, <1>3, <2>1, <2>3 DEF HasStatus, t
<1>4. CASE m.type # "status"
  <2>1. Ends(s, v) => Ends(t, v)
    BY <1>1, <1>4 DEF Ends
  <2> QED
    BY <1>2, <1>4, <2>1 DEF t
<1> QED
  BY <1>3, <1>4

LEMMA EndsTail ==
    ASSUME NEW S, NEW s \in Seq(S), s # <<>>, NEW v, Ends(s, v)
    PROVE  /\ Ends(Tail(s), v)
           /\ HasStatus(Tail(s)) \/ Head(s).type # "status" \/ Head(s).st.val = v
           /\ HasStatus(s) => HasStatus(Tail(s)) \/ Head(s).type = "status"
<1> DEFINE n == Len(s)
           t == Tail(s)
<1>1. /\ n \in Nat /\ DOMAIN s = 1 .. n /\ Head(s) = s[1] /\ 1 \in DOMAIN s
      /\ DOMAIN t = 1 .. n - 1
      /\ \A i \in 1 .. n - 1 : t[i] = s[i + 1]
  OBVIOUS
<1> HIDE DEF n, t
<1>2. \A j \in DOMAIN s : j = 1 \/ (j - 1 \in DOMAIN t /\ t[j - 1] = s[j])
  BY <1>1
<1>3. \A j \in DOMAIN t : j + 1 \in DOMAIN s /\ t[j] = s[j + 1]
  BY <1>1
<1>4. Ends(t, v)
  <2> SUFFICES ASSUME NEW k \in DOMAIN t, t[k].type = "status",
                      \A j \in DOMAIN t : t[j].type = "status" => j <= k
               PROVE  t[k].st.val = v
    BY DEF Ends
  <2>1. ASSUME NEW j \in DOMAIN s, s[j].type = "status" PROVE j <= k + 1
    <3>1. CASE j = 1
      BY <1>1, <3>1
    <3>2. CASE j # 1
      <4>1. j - 1 \in DOMAIN t /\ t[j - 1].type = "status"
        BY <1>2, <2>1, <3>2
      <4>2. j - 1 <= k
        BY <4>1
      <4> QED
        BY <1>1, <4>2
    <3> QED
      BY <3>1, <3>2
  <2> QED
    BY <1>3, <2>1 DEF Ends
<1>5. HasStatus(t) \/ Head(s).type # "status" \/ Head(s).st.val = v
  <2> SUFFICES ASSUME ~HasStatus(t), s[1].type = "status" PROVE s[1].st.val = v
    BY <1>1
  <2>1. \A j \in DOMAIN s : s[j].type = "status" => j <= 1
    BY <1>1, <1>2 DEF HasStatus
  <2> QED
    BY <1>1, <2>1 DEF Ends
<1>6. HasStatus(s) => HasStatus(t) \/ Head(s).type = "status"
  BY <1>1, <1>2 DEF HasStatus
<1> QED
  BY <1>4, <1>5, <1>6 DEF t

LEMMA EndsEmpty == \A v : Ends(<<>>, v) /\ ~HasStatus(<<>>)
  BY DEF Ends, HasStatus

\* A script writes: what differs from the last write is published.
LEMMA LastSetVariable ==
    ASSUME Typed, LastOne, NEW v \in Vals, SetVariable(v)
    PROVE  LastOne'
<1> SUFFICES ASSUME Undisturbed'
             PROVE  /\ varEntry'.val = lastSet'
                    /\ connected' /\ down' = down /\ lastSet' # NoVal
                    /\ Undisturbed
                    /\ Ends(up', lastSet')
                    /\ up' = <<>> =>
                          /\ retained'.val = lastSet'
                          /\ Ends(down', lastSet')
                          /\ HasStatus(down') \/ mqttEntry'.val = lastSet'
  BY DEF LastOne
<1>1. PICK ts \in Now :
        LET st == [val |-> v, ts |-> ts, lc |-> IF v = varEntry.val THEN varEntry.lc ELSE ts]
        IN  /\ varEntry' = st /\ mqttEntry' = st
            /\ up' = IF connected /\ v # varEntry.val THEN Append(up, Publication(st)) ELSE up
  BY DEF SetVariable, SetAndPublish
<1> DEFINE st == [val |-> v, ts |-> ts, lc |-> IF v = varEntry.val THEN varEntry.lc ELSE ts]
           m == Publication(st)
<1>2. /\ st.val = v /\ m.type = "status" /\ m.st = st /\ mqttEntry' = st /\ varEntry' = st
      /\ up' = IF connected /\ v # varEntry.val THEN Append(up, m) ELSE up
  BY <1>1 DEF Publication
<1>3. /\ happened' = happened \cup Overlap \cup (IF connected /\ started THEN {} ELSE {"offline"})
      /\ UNCHANGED <<connected, down, retained>> /\ lastSet' = v
  BY DEF SetVariable, SetAndPublish
<1>4. m \in Status
  <2>1. varEntry.lc \in Nat /\ ts \in Nat
    BY EntryFields, NowType DEF Typed
  <2>2. (IF v = varEntry.val THEN varEntry.lc ELSE ts) \in Nat
    BY <2>1
  <2> QED
    BY <2>1, <2>2, Stored
<1> HIDE DEF st, m
<1>5. Undisturbed /\ connected /\ v # NoVal
  BY <1>3, Values DEF Undisturbed
<1>6. CASE v # varEntry.val
  <2>1. up' = Append(up, m) /\ up \in Seq(Status)
    BY <1>2, <1>5, <1>6 DEF Typed
  <2>2. Ends(up', v) /\ HasStatus(up')
    BY <1>2, <1>4, <2>1, EndsAppend
  <2>3. up' # <<>>
    BY <2>2, EndsEmpty
  <2> QED
    BY <1>2, <1>3, <1>5, <2>2, <2>3
<1>7. CASE v = varEntry.val
  <2>1. lastSet = v /\ up' = up
    BY <1>2, <1>5, <1>7 DEF LastOne
  <2> QED
    BY <1>2, <1>3, <1>5, <2>1 DEF LastOne
<1> QED
  BY <1>6, <1>7

\* The daemon takes a message: a write of a client is published whatever it is, a
\* publication overwrites the compatibility entry.
LEMMA LastReceive ==
    ASSUME Typed, LastOne, Receive
    PROVE  LastOne'
<1> DEFINE m == Head(down)
<1>1. m \in Msg /\ down' = Tail(down) /\ down \in Seq(Msg) /\ down # <<>>
  BY Taken DEF Receive, Typed
<1>2. UNCHANGED <<connected, retained>> /\ (Undisturbed' => Undisturbed)
  BY DEF Receive, Undisturbed
<1> HIDE DEF m
<1> SUFFICES ASSUME Undisturbed', Undisturbed PROVE LastOne'
  BY <1>2 DEF LastOne
<1>3. connected /\ m.type # "clear" /\ \A k \in DOMAIN down' : down'[k].type # "clear"
  <2>1. /\ m = down[1] /\ 1 \in DOMAIN down
        /\ \A k \in DOMAIN Tail(down) : k + 1 \in DOMAIN down /\ Tail(down)[k] = down[k + 1]
    BY <1>1, Queues DEF m
  <2> QED
    BY <1>1, <2>1 DEF LastOne
<1>4. CASE OnSet(m) /\ UNCHANGED started
  <2>1. m.type = "set" /\ lastSet' = m.val /\ m.val \in Vals
    BY <1>1, <1>4, MessageTypes DEF OnSet, StoreSet
  <2>2. PICK ts \in Now :
          LET st == [val |-> m.val, ts |-> ts,
                     lc |-> IF m.val = mqttEntry.val THEN mqttEntry.lc ELSE ts]
          IN  varEntry' = st /\ up' = Append(up, Publication(st))
    BY <1>4 DEF OnSet, StoreSet
  <2> DEFINE lc == IF m.val = mqttEntry.val THEN mqttEntry.lc ELSE ts
             st == [val |-> m.val, ts |-> ts, lc |-> lc]
             p == Publication(st)
  <2>3. st.val = m.val /\ p.type = "status" /\ p.st = st /\ varEntry' = st /\ up' = Append(up, p)
    BY <2>2 DEF Publication
  <2>4. p \in Status
    <3>1. lc \in Nat /\ ts \in Nat
      BY EntryFields, NowType DEF Typed
    <3> HIDE DEF lc
    <3> QED
      BY <2>1, <3>1, Stored
  <2> HIDE DEF st, p
  <2>5. Ends(up', m.val) /\ HasStatus(up')
    BY <2>3, <2>4, EndsAppend DEF Typed
  <2>6. up' # <<>>
    BY <2>5, EndsEmpty
  <2> QED
    BY <1>2, <1>3, <2>1, <2>3, <2>5, <2>6 DEF LastOne
<1>5. CASE OnStatus(m) /\ UNCHANGED started
  <2>1. m.type = "status" /\ UNCHANGED <<varEntry, up, lastSet>>
    BY <1>5 DEF OnStatus
  <2>2. mqttEntry'.val = m.st.val
    <3>1. m.st \in State
      BY <1>1, <2>1, MessageTypes
    <3>2. PICK st \in State : st = m.st
      BY <3>1
    <3>3. PICK ts : \/ mqttEntry' = [st EXCEPT !.ts = ts]
                    \/ \E lc : mqttEntry' = [val |-> st.val, ts |-> ts, lc |-> lc]
      BY <1>5, <3>2 DEF OnStatus
    <3>4. [st EXCEPT !.ts = ts].val = st.val
      BY DEF State
    <3>5. CASE mqttEntry' = [st EXCEPT !.ts = ts]
      BY <3>2, <3>4, <3>5
    <3>6. CASE \E lc : mqttEntry' = [val |-> st.val, ts |-> ts, lc |-> lc]
      BY <3>2, <3>6
    <3> QED
      BY <3>3, <3>5, <3>6
  <2>3. up = <<>> /\ lastSet # NoVal => Ends(down', lastSet) /\ (HasStatus(down') \/ m.st.val = lastSet)
    BY <1>1, <2>1, EndsTail DEF LastOne, m
  <2> QED
    BY <1>2, <1>3, <2>1, <2>2, <2>3 DEF LastOne
<1>6. CASE OnSentinel(m)
  <2>1. m.type = "sentinel" /\ UNCHANGED <<mqttEntry, varEntry, up, lastSet>>
    BY <1>6 DEF OnSentinel, storeVars
  <2>2. up = <<>> /\ lastSet # NoVal =>
          Ends(down', lastSet) /\ (HasStatus(down) => HasStatus(down'))
    BY <1>1, <2>1, EndsTail DEF LastOne, m
  <2> QED
    BY <1>2, <1>3, <2>1, <2>2 DEF LastOne
<1>7. ~OnClear(m)
  BY <1>3 DEF OnClear
<1> QED
  BY <1>4, <1>5, <1>6, <1>7 DEF Receive, m

LEMMA LastBroker ==
    ASSUME Typed, LastOne, BrokerStatus
    PROVE  LastOne'
<1> DEFINE m == Head(up)
<1>1. /\ up # <<>> /\ up \in Seq(Status) /\ m \in Status /\ m \in Msg /\ m.type = "status"
      /\ up' = Tail(up) /\ retained' = m.st /\ down' = Append(down, m) /\ down \in Seq(Msg)
      /\ UNCHANGED <<storeVars, connected, lastSet, happened>>
  <2>1. up # <<>> /\ up \in Seq(Status) /\ m \in Status
    BY DEF BrokerStatus, Typed
  <2> QED
    BY <2>1 DEF BrokerStatus, Typed, Status, Msg
<1> SUFFICES ASSUME Undisturbed PROVE LastOne'
  BY <1>1 DEF LastOne, Undisturbed
<1>2. Ends(up', lastSet) /\ (HasStatus(up') \/ m.st.val = lastSet)
  BY <1>1, EndsTail DEF LastOne
<1> HIDE DEF m
<1>3. Ends(down', m.st.val) /\ HasStatus(down')
  BY <1>1, EndsAppend
<1>4. up' = <<>> => m.st.val = lastSet
  BY <1>2, EndsEmpty
<1>5. \A k \in DOMAIN down' : down'[k].type # "clear"
  <2>1. /\ DOMAIN down' = 1 .. Len(down) + 1 /\ DOMAIN down = 1 .. Len(down) /\ Len(down) \in Nat
        /\ \A i \in 1 .. Len(down) : down'[i] = down[i]
        /\ down'[Len(down) + 1] = m
    BY <1>1, Queues
  <2> QED
    BY <1>1, <2>1 DEF LastOne
<1> QED
  BY <1>1, <1>2, <1>3, <1>4, <1>5 DEF LastOne, storeVars

LEMMA LastStep == ASSUME Typed, LastOne, [VarNext]_varSyncVars PROVE LastOne'
<1>1. ASSUME UNCHANGED <<mqttEntry, varEntry, connected, up, down, retained, lastSet, happened>>
      PROVE  LastOne'
  BY <1>1 DEF LastOne, Undisturbed
<1>2. ASSUME NEW kind \in AllFaults, Fault(kind)
      PROVE  LastOne'
  <2>1. ~Undisturbed'
    BY <1>2 DEF Fault, Undisturbed, AllFaults
  <2> QED
    BY <2>1 DEF LastOne
<1>3. CASE Connect
  <2> SUFFICES ASSUME Undisturbed PROVE LastOne'
    BY <1>3 DEF Connect, LastOne, Undisturbed
  <2>1. /\ connected' /\ lastSet' = NoVal /\ up' = <<>> /\ UNCHANGED <<storeVars, lastSet>>
    BY <1>3 DEF Connect, LastOne
  <2>2. \A k \in DOMAIN down' : down'[k].type # "clear"
    <3> DEFINE M == Status \cup Sentinel
    <3>1. retained # None => <<[type |-> "status", st |-> retained]>> \in Seq(M)
      BY DEF Typed, Entry, Status
    <3>2. <<[type |-> "sentinel"]>> \in Seq(M)
      BY DEF Sentinel
    <3> HIDE DEF M
    <3>3. down' \in Seq(M)
      BY <1>3, <3>1, <3>2, ConcatProperties DEF Connect
    <3>4. \A k \in DOMAIN down' : down'[k] \in M
      BY <3>3
    <3> QED
      BY <3>4 DEF M, Status, Sentinel
  <2>3. varEntry'.val = lastSet'
    BY <1>3, <2>1 DEF Connect, LastOne, storeVars
  <2> QED
    BY <2>1, <2>2, <2>3, EndsEmpty DEF LastOne
<1>4. ASSUME NEW v \in Vals, ClientSet(v) PROVE LastOne'
  <2> DEFINE m == [type |-> "set", val |-> v]
  <2>1. m \in Msg /\ m.type = "set" /\ down' = Append(down, m) /\ down \in Seq(Msg)
        /\ UNCHANGED <<storeVars, connected, up, retained, lastSet, happened>> /\ connected
    BY <1>4 DEF ClientSet, Msg, Set, Typed
  <2> HIDE DEF m
  <2>2. (Ends(down, lastSet) => Ends(down', lastSet)) /\ (HasStatus(down) => HasStatus(down'))
    BY <2>1, EndsAppend
  <2>3. Undisturbed => \A k \in DOMAIN down' : down'[k].type # "clear"
    <3>1. /\ DOMAIN down' = 1 .. Len(down) + 1 /\ DOMAIN down = 1 .. Len(down) /\ Len(down) \in Nat
          /\ \A i \in 1 .. Len(down) : down'[i] = down[i]
          /\ down'[Len(down) + 1] = m
      BY <2>1, Queues
    <3> QED
      BY <2>1, <3>1 DEF LastOne
  <2> QED
    BY <2>1, <2>2, <2>3 DEF LastOne, storeVars, Undisturbed
<1>5. CASE UNCHANGED varSyncVars
  BY <1>1, <1>5 DEF varSyncVars, storeVars, wireVars
<1>6. CASE (\E v \in Vals : ClientStatus(v)) \/ ClientClear \/ Close \/ Restart
  BY <1>2, <1>6 DEF ClientStatus, ClientClear, Close, Restart, AllFaults
<1> QED
  BY <1>3, <1>4, <1>5, <1>6, LastSetVariable, LastReceive, LastBroker DEF VarNext

LEMMA LastInit == VarInit => LastOne
  BY EndsEmpty DEF VarInit, LastOne, None

\* Once its publications have come back, the store's two entries and the broker all
\* hold the value written last, however many writes of scripts and clients overlap
\* with their echoes (setVariable and the 'message' handler).
THEOREM LastSetKept == VarSpec => []LastSetWins
<1>1. VarInit => Typed /\ LastOne
  BY TypeInit, TypeParts, LastInit
<1>2. Typed /\ LastOne /\ [VarNext]_varSyncVars => (Typed /\ LastOne)'
  BY TypeStep, LastStep
<1>3. LastOne => LastSetWins
  BY EndsEmpty DEF LastOne, LastSetWins, VarQuiet, Undisturbed
<1> QED
  BY <1>1, <1>2, <1>3, PTL DEF VarSpec
=============================================================================
