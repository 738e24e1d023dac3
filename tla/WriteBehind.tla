---------------------------- MODULE WriteBehind ----------------------------
(***************************************************************************)
(* What a debounced JSON file promises, whoever keeps it: the file always  *)
(* holds one complete past state of the memory, a change arms a save, a    *)
(* save copies the whole memory or leaves the old file in place, and a     *)
(* restart continues from the file.  Written for sheDB's docs.json         *)
(* (tmp + rename after 250 ms), which is shown to implement it.            *)
(***************************************************************************)
CONSTANT State          \* every value the memory can take
CONSTANT Lossless(_, _) \* Lossless(m, d): d holds all of m that m must save

VARIABLES
    mem,    \* the state in memory
    disk,   \* the file
    armed,  \* a save is pending
    failed  \* the last save failed, and nothing has been saved since

vars == <<mem, disk, armed, failed>>

TypeOK ==
    /\ mem \in State
    /\ disk \in State
    /\ armed \in BOOLEAN
    /\ failed \in BOOLEAN

Init ==
    /\ mem \in State
    /\ disk = mem
    /\ armed = FALSE
    /\ failed = FALSE

\* A change the store must not lose arms the save.
Change ==
    /\ mem' \in State
    /\ armed'
    /\ UNCHANGED <<disk, failed>>

\* A change that leaves the saved part alone may leave the timer alone.
Touch ==
    /\ mem' \in State
    /\ Lossless(mem, disk) => Lossless(mem', disk)
    /\ UNCHANGED <<disk, armed, failed>>

Save ==
    /\ armed
    /\ disk' = mem
    /\ armed' = FALSE
    /\ failed' = FALSE
    /\ UNCHANGED mem

SaveFails ==
    /\ armed
    /\ armed' = FALSE
    /\ failed' = TRUE
    /\ UNCHANGED <<mem, disk>>

Restart ==
    /\ mem' = disk
    /\ armed' = FALSE
    /\ failed' = FALSE
    /\ UNCHANGED disk

Next == Change \/ Touch \/ Save \/ SaveFails \/ Restart

Spec == Init /\ [][Next]_vars

\* Nothing is missing from the file unless a save is pending or has failed.
NothingLost == Lossless(mem, disk) \/ armed \/ failed
=============================================================================
