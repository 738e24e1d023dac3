------------------------------ MODULE MCSheDB ------------------------------
(* Values of SheDB's constants for TLC. *)
EXTENDS SheDB, TLC

CONSTANTS d1, d2, v1, v2, p, x, y

MCIds == {d1, d2}
MCOneId == {d1}
MCViews == {v1, v2}
MCOneView == {v1}
MCSymmetry == Permutations(MCViews)
MCProps == {p}
MCVals == {x}

Bodies(vals) == [MCProps -> vals]
MCPayloads == Bodies({x, NoVal})
Partial == [q \in MCProps |-> NoVal]
MCPartials == Bodies({x}) \cup {Partial}
NoListener == [i \in Ids |-> NoDoc]

AllOf == [filter |-> MCIds, reads |-> {}, kind |-> "array", pub |-> FALSE]
First == [filter |-> {d1}, reads |-> {}, kind |-> "array", pub |-> TRUE]
FirstQuiet == [First EXCEPT !.pub = FALSE]
Throws == [First EXCEPT !.kind = "throws"]
Broken == [First EXCEPT !.kind = "syntax"]

PureDefs == {AllOf, FirstQuiet, First, Broken}
FewDefs == {First, Throws, Broken}

\* Sound with MaxRestarts = 0: only Restart reads the files and their timers.
NoFiles ==
    <<docs, rev, queries, views, workerVars, chanVars, published, boundVars>>
=============================================================================
