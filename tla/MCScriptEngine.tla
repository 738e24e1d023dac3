--------------------------- MODULE MCScriptEngine ---------------------------
(* ScriptEngine with one or two files in one directory, for TLC. *)
EXTENDS ScriptEngine
CONSTANTS f1, f2, d1
MCFiles == {f1, f2}
MCDirs == {d1}
MCDirOf == [f \in Files |-> d1]
=============================================================================
