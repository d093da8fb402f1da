------------------------------- MODULE MCStore -------------------------------
(***************************************************************************)
(* Small instances of Store in which every process resolves to the same    *)
(* lock file, as callers that pass the same storage options do.            *)
(***************************************************************************)
EXTENDS Store
CONSTANT ThePath
AllProcs == Hooks \union Writers \union Rebuilders
ThePathOnly == {ThePath}
OneLock == [p \in AllProcs |-> ThePath]
=============================================================================
