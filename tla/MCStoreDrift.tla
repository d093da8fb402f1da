---------------------------- MODULE MCStoreDrift ----------------------------
(***************************************************************************)
(* The store of one workspace whose database is in tickets/_logs, with the *)
(* lock paths that the code computes for a hook run in the workspace and   *)
(* for a command run there without options.  Both work on the same log and *)
(* the same projection.                                                    *)
(***************************************************************************)
EXTENDS Store
CONSTANTS NoPlace, h1, w1, c1

workspace == 1
Paths == INSTANCE PathRules WITH
  Depth <- 1, MaxAscend <- 12, Sentinels <- {1},
  dbs <- {[dir |-> 1, layout |-> "tickets"]}, envRoot <- NoPlace

HookPaths == Paths!ResolvePaths(Paths!ResolveStorageTarget(workspace))
CommandPaths == Paths!ResolvePaths(Paths!NoOptions(workspace))
OneDatabase == /\ HookPaths.events = CommandPaths.events
               /\ HookPaths.projection = CommandPaths.projection

AllProcs == {h1, w1}
TwoLocks == {HookPaths.lock, CommandPaths.lock}
ComputedLocks == (h1 :> HookPaths.lock) @@ (w1 :> CommandPaths.lock)

\* The database is there: a first session has been recorded.  (Commands look
\* for the projection file.)
first == [id |-> 1, op |-> "session_seen", sid |-> 1, csid |-> c1]
DriftInit ==
  /\ OneDatabase
  /\ LockInit
  /\ log = <<first>> /\ cacheExists = TRUE /\ cache = <<first>>
  /\ pc = [p \in Procs |-> "idle"]
  /\ evt = [p \in Procs |-> NoEvent]
  /\ snap = [p \in Procs |-> <<>>]
  /\ nextId = 2
  /\ acked = {1}
DriftSpec == DriftInit /\ [][Next]_vars
=============================================================================
