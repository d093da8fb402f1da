--------------------------- MODULE MCStoragePaths ---------------------------
(***************************************************************************)
(* Four nested directories, an ascent of three, so that a command may be   *)
(* run too deep to find the workspace; the worktree's root is the third.   *)
(* A unit of time is about 200 ms.                                         *)
(***************************************************************************)
EXTENDS HookProcess
SentinelAtRoot == {3}
ShimLimits == [session_start |-> 10, prompt |-> 5]
ProbeBudgets == [session_start |-> 7, prompt |-> 2]
NoneOrOne ==
  {{}, {At(3, "tickets")}, {At(1, "dru")}} \X {NoPlace, At(3, "dru")}
RootOrDeepest == {At(3, "dru"), At(1, "tickets")}
=============================================================================
