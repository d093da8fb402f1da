----------------------------- MODULE HookProcess -----------------------------
(***************************************************************************)
(* A hook as a process that decides, step by step, where it writes: the    *)
(* bootstrap shim with its hard timeout, the payload on stdin, the gate,   *)
(* the git probes of lib/git-context.mjs under one deadline, the anchor    *)
(* gate, the write.  SessionStart asks git six times, UserPrompt once.     *)
(* StoragePaths has the same hooks in one step; here databases appear      *)
(* while they run, and git may be slow, hang, be killed or not start.      *)
(*                                                                         *)
(* Assumed: synchronous work takes no time (the shims say that they do not *)
(* bound it), and nobody removes a database while a hook runs.             *)
(***************************************************************************)
EXTENDS StoragePaths, Sequences

CONSTANTS
  HardLimit,   \* of the shim, by hook; all times count from its start
  Budget,      \* totalBudgetMs, by hook
  MinProbe,    \* MIN_PROBE_BUDGET_MS
  StdinLimit,  \* timeoutMs of readStdinJson
  Started,     \* bound: <<dbs, envRoot>> when a hook of this module starts
  Appearing    \* bound: the places where one appears meanwhile

ASSUME TimesType ==
  /\ HardLimit \in [Hooks -> Nat] /\ Budget \in [Hooks -> Nat]
  /\ MinProbe \in Nat /\ StdinLimit \in Nat
ASSUME PlacesType == Appearing \subseteq Place

VARIABLE hook  \* the running hook

hookVars == <<pathVars, hook>>

NoHook == [step |-> "none"]
IsAt(step) == hook.step = step

\* The probes of gitContext; gitContextFast has one.
Probes == <<"is-inside-work-tree", "show-toplevel", "git-common-dir", "git-dir",
            "show-current", "HEAD">>

ProcessInit == PathsInit /\ hook = NoHook

-----------------------------------------------------------------------------
StartHook(kind, cwd) ==
  /\ hook = NoHook /\ <<dbs, envRoot>> \in Started
  /\ hook' = [kind |-> kind, cwd |-> cwd, step |-> "stdin", now |-> 0, until |-> 0,
              probe |-> 1, limit |-> 0, child |-> "none", drained |-> FALSE,
              root |-> FALSE, errors |-> FALSE, status |-> "ok", target |-> NoPlace]
  /\ made' = [by |-> "nobody", place |-> NoPlace]
  /\ UNCHANGED <<dbs, envRoot>>

\* readStdinJson, and the gate on cwd.  A payload that comes late is not read:
\* cwd is then that of the environment, which may lack the session's id too.
PassGate(cwd) ==
  hook' = IF IsDruumenWorkspace(cwd)
          THEN [hook EXCEPT !.cwd = cwd, !.step = "run",
                            !.until = hook.now + Budget[hook.kind]]
          ELSE NoHook
PayloadArrives ==
  /\ IsAt("stdin")
  /\ PassGate(hook.cwd)
  /\ UNCHANGED pathVars
PayloadIsLate ==
  /\ IsAt("stdin") /\ hook.now = StdinLimit
  /\ hook' = NoHook \/ \E cwd \in Dirs : PassGate(cwd)
  /\ UNCHANGED pathVars

-----------------------------------------------------------------------------
\* gitContext and gitContextFast: what follows from the answer to a probe.
\* result is "ok", "fails" (git exits with an error), "timed_out" or
\* "spawn_failed"; output says whether there is any.

Lapsed(h) == h.now + MinProbe > h.until
Finalize(h) ==
  [h EXCEPT !.step = "anchor",
            !.status = IF h.errors /\ @ = "ok" THEN "partial" ELSE @]
NextProbe(h) ==
  IF h.probe = Len(Probes) \/ Lapsed(h) THEN Finalize(h)
  ELSE [h EXCEPT !.step = "run",
          !.probe = IF Probes[h.probe + 1] = "git-dir" /\ ~h.root
                    THEN h.probe + 2 ELSE h.probe + 1]

FirstAnswer(h, result, output) ==
  CASE result = "ok" /\ output ->
         NextProbe([h EXCEPT !.errors = Lapsed(h)])
    [] result \in {"timed_out", "spawn_failed"} ->
         Finalize([h EXCEPT !.status = "error"])
    [] OTHER -> Finalize([h EXCEPT !.status = "not_a_repo"])
LaterAnswer(h, result, output) ==
  NextProbe([h EXCEPT
    !.root = @ \/ (Probes[h.probe] = "show-toplevel" /\ result = "ok" /\ output),
    !.errors = @ \/ result # "ok"])
FastAnswer(h, result, output) ==
  Finalize([h EXCEPT
    !.root = result = "ok" /\ output,
    !.status = CASE result = "ok" -> "ok"
                 [] result = "fails" -> "not_a_repo"
                 [] OTHER -> "error"])
Answered(h, result, output) ==
  IF h.kind = "prompt" THEN FastAnswer(h, result, output)
  ELSE IF h.probe = 1 THEN FirstAnswer(h, result, output)
  ELSE LaterAnswer(h, result, output)

-----------------------------------------------------------------------------
\* runGit: no process for what is left of the deadline; else one whose timer
\* ends with it.
\* A bug to compare with: every probe has the whole budget.
RunGitAfresh ==
  /\ IsAt("run")
  /\ hook' \in {Answered(hook, "spawn_failed", FALSE),
                [hook EXCEPT !.step = "wait", !.limit = hook.now + Budget[hook.kind],
                             !.child = "running", !.drained = FALSE]}
  /\ UNCHANGED pathVars
RunGit ==
  /\ IsAt("run")
  /\ hook' \in
       IF hook.until - hook.now <= MinProbe THEN {Answered(hook, "timed_out", FALSE)}
       ELSE {Answered(hook, "spawn_failed", FALSE),
             [hook EXCEPT !.step = "wait", !.limit = hook.until,
                          !.child = "running", !.drained = FALSE]}
  /\ UNCHANGED pathVars

\* git ends, if ever: with an answer only inside the worktree.  What it has
\* written arrives before or after that.
ChildEnds ==
  /\ IsAt("wait") /\ hook.child = "running"
  /\ \E how \in {"answers", "fails", "killed"} :
       /\ how = "answers" => hook.cwd <= Worktree
       /\ hook' = [hook EXCEPT !.child = how]
  /\ UNCHANGED pathVars
ChildDrains ==
  /\ IsAt("wait") /\ hook.child # "running" /\ ~hook.drained
  /\ hook' = [hook EXCEPT !.drained = TRUE]
  /\ UNCHANGED pathVars

Result(child) ==
  CASE child = "answers" -> "ok"
    [] child = "fails" -> "fails"
    [] child = "killed" -> "timed_out"

\* The handler of "close", which comes when git has ended and its output has
\* been read; the timer may be faster.
\* A bug to compare with: the handler is that of "exit".
SettleOnExit ==
  /\ IsAt("wait") /\ hook.child # "running"
  /\ hook' = Answered(hook, Result(hook.child), hook.child = "answers" /\ hook.drained)
  /\ UNCHANGED pathVars
SettleOnClose ==
  /\ IsAt("wait") /\ hook.child # "running" /\ hook.drained
  /\ hook' = Answered(hook, Result(hook.child), hook.child = "answers")
  /\ UNCHANGED pathVars
SettleOnTimer ==
  /\ IsAt("wait") /\ hook.now = hook.limit
  /\ hook' = Answered(hook, "timed_out", FALSE)
  /\ UNCHANGED pathVars

-----------------------------------------------------------------------------
\* The hook's way on from there to its target, and the write.  SessionStart
\* leaves when git says that this is no repository, UserPrompt at the anchor
\* gate.
GoesOn ==
  IF hook.kind = "session_start" THEN hook.status # "not_a_repo"
  ELSE hook.root \/ envRoot # NoPlace \/ HasInitializedStorage(hook.cwd)
ChooseTarget ==
  /\ IsAt("anchor")
  /\ hook' = IF GoesOn
             THEN [hook EXCEPT !.step = "write",
                     !.target = Target(IF hook.root THEN Worktree ELSE hook.cwd)]
             ELSE NoHook
  /\ UNCHANGED pathVars
Write ==
  /\ IsAt("write")
  /\ HookWrites(hook.kind, hook.target)
  /\ hook' = NoHook

\* Time passes, but no timer that is due is passed over.
TimerDue ==
  \/ IsAt("stdin") /\ hook.now = StdinLimit
  \/ IsAt("wait") /\ hook.now = hook.limit
  \/ hook.now = HardLimit[hook.kind]
Tick ==
  /\ hook.step \in {"stdin", "wait", "write"} /\ ~TimerDue
  /\ hook' = [hook EXCEPT !.now = @ + 1]
  /\ UNCHANGED pathVars

\* The timer of the shim.
ShimTimer ==
  /\ hook # NoHook /\ hook.now = HardLimit[hook.kind]
  /\ hook' = NoHook
  /\ UNCHANGED pathVars

HookStep ==
  \/ PayloadArrives \/ PayloadIsLate \/ RunGit \/ ChildEnds \/ ChildDrains
  \/ SettleOnClose \/ SettleOnTimer \/ ChooseTarget \/ Write \/ Tick \/ ShimTimer

ProcessNext ==
  \/ hook = NoHook /\ PathsNext /\ UNCHANGED hook
  \/ \E kind \in Hooks, cwd \in Dirs : StartHook(kind, cwd)
  \/ hook # NoHook /\ (\E place \in Appearing : InitProjection(place)) /\ UNCHANGED hook
  \/ HookStep

ProcessSpec == ProcessInit /\ [][ProcessNext]_hookVars

-----------------------------------------------------------------------------
\* However many of the six gits are slow, together they take no longer than
\* the budget, and so the hook comes to its write.
ProbesShareBudget ==
  hook.step \in {"run", "wait", "anchor"} => hook.now <= hook.until

\* A session is passed over as one outside of a repository only when git has
\* said so, not because it was slow, was killed or had its answer read too
\* early; and what the probes find is what StoragePaths takes them to find.
NotARepoIsTrue ==
  IsAt("anchor") =>
    /\ hook.status = "not_a_repo" => hook.child = "fails"
    /\ (IF hook.root THEN "ok"
        ELSE IF hook.status = "not_a_repo" THEN "not_a_repo" ELSE "error")
         \in Probe(hook.cwd)
=============================================================================
