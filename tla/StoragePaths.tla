---------------------------- MODULE StoragePaths ----------------------------
(***************************************************************************)
(* The rules of PathRules at work: hooks and commands run in directories   *)
(* of a workspace and write where the rules send them.  Everybody decides  *)
(* by looking for projections, so the answer to "where is the database"    *)
(* changes while databases appear and disappear.                           *)
(***************************************************************************)
EXTENDS Naturals, FiniteSets

CONSTANTS
  Depth,      \* see PathRules
  MaxAscend,
  Sentinels,
  NoPlace,
  Worktree    \* the directory that `git` calls the root of the worktree

VARIABLES
  dbs,        \* the places whose projection file exists
  envRoot,    \* DRUUMEN_SESSIONS_DB_ROOT, which every process sees, or NoPlace
  made        \* what a hook last wrote where no database was: [by, place]

pathVars == <<dbs, envRoot, made>>

INSTANCE PathRules

ASSUME DepthType == Depth \in Nat \ {0} /\ MaxAscend \in Nat \ {0}
ASSUME SentinelsType == Sentinels \subseteq 1 .. Depth
ASSUME WorktreeType == Worktree \in 1 .. Depth
ASSUME NoPlaceIsNoPlace == NoPlace \notin Place

Hooks == {"session_start", "prompt"}

\* External: what asking git for the worktree may yield in d.  Outside of it git
\* exits with an error; inside it may do so too (dubious ownership).  "error" is
\* a time-out, a git that cannot be started, or a budget that ran out before
\* the root was known.
Probe(d) == IF d <= Worktree THEN {"ok", "not_a_repo", "error"}
            ELSE {"not_a_repo", "error"}

\* gitCtx.worktreePath || cwd
WorkspaceRoot(cwd, probe) == IF probe = "ok" THEN Worktree ELSE cwd

PathsInit ==
  /\ dbs = {}
  /\ envRoot \in Place \union {NoPlace}
  /\ made = [by |-> "nobody", place |-> NoPlace]

\* Writing saves the projection, and so marks the place as a database.
WriteTo(place) == dbs' = dbs \union {place}

\* A hook writes: an event and the projection, or only a pending record or the
\* promoter's marker beside it, which make no database.
HookWrites(hook, place) ==
  /\ WriteTo(place) \/ UNCHANGED dbs
  /\ made' = IF place \in dbs THEN made ELSE [by |-> hook, place |-> place]
  /\ UNCHANGED envRoot

\* SessionStart goes on unless git says that this is no repository.
SessionStart(cwd) ==
  \E probe \in Probe(cwd) \ {"not_a_repo"} :
    /\ IsDruumenWorkspace(cwd)
    /\ HookWrites("session_start", Target(WorkspaceRoot(cwd, probe)))

\* A bug to compare with: the anchor gate is left out.
PromptWithoutGate(cwd) ==
  \E probe \in Probe(cwd) :
    /\ IsDruumenWorkspace(cwd)
    /\ HookWrites("prompt", Target(WorkspaceRoot(cwd, probe)))

\* UserPrompt goes on without a worktree only if cwd holds a database or the
\* environment names one (the anchor gate).
Prompt(cwd) ==
  \E probe \in Probe(cwd) :
    /\ IsDruumenWorkspace(cwd)
    /\ probe = "ok" \/ envRoot # NoPlace \/ HasInitializedStorage(cwd)
    /\ HookWrites("prompt", Target(WorkspaceRoot(cwd, probe)))

\* A command writes, with no options in cwd, or with --root.
Command(opts) ==
  /\ WriteTo(PlaceOf(ResolvePaths(opts)))
  /\ UNCHANGED <<envRoot, made>>

\* initProjection({ rootPath }), as a setup wizard calls it.
InitProjection(place) ==
  /\ WriteTo(place)
  /\ UNCHANGED <<envRoot, made>>

\* Somebody removes a projection; its log stays, but nobody looks for that.
RemoveProjection(place) ==
  /\ place \in dbs
  /\ dbs' = dbs \ {place}
  /\ UNCHANGED <<envRoot, made>>

PathsNext ==
  \/ \E cwd \in Dirs : SessionStart(cwd) \/ Prompt(cwd)
  \/ \E d \in Dirs : Command(NoOptions(d)) \/ Command(Root(d))
  \/ \E place \in Place : InitProjection(place)
  \/ \E place \in dbs : RemoveProjection(place)

PathsSpec == PathsInit /\ [][PathsNext]_pathVars

-----------------------------------------------------------------------------
\* Where a hook may write although no database is there.
Anchored(place) == place = envRoot \/ place.dir = Worktree

\* UserPrompt writes in a database, at the root of the worktree or where the
\* environment says, never in whatever directory the user happens to be in,
\* though the git probe fails now and then.
PromptScattersNothing == made.by = "prompt" => Anchored(made.place)

\* Nothing but the worktree's own database answers to a command run in cwd.
NothingNearer(cwd) ==
  /\ Worktree \in Ascent(cwd)
  /\ \A x \in cwd .. Worktree - 1 : ~HasInitializedStorage(x)

SameDatabase(cwd) == PlaceOf(ResolvePaths(NoOptions(cwd))) = Target(Worktree)

\* The hooks and the commands ask two resolvers; a command run anywhere in the
\* worktree finds the database that the hooks write, unless another is nearer
\* or the worktree holds one of each layout.
CommandsFindHookDatabase ==
  \A cwd \in Dirs :
    /\ envRoot # NoPlace => SameDatabase(cwd)
    /\ NothingNearer(cwd) /\ Cardinality(LayoutsAt(Worktree)) = 1
         => SameDatabase(cwd)
=============================================================================
