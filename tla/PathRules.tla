------------------------------ MODULE PathRules ------------------------------
(***************************************************************************)
(* Which files a call works on, given the databases there are: the rules   *)
(* of lib/paths.mjs, of resolvePaths in lib/storage.mjs, and of the gate   *)
(* and the storage target of the hooks in lib/hook-common.mjs.             *)
(*                                                                         *)
(* The directories are a chain: 1 is the deepest, d + 1 the parent of d.   *)
(* In each, a database may be kept in two places, tickets/_logs/ and       *)
(* .dru-code/; a place holds an events file, a projection and a lock file. *)
(***************************************************************************)
EXTENDS Naturals, FiniteSetsExt

CONSTANTS
  Depth,      \* how many directories there are
  MaxAscend,  \* MAX_ASCEND_DEPTH, and the bound of druumenWorkspaceRoot
  Sentinels,  \* directories whose CLAUDE.md opts the workspace in
  NoPlace,
  dbs,        \* the places whose projection file exists
  envRoot     \* DRUUMEN_SESSIONS_DB_ROOT, or NoPlace

Dirs == 1 .. Depth
Place == [dir : Dirs, layout : {"tickets", "dru"}]
At(d, layout) == [dir |-> d, layout |-> layout]

-----------------------------------------------------------------------------
\* Files.  STORAGE_FILENAMES (lib/paths.mjs), and PATHS (lib/storage.mjs).

BuildFilePaths(place) ==
  [events |-> <<place, "sessions-db-events.jsonl">>,
   projection |-> <<place, "sessions-db.json">>,
   lock |-> <<place, "sessions-db.json.lock">>]
LegacyPaths(d) ==
  [events |-> <<At(d, "tickets"), "sessions-db-events.jsonl">>,
   projection |-> <<At(d, "tickets"), "sessions-db.json">>,
   lock |-> <<At(d, "tickets"), "sessions-db.lock">>]

\* The directories an ascent from d looks at, nearest first.
Ascent(d) == {x \in d .. Depth : x < d + MaxAscend}

LayoutsAt(d) == {place.layout : place \in {x \in dbs : x.dir = d}}

\* A bug to compare with: the ascent begins with the parent.
AscendFromParent(d) ==
  LET hits == {x \in Ascent(d) \ {d} : LayoutsAt(x) # {}} IN
  IF hits = {} THEN NoPlace
  ELSE At(Min(hits), IF "tickets" \in LayoutsAt(Min(hits)) THEN "tickets" ELSE "dru")

\* ascendForExistingDb: the nearest directory with a database; tickets/_logs
\* is looked at first.
AscendForExistingDb(d) ==
  LET hits == {x \in Ascent(d) : LayoutsAt(x) # {}} IN
  IF hits = {} THEN NoPlace
  ELSE At(Min(hits), IF "tickets" \in LayoutsAt(Min(hits)) THEN "tickets" ELSE "dru")

\* resolveStoragePaths: the argument, the environment, the ascent, a new one.
ResolveStoragePaths(rootPath, cwd) ==
  BuildFilePaths(
    CASE rootPath # NoPlace -> rootPath
      [] rootPath = NoPlace /\ envRoot # NoPlace -> envRoot
      [] rootPath = NoPlace /\ envRoot = NoPlace ->
           IF AscendForExistingDb(cwd) # NoPlace THEN AscendForExistingDb(cwd)
           ELSE At(cwd, "dru"))

\* The options of a call: { rootPath }, { root }, or neither, run in cwd.
RootPath(place) == [shape |-> "rootPath", place |-> place]
Root(d) == [shape |-> "root", dir |-> d]
NoOptions(cwd) == [shape |-> "default", dir |-> cwd]

\* resolvePaths
ResolvePaths(opts) ==
  CASE opts.shape = "rootPath" -> ResolveStoragePaths(opts.place, Depth)
    [] opts.shape = "root" -> LegacyPaths(opts.dir)
    [] opts.shape = "default" -> ResolveStoragePaths(NoPlace, opts.dir)

PlaceOf(paths) == paths.projection[1]

-----------------------------------------------------------------------------
\* Hooks.

HasInitializedStorage(d) == LayoutsAt(d) # {}

\* isDruumenWorkspace: the directory or an ancestor opted in.
IsDruumenWorkspace(d) ==
  \E x \in Ascent(d) : x \in Sentinels \/ HasInitializedStorage(x)

\* resolveStorageTarget
ResolveStorageTarget(workspaceRoot) ==
  IF envRoot # NoPlace THEN RootPath(envRoot)
  ELSE IF At(workspaceRoot, "dru") \in dbs THEN RootPath(At(workspaceRoot, "dru"))
  ELSE Root(workspaceRoot)

Target(workspaceRoot) == PlaceOf(ResolvePaths(ResolveStorageTarget(workspaceRoot)))
=============================================================================
