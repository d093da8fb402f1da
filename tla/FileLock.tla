------------------------------ MODULE FileLock ------------------------------
(***************************************************************************)
(* lib/lock.mjs: the exclusive lock that serialises writes of the          *)
(* projection.  A lock is a file created with O_CREAT | O_EXCL; whoever    *)
(* creates it holds the lock, everyone else retries until a deadline.      *)
(* release() closes the descriptor and unlinks the path, and looks at      *)
(* neither the pid stamp nor the inode: it removes whatever is at that     *)
(* path.  Nothing recovers a lock file whose process died.                 *)
(*                                                                         *)
(* A file system path is an element of LockPaths.  The pid stamp in the    *)
(* file is the process recorded in lockFile; the code never reads it back, *)
(* and no action below lets a process act on it.                           *)
(***************************************************************************)
CONSTANTS
  Procs,       \* processes (hook invocations, CLI commands, library callers)
  LockPaths,   \* absolute paths of lock files
  LockOf,      \* LockOf[p]: the path that p's storage options resolve to
  Nobody       \* what lockFile[l] is while the file does not exist

ASSUME LockOfType == LockOf \in [Procs -> LockPaths]
ASSUME NobodyIsNoProc == Nobody \notin Procs

VARIABLES
  lockFile,    \* lockFile[l]: the process that created the file at l
  holding      \* processes whose handle is live: acquired, not yet released

lockVars == <<lockFile, holding>>

LockInit ==
  /\ lockFile = [l \in LockPaths |-> Nobody]
  /\ holding = {}

\* openSync(lockPath, 'wx') fails with EEXIST: p sleeps and retries, or, past
\* its deadline, throws.
Blocked(p) == lockFile[LockOf[p]] # Nobody

\* A bug to compare with: the lock file is opened with 'w', which never fails.
OpenShared(p) ==
  /\ p \notin holding
  /\ lockFile' = [lockFile EXCEPT ![LockOf[p]] = p]
  /\ holding' = holding \union {p}

\* openSync(lockPath, 'wx') succeeds: acquireLock stamps the pid (a failure to
\* do so is swallowed) and returns the handle.
OpenExclusive(p) ==
  /\ p \notin holding
  /\ ~Blocked(p)
  /\ lockFile' = [lockFile EXCEPT ![LockOf[p]] = p]
  /\ holding' = holding \union {p}

\* release(): idempotent through `released`; the unlink is unconditional.
ReleaseLock(p) ==
  /\ p \in holding
  /\ lockFile' = [lockFile EXCEPT ![LockOf[p]] = Nobody]
  /\ holding' = holding \ {p}

\* The process dies, or the unlink of its release() fails, which is swallowed.
\* The lock file it created stays behind.
LoseHandle(p) ==
  /\ holding' = holding \ {p}
  /\ UNCHANGED lockFile

\* External: somebody deletes a lock file whose creator no longer holds the lock.
RemoveAbandoned(l) ==
  /\ lockFile[l] \in Procs \ holding
  /\ lockFile' = [lockFile EXCEPT ![l] = Nobody]
  /\ UNCHANGED holding

LockNext ==
  \/ \E p \in Procs : OpenExclusive(p) \/ ReleaseLock(p) \/ LoseHandle(p)
  \/ \E l \in LockPaths : RemoveAbandoned(l)

LockSpec == LockInit /\ [][LockNext]_lockVars

LockTypeOK ==
  /\ lockFile \in [LockPaths -> Procs \union {Nobody}]
  /\ holding \subseteq Procs

-----------------------------------------------------------------------------
\* Two processes that resolve to the same lock path never both hold a live
\* handle, whatever dies and whatever abandoned file is removed.
Exclusive ==
  \A p, q \in holding : LockOf[p] = LockOf[q] => p = q

\* Why: the file at the path of a live handle is the one its process created,
\* so the unconditional unlink of release() always removes the caller's own.
HolderOwnsFile ==
  \A p \in holding : lockFile[LockOf[p]] = p
=============================================================================
