-------------------------------- MODULE Store --------------------------------
(***************************************************************************)
(* lib/storage.mjs: the append-only event log, the projection cached       *)
(* beside it, and the three ways the code writes them:                     *)
(*                                                                         *)
(*   Hooks       recordSessionSeen: everything under the lock, so that     *)
(*               resolving an identity and recording it are one step for   *)
(*               everybody else;                                           *)
(*   Writers     tryUpdateProjection, behind every CLI write and the       *)
(*               heartbeat of the UserPrompt hook: the session is looked   *)
(*               up and the event appended BEFORE the lock is taken;       *)
(*   Rebuilders  rebuildProjection: the log is read and folded BEFORE the  *)
(*               lock is taken, the result saved under it.                 *)
(*                                                                         *)
(* A projection is represented by the sequence of the events folded into   *)
(* it: the fold (lib/projection.mjs) is a function of that sequence, so    *)
(* this keeps apart exactly the projections that could differ.  A fold of  *)
(* the whole log is then the log itself.                                   *)
(*                                                                         *)
(* Each read and each write of a file is a step of its own, and processes  *)
(* interleave between them.                                                *)
(***************************************************************************)
EXTENDS FileLock, Naturals, SequencesExt

CONSTANTS
  Hooks, Writers, Rebuilders,  \* the processes, by what they run
  Csids,       \* claude_session_id values of the agent sessions observed
  NoCsid,      \* an event that names no claude_session_id
  Faults,      \* which of FaultKinds the environment may do
  MaxEvents    \* bound: newEvent is called at most MaxEvents times

FaultKinds == {"crash", "append", "lock", "load", "save", "unlink",
               "cache_loss", "remove_lock"}

ASSUME RolesCoverProcs == Procs = Hooks \union Writers \union Rebuilders
ASSUME RolesAreDisjoint == /\ Hooks \intersect Writers = {}
                           /\ Hooks \intersect Rebuilders = {}
                           /\ Writers \intersect Rebuilders = {}
ASSUME NoCsidIsNoCsid == NoCsid \notin Csids
ASSUME FaultsType == Faults \subseteq FaultKinds
ASSUME MaxEventsType == MaxEvents \in Nat

VARIABLES
  log,          \* the lines of sessions-db-events.jsonl, oldest first
  cacheExists,  \* whether sessions-db.json is there
  cache,        \* the events folded into it (empty while it is missing)
  pc,           \* pc[p]: the next step of the call p is in
  evt,          \* evt[p]: the event that call creates
  snap,         \* snap[p]: the projection p holds in memory
  nextId,       \* ids handed out by newEvent and by the minting of a session
  acked         \* ids of the events whose call answered { ok: true }

storeVars == <<log, cacheExists, cache, pc, evt, snap, nextId, acked>>
vars == <<lockVars, storeVars>>

Steps == {"idle", "append", "lock", "load", "save", "release", "dead"}

\* stable ids are minted from a UUID source; here, from the same counter as
\* the event that first carries them.  0 stands for "none yet".
Event == [id : Nat, op : {"session_seen", "update"}, sid : Nat,
          csid : Csids \union {NoCsid}]
NoEvent == [id |-> 0, op |-> "update", sid |-> 0, csid |-> NoCsid]

Init ==
  /\ LockInit
  /\ log = <<>>
  /\ cacheExists = FALSE
  /\ cache = <<>>
  /\ pc = [p \in Procs |-> "idle"]
  /\ evt = [p \in Procs |-> NoEvent]
  /\ snap = [p \in Procs |-> <<>>]
  /\ nextId = 1
  /\ acked = {}

-----------------------------------------------------------------------------
\* Projections, as sequences of folded events.

Sessions(proj) == {e.sid : e \in ToSet(proj)}

CsidsOf(proj, sid) ==
  {e.csid : e \in {x \in ToSet(proj) : x.sid = sid}} \ {NoCsid}

\* A bug to compare with: only the first claude_session_id of a session counts.
OwnersByFirstId(proj, csid) ==
  {e.sid : e \in {x \in ToSet(proj) :
     /\ x.csid = csid
     /\ \A y \in ToSet(proj) : y.sid = x.sid /\ y.csid # NoCsid => x.id <= y.id}}

\* findByClaudeSessionId: the sessions whose claude_session_ids hold csid.
OwnersOf(proj, csid) == {sid \in Sessions(proj) : csid \in CsidsOf(proj, sid)}

\* The event that _meta.last_event_id names.
IsLastFolded(proj, e) == proj # <<>> /\ Last(proj) = e

\* applyEvent: the event folded last may be applied again, and is recognised.
ApplyEvent(proj, e) == IF IsLastFolded(proj, e) THEN proj ELSE Append(proj, e)

\* loadProjection: the cache if there is one, else a fold of the log.
Loaded == IF cacheExists THEN cache ELSE log

NewEvent(op, sid, csid) ==
  [id |-> nextId, op |-> op, sid |-> sid, csid |-> csid]

Goto(p, step) == pc' = [pc EXCEPT ![p] = step]

\* The call ends, and with it the process's memory of it.
Leave(p, step) ==
  /\ pc' = [pc EXCEPT ![p] = step]
  /\ evt' = [evt EXCEPT ![p] = NoEvent]
  /\ snap' = [snap EXCEPT ![p] = <<>>]

Allowed(fault) == fault \in Faults

-----------------------------------------------------------------------------
\* Steps every kind of call goes through.

\* acquireLock returns.
Acquire(p) ==
  /\ pc[p] = "lock"
  /\ OpenExclusive(p)
  /\ Goto(p, IF p \in Rebuilders THEN "save" ELSE "load")
  /\ UNCHANGED <<log, cacheExists, cache, evt, snap, nextId, acked>>

\* Bugs to compare with: acquireLock has no deadline; the call goes on without
\* the lock when it cannot have it.
WaitForever(p) == FALSE /\ UNCHANGED vars
ProceedUnlocked(p) ==
  /\ pc[p] = "lock"
  /\ Blocked(p)
  /\ Goto(p, IF p \in Rebuilders THEN "save" ELSE "load")
  /\ UNCHANGED <<lockVars, log, cacheExists, cache, evt, snap, nextId, acked>>

\* acquireLock throws, at its deadline or because the file cannot be made at
\* all: the call answers { ok: false }, or throws (rebuild).  An event a writer
\* appended stays in the log.
GiveUp(p) ==
  /\ pc[p] = "lock"
  /\ Blocked(p) \/ Allowed("lock")
  /\ Leave(p, "idle")
  /\ UNCHANGED <<lockVars, log, cacheExists, cache, nextId, acked>>

\* saveProjectionUnlocked: a temporary file, fsynced, renamed over the cache.
Save(p) ==
  /\ pc[p] = "save"
  /\ cacheExists' = TRUE
  /\ cache' = snap[p]
  /\ acked' = IF p \in Rebuilders THEN acked ELSE acked \union {evt[p].id}
  /\ Goto(p, "release")
  /\ UNCHANGED <<lockVars, log, evt, snap, nextId>>

\* It throws (disk full, no permission): the temporary file is removed, the
\* cache is as it was, the call answers { ok: false }.
SaveFails(p) ==
  /\ Allowed("save")
  /\ pc[p] = "save"
  /\ Goto(p, "release")
  /\ UNCHANGED <<lockVars, log, cacheExists, cache, evt, snap, nextId, acked>>

\* The projection cannot be had: the cache is missing or unreadable and the log
\* damaged in its middle, so that the fold throws (or payloadBuilder does).
LoadFails(p) ==
  /\ Allowed("load")
  /\ pc[p] = "load"
  /\ Goto(p, "release")
  /\ UNCHANGED <<lockVars, log, cacheExists, cache, evt, snap, nextId, acked>>

\* finally { lock.release() }, which may leave the file there.
Release(p) ==
  /\ pc[p] = "release"
  /\ ReleaseLock(p) \/ (Allowed("unlink") /\ LoseHandle(p))
  /\ Leave(p, "idle")
  /\ UNCHANGED <<log, cacheExists, cache, nextId, acked>>

-----------------------------------------------------------------------------
\* recordSessionSeen

HookBegin(p) ==
  /\ pc[p] = "idle"
  /\ nextId <= MaxEvents
  /\ Goto(p, "lock")
  /\ UNCHANGED <<lockVars, log, cacheExists, cache, evt, snap, nextId, acked>>

\* loadProjection, then resolveIdentity on what it returned: a session that
\* holds the csid wins; failing that, transcript lineage or a fingerprint may
\* name any session there is; failing that, a session is minted.
HookLoad(p) ==
  /\ pc[p] = "load"
  /\ p \in Hooks
  /\ \E csid \in Csids :
       LET owners == OwnersOf(Loaded, csid) IN
       \E sid \in IF owners # {} THEN owners
                  ELSE Sessions(Loaded) \union {nextId} :
         evt' = [evt EXCEPT ![p] = NewEvent("session_seen", sid, csid)]
  /\ snap' = [snap EXCEPT ![p] = Loaded]
  /\ nextId' = nextId + 1
  /\ Goto(p, "append")
  /\ UNCHANGED <<lockVars, log, cacheExists, cache, acked>>

\* appendEvent, then applyEvent on the projection in memory.
HookAppend(p) ==
  /\ pc[p] = "append"
  /\ p \in Hooks
  /\ log' = Append(log, evt[p])
  /\ snap' = [snap EXCEPT ![p] = ApplyEvent(@, evt[p])]
  /\ Goto(p, "save")
  /\ UNCHANGED <<lockVars, cacheExists, cache, evt, nextId, acked>>

\* Bugs to compare with: the error is swallowed and the event is folded and
\* saved although the log does not hold it; the call returns without passing
\* through `finally`; the append is retried though its bytes were written.
HookAppendErrorSwallowed(p) ==
  /\ Allowed("append")
  /\ pc[p] = "append"
  /\ p \in Hooks
  /\ snap' = [snap EXCEPT ![p] = ApplyEvent(@, evt[p])]
  /\ Goto(p, "save")
  /\ UNCHANGED <<lockVars, log, cacheExists, cache, evt, nextId, acked>>
HookAppendErrorKeepsLock(p) ==
  /\ Allowed("append")
  /\ pc[p] = "append"
  /\ p \in Hooks
  /\ Leave(p, "idle")
  /\ UNCHANGED <<lockVars, log, cacheExists, cache, nextId, acked>>
HookAppendErrorRetried(p) ==
  /\ Allowed("append")
  /\ pc[p] = "append"
  /\ p \in Hooks
  /\ nextId <= MaxEvents
  /\ log' = Append(log, evt[p])
  /\ nextId' = nextId + 1
  /\ UNCHANGED <<lockVars, pc, cacheExists, cache, evt, snap, acked>>

\* appendEvent throws (line over MAX_EVENT_BYTES, disk error): nothing was
\* recorded and the call answers { ok: false }.
HookAppendFails(p) ==
  /\ Allowed("append")
  /\ pc[p] = "append"
  /\ p \in Hooks
  /\ Goto(p, "release")
  /\ UNCHANGED <<lockVars, log, cacheExists, cache, evt, snap, nextId, acked>>

-----------------------------------------------------------------------------
\* tryUpdateProjection, with the unlocked lookup its callers make

\* ensureSessionExists, or the csid lookup of the UserPrompt hook: the event
\* names a session of the projection as it is now, and, in the latter case, a
\* csid of that session.
WriterBegin(p) ==
  /\ pc[p] = "idle"
  /\ nextId <= MaxEvents
  /\ \E sid \in Sessions(Loaded) :
     \E csid \in CsidsOf(Loaded, sid) \union {NoCsid} :
       evt' = [evt EXCEPT ![p] = NewEvent("update", sid, csid)]
  /\ nextId' = nextId + 1
  /\ Goto(p, "append")
  /\ UNCHANGED <<lockVars, log, cacheExists, cache, snap, acked>>

\* A bug to compare with: the lock is left out, as one atomic rename seems
\* enough.
WriterAppendSkipsLock(p) ==
  /\ pc[p] = "append"
  /\ p \in Writers
  /\ log' = Append(log, evt[p])
  /\ Goto(p, "load")
  /\ UNCHANGED <<lockVars, cacheExists, cache, evt, snap, nextId, acked>>

WriterAppend(p) ==
  /\ pc[p] = "append"
  /\ p \in Writers
  /\ log' = Append(log, evt[p])
  /\ Goto(p, "lock")
  /\ UNCHANGED <<lockVars, cacheExists, cache, evt, snap, nextId, acked>>

WriterAppendFails(p) ==
  /\ Allowed("append")
  /\ pc[p] = "append"
  /\ p \in Writers
  /\ Leave(p, "idle")
  /\ UNCHANGED <<lockVars, log, cacheExists, cache, nextId, acked>>

\* loadProjection and applyEvent.  When the cache is missing, the fold that
\* replaces it already holds the event.
WriterLoad(p) ==
  /\ pc[p] = "load"
  /\ p \in Writers
  /\ snap' = [snap EXCEPT ![p] = ApplyEvent(Loaded, evt[p])]
  /\ Goto(p, "save")
  /\ UNCHANGED <<lockVars, log, cacheExists, cache, evt, nextId, acked>>

-----------------------------------------------------------------------------
\* rebuildProjection

RebuildRead(p) ==
  /\ pc[p] = "idle"
  /\ snap' = [snap EXCEPT ![p] = log]
  /\ Goto(p, "lock")
  /\ UNCHANGED <<lockVars, log, cacheExists, cache, evt, nextId, acked>>

-----------------------------------------------------------------------------
\* The environment

\* The process is killed, or exits on a hook's hard timeout.
Crash(p) ==
  /\ Allowed("crash")
  /\ pc[p] \notin {"idle", "dead"}
  /\ LoseHandle(p)
  /\ Leave(p, "dead")
  /\ UNCHANGED <<log, cacheExists, cache, nextId, acked>>

\* The projection is deleted, or damaged: the next load folds the log instead.
LoseCache ==
  /\ Allowed("cache_loss")
  /\ cacheExists
  /\ cacheExists' = FALSE
  /\ cache' = <<>>
  /\ UNCHANGED <<lockVars, log, pc, evt, snap, nextId, acked>>

\* An operator removes the lock file that a process left.
RemoveLock(l) ==
  /\ Allowed("remove_lock")
  /\ RemoveAbandoned(l)
  /\ UNCHANGED storeVars

-----------------------------------------------------------------------------
HookStep(p) == HookLoad(p) \/ HookAppend(p) \/ HookAppendFails(p)
WriterStep(p) == WriterAppend(p) \/ WriterAppendFails(p) \/ WriterLoad(p)
SharedStep(p) ==
  \/ Acquire(p) \/ GiveUp(p)
  \/ LoadFails(p) \/ Save(p) \/ SaveFails(p) \/ Release(p)

\* What a process does by itself once a call has begun.
Continue(p) == HookStep(p) \/ WriterStep(p) \/ SharedStep(p)

Next ==
  \/ \E p \in Hooks : HookBegin(p)
  \/ \E p \in Writers : WriterBegin(p)
  \/ \E p \in Rebuilders : RebuildRead(p)
  \/ \E p \in Procs : Continue(p)
  \/ \E p \in Procs : Crash(p)
  \/ LoseCache
  \/ \E l \in LockPaths : RemoveLock(l)

Spec == Init /\ [][Next]_vars

\* A call that has begun runs on: JavaScript runs the rest of the function
\* when its promise settles, and acquireLock re-arms its timer until the
\* deadline.  No fairness is assumed of callers, faults or operators.
FairSpec == Spec /\ \A p \in Procs : WF_vars(Continue(p))

-----------------------------------------------------------------------------
Critical == {"load", "save", "release"}
InCritical(p) == pc[p] \in Critical \/ (pc[p] = "append" /\ p \in Hooks)

\* Every variable has its type, and a process holds a live lock handle exactly
\* while it is between acquireLock and release() (no early return skips the
\* `finally`).
TypeOK ==
  /\ LockTypeOK
  /\ log \in Seq(Event)
  /\ cacheExists \in BOOLEAN
  /\ cache \in Seq(Event)
  /\ pc \in [Procs -> Steps]
  /\ evt \in [Procs -> Event]
  /\ snap \in [Procs -> Seq(Event)]
  /\ nextId \in Nat
  /\ acked \subseteq Nat
  /\ holding = {p \in Procs : InCritical(p)}

\* Log first, cache second: the cache never shows an event that the log does
\* not hold, so nothing is visible that a rebuild would not bring back.
CacheIsLogged == ToSet(cache) \subseteq ToSet(log)

\* An event whose call answered { ok: true } is in the cache, whatever other
\* calls time out, fail or die: no update is lost.  (Without a rebuild: see
\* the run rebuild_race.)
AckedIsFolded ==
  cacheExists => acked \subseteq {e.id : e \in ToSet(cache)}

\* Saving never takes an event out of the cache.
CacheOnlyGrows ==
  [][cacheExists /\ cacheExists' => ToSet(cache) \subseteq ToSet(cache')]_vars

\* An observation recorded by a hook is folded once, even when the cache was
\* lost and folded again from the log (event_count counts it once).
SeenFoldedOnce ==
  \A i, j \in DOMAIN cache :
    cache[i] = cache[j] /\ cache[i].op = "session_seen" => i = j

\* The log binds each claude_session_id to one stable_id, for good.
bound == {<<e.csid, e.sid>> : e \in {x \in ToSet(log) : x.csid # NoCsid}}
Registry == INSTANCE SessionRegistry WITH AgentIds <- Csids, StableIds <- Nat
IdentityIsStable == Registry!Spec

\* Every call returns: it never waits forever, not even for a lock whose
\* holder died.
EveryCallReturns ==
  \A p \in Procs : pc[p] \notin {"idle", "dead"} ~> pc[p] \in {"idle", "dead"}
=============================================================================
