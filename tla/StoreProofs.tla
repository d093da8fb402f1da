----------------------------- MODULE StoreProofs -----------------------------
(***************************************************************************)
(* Theorems about FileLock and Store, for any processes, csids, lock paths *)
(* and faults.                                                             *)
(***************************************************************************)
EXTENDS Store, TLAPS

-----------------------------------------------------------------------------
(* The lock of lib/lock.mjs excludes, although its unlink looks at nothing  *)
(* and although dead locks may be removed by hand.                          *)

LockInv == LockTypeOK /\ HolderOwnsFile

LEMMA LockInvInit == LockInit => LockInv
  BY DEF LockInit, LockInv, LockTypeOK, HolderOwnsFile

\* Every action keeps "the file at the path of a live handle is its own": a
\* path is taken only while nobody's file is there, and freed only by the
\* owner of the file or when its owner holds no handle.
LEMMA LockInvStep == LockInv /\ [LockNext]_lockVars => LockInv'
  <1> SUFFICES ASSUME LockInv, [LockNext]_lockVars
               PROVE  LockInv'
    OBVIOUS
  <1> USE LockOfType, NobodyIsNoProc DEF LockInv, LockTypeOK, HolderOwnsFile
  <1>1. ASSUME NEW p \in Procs, OpenExclusive(p)
        PROVE  LockInv'
    BY <1>1 DEF OpenExclusive, Blocked
  <1>2. ASSUME NEW p \in Procs, ReleaseLock(p)
        PROVE  LockInv'
    BY <1>2 DEF ReleaseLock
  <1>3. ASSUME NEW p \in Procs, LoseHandle(p)
        PROVE  LockInv'
    BY <1>3 DEF LoseHandle
  <1>4. ASSUME NEW l \in LockPaths, RemoveAbandoned(l)
        PROVE  LockInv'
    BY <1>4 DEF RemoveAbandoned
  <1>5. CASE UNCHANGED lockVars
    BY <1>5 DEF lockVars
  <1> QED
    BY <1>1, <1>2, <1>3, <1>4, <1>5 DEF LockNext

LEMMA LockInvExcludes == LockInv => Exclusive
  BY DEF LockInv, HolderOwnsFile, Exclusive

\* The file at the path of a live handle is the one its holder made.
THEOREM LockInvariant == LockSpec => []LockInv
  BY LockInvInit, LockInvStep, PTL DEF LockSpec

\* Processes that resolve to the same lock path are never both inside.
THEOREM LockExcludes == LockSpec => []Exclusive
  BY LockInvariant, LockInvExcludes, PTL

-----------------------------------------------------------------------------
(* Lemmas about sequences of folded events.                                *)

LEMMA ToSetAppend ==
  ASSUME NEW S, NEW s \in Seq(S), NEW e \in S
  PROVE  /\ Append(s, e) \in Seq(S)
         /\ ToSet(Append(s, e)) = ToSet(s) \union {e}
  <1>1. /\ Append(s, e) \in Seq(S)
        /\ Len(Append(s, e)) = Len(s) + 1
        /\ \A i \in 1 .. Len(s) : Append(s, e)[i] = s[i]
        /\ Append(s, e)[Len(s) + 1] = e
    OBVIOUS
  <1>2. DOMAIN Append(s, e) = DOMAIN s \union {Len(s) + 1}
    BY <1>1
  <1> QED
    BY <1>1, <1>2 DEF ToSet

LEMMA ToSetEmpty == ToSet(<<>>) = {}
  BY DEF ToSet

\* Applying an event folds it in and keeps what was folded before.
LEMMA ApplyEventFolds ==
  ASSUME NEW S, NEW s \in Seq(S), NEW e \in S
  PROVE  /\ ApplyEvent(s, e) \in Seq(S)
         /\ ToSet(ApplyEvent(s, e)) = ToSet(s) \union {e}
  <1>1. CASE IsLastFolded(s, e)
    <2>1. e \in ToSet(s)
      BY <1>1 DEF IsLastFolded, Last, ToSet
    <2> QED
      BY <1>1, <2>1 DEF ApplyEvent
  <1>2. CASE ~IsLastFolded(s, e)
    BY <1>2, ToSetAppend DEF ApplyEvent
  <1> QED
    BY <1>1, <1>2

LEMMA LoadedType ==
  ASSUME TypeOK
  PROVE  Loaded \in Seq(Event)
  BY DEF TypeOK, Loaded

LEMMA NewEventType ==
  ASSUME TypeOK, NEW op \in {"session_seen", "update"}, NEW sid \in Nat,
         NEW csid \in Csids \union {NoCsid}
  PROVE  NewEvent(op, sid, csid) \in Event
  BY DEF TypeOK, NewEvent, Event

\* Sessions have stable ids, and csids are csids.
LEMMA SessionsType ==
  ASSUME NEW s \in Seq(Event)
  PROVE  /\ Sessions(s) \subseteq Nat
         /\ \A sid : CsidsOf(s, sid) \subseteq Csids
         /\ \A csid : OwnersOf(s, csid) \subseteq Nat
  <1>1. ToSet(s) \subseteq Event
    BY DEF ToSet
  <1> QED
    BY <1>1 DEF Sessions, CsidsOf, OwnersOf, Event

-----------------------------------------------------------------------------
(* Every step of Store is a step of the lock, or leaves it alone.          *)

LEMMA StepIsLockStep == [Next]_vars => [LockNext]_lockVars
  <1> SUFFICES ASSUME [Next]_vars
               PROVE  [LockNext]_lockVars
    OBVIOUS
  <1>1. ASSUME NEW p \in Procs, HookBegin(p) \/ WriterBegin(p) \/ RebuildRead(p)
        PROVE  UNCHANGED lockVars
    BY <1>1 DEF HookBegin, WriterBegin, RebuildRead
  <1>2. ASSUME NEW p \in Procs, HookStep(p) \/ WriterStep(p)
        PROVE  UNCHANGED lockVars
    BY <1>2 DEF HookStep, WriterStep, HookLoad, HookAppend, HookAppendFails,
                WriterAppend, WriterAppendFails, WriterLoad
  <1>3. ASSUME NEW p \in Procs, SharedStep(p)
        PROVE  OpenExclusive(p) \/ ReleaseLock(p) \/ LoseHandle(p) \/ UNCHANGED lockVars
    BY <1>3 DEF SharedStep, Acquire, GiveUp, LoadFails, Save, SaveFails, Release
  <1>4. ASSUME NEW p \in Procs, Crash(p)
        PROVE  LoseHandle(p)
    BY <1>4 DEF Crash
  <1>5. LoseCache => UNCHANGED lockVars
    BY DEF LoseCache
  <1>6. ASSUME NEW l \in LockPaths, RemoveLock(l)
        PROVE  RemoveAbandoned(l)
    BY <1>6 DEF RemoveLock
  <1>7. CASE UNCHANGED vars
    BY <1>7 DEF vars
  <1> QED
    BY <1>1, <1>2, <1>3, <1>4, <1>5, <1>6, <1>7, RolesCoverProcs
    DEF Next, Continue, LockNext

\* The store uses the lock as lib/lock.mjs offers it.
THEOREM StoreImplementsLock == Spec => LockSpec
  <1>1. Init => LockInit
    BY DEF Init
  <1> QED
    BY <1>1, StepIsLockStep, PTL DEF Spec, LockSpec

\* At most one process per lock path is between acquireLock and release().
THEOREM StoreExcludes == Spec => []Exclusive
  BY StoreImplementsLock, LockExcludes, PTL

-----------------------------------------------------------------------------
(* Types.                                                                  *)

LEMMA InitTypeOK == Init => TypeOK
  <1> SUFFICES ASSUME Init
               PROVE  TypeOK
    OBVIOUS
  <1>1. NoEvent \in Event /\ <<>> \in Seq(Event)
    BY DEF NoEvent, Event
  <1>2. LockTypeOK
    BY DEF Init, LockInit, LockTypeOK
  <1>3. log \in Seq(Event) /\ cache \in Seq(Event)
    BY <1>1 DEF Init
  <1>4. pc \in [Procs -> Steps]
    BY DEF Init, Steps
  <1>5. evt \in [Procs -> Event] /\ snap \in [Procs -> Seq(Event)]
    BY <1>1 DEF Init
  <1>6. cacheExists \in BOOLEAN /\ nextId \in Nat /\ acked \subseteq Nat
    BY DEF Init
  <1>7. holding = {p \in Procs : InCritical(p)}
    BY DEF Init, LockInit, InCritical, Critical
  <1> QED
    BY <1>2, <1>3, <1>4, <1>5, <1>6, <1>7 DEF TypeOK

LEMMA StepTypeOK == TypeOK /\ [Next]_vars => TypeOK'
  <1> SUFFICES ASSUME TypeOK, [Next]_vars
               PROVE  TypeOK'
    OBVIOUS
  <1> USE RolesCoverProcs, RolesAreDisjoint, LockOfType
  <1>e. NoEvent \in Event /\ <<>> \in Seq(Event)
    BY DEF NoEvent, Event
  <1>1. ASSUME NEW p \in Hooks, HookBegin(p)
        PROVE  TypeOK'
    BY <1>1 DEF HookBegin, Goto, TypeOK, LockTypeOK, lockVars, Steps, InCritical, Critical
  <1>2. ASSUME NEW p \in Writers, WriterBegin(p)
        PROVE  TypeOK'
    <2>0. PICK sid \in Sessions(Loaded) :
            \E csid \in CsidsOf(Loaded, sid) \union {NoCsid} :
              evt' = [evt EXCEPT ![p] = NewEvent("update", sid, csid)]
      BY <1>2 DEF WriterBegin
    <2>1. PICK csid \in CsidsOf(Loaded, sid) \union {NoCsid} :
            evt' = [evt EXCEPT ![p] = NewEvent("update", sid, csid)]
      BY <2>0
    <2>2. NewEvent("update", sid, csid) \in Event
      BY <2>1, LoadedType, SessionsType, NewEventType
    <2>3. evt' \in [Procs -> Event] /\ nextId' \in Nat
      BY <1>2, <2>1, <2>2 DEF TypeOK, WriterBegin
    <2> QED
      BY <1>2, <2>3 DEF WriterBegin, Goto, TypeOK, LockTypeOK, lockVars, Steps, InCritical, Critical
  <1>3. ASSUME NEW p \in Rebuilders, RebuildRead(p)
        PROVE  TypeOK'
    BY <1>3 DEF RebuildRead, Goto, TypeOK, LockTypeOK, lockVars, Steps, InCritical, Critical
  <1>4. ASSUME NEW p \in Procs, HookLoad(p)
        PROVE  TypeOK'
    <2>0. PICK csid \in Csids :
            \E sid \in IF OwnersOf(Loaded, csid) # {} THEN OwnersOf(Loaded, csid)
                      ELSE Sessions(Loaded) \union {nextId} :
              evt' = [evt EXCEPT ![p] = NewEvent("session_seen", sid, csid)]
      BY <1>4 DEF HookLoad
    <2>1. PICK sid \in IF OwnersOf(Loaded, csid) # {} THEN OwnersOf(Loaded, csid)
                      ELSE Sessions(Loaded) \union {nextId} :
            evt' = [evt EXCEPT ![p] = NewEvent("session_seen", sid, csid)]
      BY <2>0
    <2>2. sid \in Nat
      BY <2>1, LoadedType, SessionsType DEF TypeOK
    <2>3. NewEvent("session_seen", sid, csid) \in Event
      BY <2>1, <2>2, NewEventType
    <2>4. /\ evt' \in [Procs -> Event]
          /\ snap' \in [Procs -> Seq(Event)]
          /\ nextId' \in Nat
      BY <1>4, <2>1, <2>3, LoadedType DEF TypeOK, HookLoad
    <2> QED
      BY <1>4, <2>4 DEF HookLoad, Goto, TypeOK, LockTypeOK, lockVars, Steps, InCritical, Critical
  <1>5. ASSUME NEW p \in Procs, HookAppend(p)
        PROVE  TypeOK'
    <2>1. log' \in Seq(Event) /\ snap' \in [Procs -> Seq(Event)]
      BY <1>5, ToSetAppend, ApplyEventFolds DEF TypeOK, HookAppend
    <2> QED
      BY <1>5, <2>1 DEF HookAppend, Goto, TypeOK, LockTypeOK, lockVars, Steps, InCritical, Critical
  <1>6. ASSUME NEW p \in Procs, HookAppendFails(p)
        PROVE  TypeOK'
    BY <1>6 DEF HookAppendFails, Goto, TypeOK, LockTypeOK, lockVars, Steps, InCritical, Critical
  <1>7. ASSUME NEW p \in Procs, WriterAppend(p)
        PROVE  TypeOK'
    <2>1. log' \in Seq(Event)
      BY <1>7, ToSetAppend DEF TypeOK, WriterAppend
    <2> QED
      BY <1>7, <2>1 DEF WriterAppend, Goto, TypeOK, LockTypeOK, lockVars, Steps, InCritical, Critical
  <1>8. ASSUME NEW p \in Procs, WriterAppendFails(p)
        PROVE  TypeOK'
    BY <1>8, <1>e DEF WriterAppendFails, Leave, TypeOK, LockTypeOK, lockVars, Steps, InCritical, Critical
  <1>9. ASSUME NEW p \in Procs, WriterLoad(p)
        PROVE  TypeOK'
    <2>1. snap' \in [Procs -> Seq(Event)]
      BY <1>9, LoadedType, ApplyEventFolds DEF TypeOK, WriterLoad
    <2> QED
      BY <1>9, <2>1 DEF WriterLoad, Goto, TypeOK, LockTypeOK, lockVars, Steps, InCritical, Critical
  <1>10. ASSUME NEW p \in Procs, Acquire(p)
         PROVE  TypeOK'
    BY <1>10 DEF Acquire, OpenExclusive, Goto, TypeOK, LockTypeOK, Steps, InCritical, Critical
  <1>11. ASSUME NEW p \in Procs, GiveUp(p)
         PROVE  TypeOK'
    BY <1>11, <1>e DEF GiveUp, Leave, TypeOK, LockTypeOK, lockVars, Steps, InCritical, Critical
  <1>12. ASSUME NEW p \in Procs, Save(p)
         PROVE  TypeOK'
    <2>1. acked' \subseteq Nat /\ cache' \in Seq(Event)
      BY <1>12 DEF Save, TypeOK, Event
    <2> QED
      BY <1>12, <2>1 DEF Save, Goto, TypeOK, LockTypeOK, lockVars, Steps, InCritical, Critical
  <1>13. ASSUME NEW p \in Procs, SaveFails(p)
         PROVE  TypeOK'
    BY <1>13 DEF SaveFails, Goto, TypeOK, LockTypeOK, lockVars, Steps, InCritical, Critical
  <1>19. ASSUME NEW p \in Procs, LoadFails(p)
         PROVE  TypeOK'
    BY <1>19 DEF LoadFails, Goto, TypeOK, LockTypeOK, lockVars, Steps, InCritical, Critical
  <1>14. ASSUME NEW p \in Procs, Release(p)
         PROVE  TypeOK'
    BY <1>14, <1>e DEF Release, ReleaseLock, LoseHandle, Leave, TypeOK, LockTypeOK, Steps, InCritical, Critical
  <1>15. ASSUME NEW p \in Procs, Crash(p)
         PROVE  TypeOK'
    BY <1>15, <1>e DEF Crash, LoseHandle, Leave, TypeOK, LockTypeOK, Steps, InCritical, Critical
  <1>16. CASE LoseCache
    BY <1>16, <1>e DEF LoseCache, TypeOK, LockTypeOK, lockVars, InCritical
  <1>17. ASSUME NEW l \in LockPaths, RemoveLock(l)
         PROVE  TypeOK'
    BY <1>17 DEF RemoveLock, RemoveAbandoned, storeVars, TypeOK, LockTypeOK, InCritical
  <1>18. CASE UNCHANGED vars
    BY <1>18 DEF vars, lockVars, storeVars, TypeOK, LockTypeOK, InCritical
  <1> QED
    BY <1>1, <1>2, <1>3, <1>4, <1>5, <1>6, <1>7, <1>8, <1>9, <1>10, <1>11, <1>12,
       <1>13, <1>14, <1>15, <1>16, <1>17, <1>18, <1>19
    DEF Next, Continue, HookStep, WriterStep, SharedStep

\* Type correctness; in particular a process holds a live lock handle exactly
\* between acquireLock and release(), on every path through a call.
THEOREM StoreTypeOK == Spec => []TypeOK
  BY InitTypeOK, StepTypeOK, PTL DEF Spec

-----------------------------------------------------------------------------
(* Log first, cache second.                                                *)

\* Nothing anybody holds in memory, and no event a writer is about to fold,
\* is missing from the log.
MemoryIsLogged ==
  \A p \in Procs :
    /\ ToSet(snap[p]) \subseteq ToSet(log)
    /\ p \in Writers /\ pc[p] \in {"lock", "load", "save"} => evt[p] \in ToSet(log)

LoggedInv == CacheIsLogged /\ MemoryIsLogged

LEMMA InitLoggedInv == Init => LoggedInv
  BY ToSetEmpty, RolesCoverProcs
  DEF Init, LoggedInv, CacheIsLogged, MemoryIsLogged

LEMMA StepLoggedInv == TypeOK /\ LoggedInv /\ [Next]_vars => LoggedInv'
  <1> SUFFICES ASSUME TypeOK, LoggedInv, [Next]_vars
               PROVE  LoggedInv'
    OBVIOUS
  <1> USE RolesCoverProcs, RolesAreDisjoint, ToSetEmpty
  <1>l. ToSet(Loaded) \subseteq ToSet(log)
    BY DEF Loaded, LoggedInv, CacheIsLogged
  <1>1. ASSUME NEW p \in Hooks, HookBegin(p)
        PROVE  LoggedInv'
    BY <1>1 DEF HookBegin, Goto, TypeOK, LoggedInv, CacheIsLogged, MemoryIsLogged
  <1>2. ASSUME NEW p \in Writers, WriterBegin(p)
        PROVE  LoggedInv'
    <2>1. /\ \A q \in Procs : q # p => evt'[q] = evt[q] /\ pc'[q] = pc[q]
          /\ pc'[p] = "append"
      BY <1>2 DEF WriterBegin, Goto, TypeOK
    <2> QED
      BY <1>2, <2>1 DEF WriterBegin, LoggedInv, CacheIsLogged, MemoryIsLogged
  <1>3. ASSUME NEW p \in Rebuilders, RebuildRead(p)
        PROVE  LoggedInv'
    BY <1>3 DEF RebuildRead, Goto, TypeOK, LoggedInv, CacheIsLogged, MemoryIsLogged
  <1>4. ASSUME NEW p \in Procs, HookLoad(p)
        PROVE  LoggedInv'
    <2>1. /\ \A q \in Procs : q # p => evt'[q] = evt[q] /\ pc'[q] = pc[q]
          /\ p \notin Writers
          /\ snap' = [snap EXCEPT ![p] = Loaded]
          /\ UNCHANGED <<log, cache>>
      BY <1>4 DEF HookLoad, Goto, TypeOK
    <2> QED
      BY <1>l, <2>1 DEF TypeOK, LoggedInv, CacheIsLogged, MemoryIsLogged
  <1>5. ASSUME NEW p \in Procs, HookAppend(p)
        PROVE  LoggedInv'
    <2>1. /\ ToSet(log') = ToSet(log) \union {evt[p]}
          /\ ToSet(snap'[p]) = ToSet(snap[p]) \union {evt[p]}
      BY <1>5, ToSetAppend, ApplyEventFolds DEF TypeOK, HookAppend
    <2> QED
      BY <1>5, <2>1 DEF HookAppend, Goto, TypeOK, LoggedInv, CacheIsLogged, MemoryIsLogged
  <1>6. ASSUME NEW p \in Procs, HookAppendFails(p)
        PROVE  LoggedInv'
    BY <1>6 DEF HookAppendFails, Goto, TypeOK, LoggedInv, CacheIsLogged, MemoryIsLogged
  <1>7. ASSUME NEW p \in Procs, WriterAppend(p)
        PROVE  LoggedInv'
    <2>1. ToSet(log') = ToSet(log) \union {evt[p]}
      BY <1>7, ToSetAppend DEF TypeOK, WriterAppend
    <2> QED
      BY <1>7, <2>1 DEF WriterAppend, Goto, TypeOK, LoggedInv, CacheIsLogged, MemoryIsLogged
  <1>8. ASSUME NEW p \in Procs, WriterAppendFails(p)
        PROVE  LoggedInv'
    BY <1>8 DEF WriterAppendFails, Leave, TypeOK, LoggedInv, CacheIsLogged, MemoryIsLogged
  <1>9. ASSUME NEW p \in Procs, WriterLoad(p)
        PROVE  LoggedInv'
    <2>1. ToSet(snap'[p]) = ToSet(Loaded) \union {evt[p]}
      BY <1>9, LoadedType, ApplyEventFolds DEF TypeOK, WriterLoad
    <2>2. evt[p] \in ToSet(log)
      BY <1>9 DEF WriterLoad, LoggedInv, MemoryIsLogged
    <2> QED
      BY <1>9, <1>l, <2>1, <2>2 DEF WriterLoad, Goto, TypeOK, LoggedInv, CacheIsLogged, MemoryIsLogged
  <1>10. ASSUME NEW p \in Procs, Acquire(p)
         PROVE  LoggedInv'
    BY <1>10 DEF Acquire, Goto, TypeOK, LoggedInv, CacheIsLogged, MemoryIsLogged
  <1>11. ASSUME NEW p \in Procs, GiveUp(p)
         PROVE  LoggedInv'
    BY <1>11 DEF GiveUp, Leave, TypeOK, LoggedInv, CacheIsLogged, MemoryIsLogged
  <1>12. ASSUME NEW p \in Procs, Save(p)
         PROVE  LoggedInv'
    BY <1>12 DEF Save, Goto, TypeOK, LoggedInv, CacheIsLogged, MemoryIsLogged
  <1>13. ASSUME NEW p \in Procs, SaveFails(p)
         PROVE  LoggedInv'
    BY <1>13 DEF SaveFails, Goto, TypeOK, LoggedInv, CacheIsLogged, MemoryIsLogged
  <1>19. ASSUME NEW p \in Procs, LoadFails(p)
         PROVE  LoggedInv'
    BY <1>19 DEF LoadFails, Goto, TypeOK, LoggedInv, CacheIsLogged, MemoryIsLogged
  <1>14. ASSUME NEW p \in Procs, Release(p)
         PROVE  LoggedInv'
    BY <1>14 DEF Release, Leave, TypeOK, LoggedInv, CacheIsLogged, MemoryIsLogged
  <1>15. ASSUME NEW p \in Procs, Crash(p)
         PROVE  LoggedInv'
    BY <1>15 DEF Crash, Leave, TypeOK, LoggedInv, CacheIsLogged, MemoryIsLogged
  <1>16. CASE LoseCache
    BY <1>16 DEF LoseCache, LoggedInv, CacheIsLogged, MemoryIsLogged
  <1>17. ASSUME NEW l \in LockPaths, RemoveLock(l)
         PROVE  LoggedInv'
    BY <1>17 DEF RemoveLock, storeVars, LoggedInv, CacheIsLogged, MemoryIsLogged
  <1>18. CASE UNCHANGED vars
    BY <1>18 DEF vars, storeVars, LoggedInv, CacheIsLogged, MemoryIsLogged
  <1> QED
    BY <1>1, <1>2, <1>3, <1>4, <1>5, <1>6, <1>7, <1>8, <1>9, <1>10, <1>11, <1>12,
       <1>13, <1>14, <1>15, <1>16, <1>17, <1>18, <1>19
    DEF Next, Continue, HookStep, WriterStep, SharedStep

LEMMA StoreLoggedInv == Spec => []LoggedInv
  BY InitTypeOK, StepTypeOK, InitLoggedInv, StepLoggedInv, PTL DEF Spec

\* The cache shows nothing that the log does not hold, whatever crashes,
\* times out, fails, is rebuilt, or is removed, and on any lock paths.
THEOREM StoreCacheIsLogged == Spec => []CacheIsLogged
  BY StoreLoggedInv, PTL DEF LoggedInv

-----------------------------------------------------------------------------
(* No acknowledged update is lost, as long as nobody rebuilds and all       *)
(* processes resolve to one lock path (the runs rebuild_race and lock_drift *)
(* show that neither hypothesis can be dropped).                            *)

Ids(proj) == {e.id : e \in ToSet(proj)}

OneLockPath == \A p, q \in Procs : LockOf[p] = LockOf[q]

\* What the process about to save holds is no older than the last save.
SaverIsCurrent ==
  \A p \in Procs :
    /\ InCritical(p) /\ pc[p] \in {"append", "save"} => acked \subseteq Ids(snap[p])
    /\ pc[p] = "save" => evt[p] \in ToSet(snap[p])

AckedInv ==
  /\ acked \subseteq Ids(log)
  /\ AckedIsFolded
  /\ SaverIsCurrent

LEMMA InitAckedInv == Init => AckedInv
  BY DEF Init, AckedInv, AckedIsFolded, SaverIsCurrent, InCritical, Critical

LEMMA IdsGrow ==
  ASSUME NEW s, NEW t, ToSet(s) \subseteq ToSet(t)
  PROVE  Ids(s) \subseteq Ids(t)
  BY DEF Ids

\* Where only one process at a time can be inside, another one is outside.
LEMMA OthersAreOutside ==
  ASSUME TypeOK, Exclusive, OneLockPath, NEW p \in Procs, NEW q \in Procs,
         InCritical(p), InCritical(q)
  PROVE  p = q
  BY DEF TypeOK, Exclusive, OneLockPath

LEMMA StepAckedInv ==
  ASSUME Rebuilders = {}, OneLockPath
  PROVE  TypeOK /\ Exclusive /\ LoggedInv /\ AckedInv /\ [Next]_vars => AckedInv'
  <1> SUFFICES ASSUME TypeOK, Exclusive, LoggedInv, AckedInv, [Next]_vars
               PROVE  AckedInv'
    OBVIOUS
  <1> USE RolesCoverProcs, RolesAreDisjoint DEF AckedInv, AckedIsFolded, SaverIsCurrent
  <1>l. acked \subseteq Ids(Loaded)
    BY DEF Loaded, Ids
  <1>1. ASSUME NEW p \in Hooks, HookBegin(p)
        PROVE  AckedInv'
    BY <1>1 DEF HookBegin, Goto, TypeOK, InCritical, Critical, Ids
  <1>2. ASSUME NEW p \in Writers, WriterBegin(p)
        PROVE  AckedInv'
    <2>1. /\ \A q \in Procs : q # p => evt'[q] = evt[q] /\ pc'[q] = pc[q]
          /\ pc'[p] = "append"
          /\ p \notin Hooks
          /\ UNCHANGED <<log, cacheExists, cache, snap, acked>>
      BY <1>2 DEF WriterBegin, Goto, TypeOK
    <2> QED
      BY <2>1 DEF InCritical, Critical, Ids
  <1>4. ASSUME NEW p \in Procs, HookLoad(p)
        PROVE  AckedInv'
    <2>1. /\ \A q \in Procs : q # p => evt'[q] = evt[q] /\ pc'[q] = pc[q]
          /\ pc'[p] = "append"
          /\ snap' = [snap EXCEPT ![p] = Loaded]
          /\ UNCHANGED <<log, cacheExists, cache, acked>>
      BY <1>4 DEF HookLoad, Goto, TypeOK
    <2>2. snap'[p] = Loaded /\ \A q \in Procs : q # p => snap'[q] = snap[q]
      BY <2>1 DEF TypeOK
    <2> QED
      BY <1>l, <2>1, <2>2 DEF InCritical, Critical, Ids
  <1>5. ASSUME NEW p \in Procs, HookAppend(p)
        PROVE  AckedInv'
    <2>1. /\ ToSet(log') = ToSet(log) \union {evt[p]}
          /\ ToSet(snap'[p]) = ToSet(snap[p]) \union {evt[p]}
      BY <1>5, ToSetAppend, ApplyEventFolds DEF TypeOK, HookAppend
    <2>2. Ids(log) \subseteq Ids(log') /\ Ids(snap[p]) \subseteq Ids(snap'[p])
      BY <2>1, IdsGrow DEF Ids
    <2>3. acked \subseteq Ids(snap[p])
      BY <1>5 DEF HookAppend, InCritical
    <2>4. \A q \in Procs : q # p => snap'[q] = snap[q] /\ pc'[q] = pc[q]
      BY <1>5 DEF HookAppend, Goto, TypeOK
    <2>5. acked' \subseteq Ids(log') /\ AckedIsFolded'
      BY <1>5, <2>2 DEF HookAppend, Ids
    <2>6. evt' = evt /\ acked' = acked
      BY <1>5 DEF HookAppend
    <2>7. ASSUME NEW q \in Procs
          PROVE  /\ InCritical(q)' /\ pc'[q] \in {"append", "save"} => acked' \subseteq Ids(snap'[q])
                 /\ pc'[q] = "save" => evt'[q] \in ToSet(snap'[q])
      <3>1. CASE q = p
        BY <2>1, <2>2, <2>3, <2>6, <3>1
      <3>2. CASE q # p
        BY <2>4, <2>6, <3>2 DEF InCritical
      <3> QED
        BY <3>1, <3>2
    <2> QED
      BY <2>5, <2>7 DEF Ids
  <1>6. ASSUME NEW p \in Procs, HookAppendFails(p)
        PROVE  AckedInv'
    BY <1>6 DEF HookAppendFails, Goto, TypeOK, InCritical, Critical, Ids
  <1>7. ASSUME NEW p \in Procs, WriterAppend(p)
        PROVE  AckedInv'
    <2>1. ToSet(log') = ToSet(log) \union {evt[p]}
      BY <1>7, ToSetAppend DEF TypeOK, WriterAppend
    <2>2. Ids(log) \subseteq Ids(log')
      BY <2>1 DEF Ids
    <2> QED
      BY <1>7, <2>2 DEF WriterAppend, Goto, TypeOK, InCritical, Critical, Ids
  <1>8. ASSUME NEW p \in Procs, WriterAppendFails(p)
        PROVE  AckedInv'
    BY <1>8 DEF WriterAppendFails, Leave, TypeOK, InCritical, Critical, Ids
  <1>9. ASSUME NEW p \in Procs, WriterLoad(p)
        PROVE  AckedInv'
    <2>1. ToSet(snap'[p]) = ToSet(Loaded) \union {evt[p]}
      BY <1>9, LoadedType, ApplyEventFolds DEF TypeOK, WriterLoad
    <2>2. Ids(Loaded) \subseteq Ids(snap'[p])
      BY <2>1 DEF Ids
    <2>3. \A q \in Procs : q # p => snap'[q] = snap[q] /\ pc'[q] = pc[q]
      BY <1>9 DEF WriterLoad, Goto, TypeOK
    <2>4. UNCHANGED <<log, cacheExists, cache, evt, acked>>
      BY <1>9 DEF WriterLoad
    <2> QED
      BY <1>l, <2>1, <2>2, <2>3, <2>4 DEF InCritical, Critical, Ids
  <1>10. ASSUME NEW p \in Procs, Acquire(p)
         PROVE  AckedInv'
    BY <1>10 DEF Acquire, Goto, TypeOK, InCritical, Critical, Ids
  <1>11. ASSUME NEW p \in Procs, GiveUp(p)
         PROVE  AckedInv'
    BY <1>11 DEF GiveUp, Leave, TypeOK, InCritical, Critical, Ids
  <1>12. ASSUME NEW p \in Procs, Save(p)
         PROVE  AckedInv'
    <2>1. /\ acked' = acked \union {evt[p].id}
          /\ cache' = snap[p]
          /\ UNCHANGED <<log, evt, snap>>
          /\ pc'[p] = "release"
          /\ \A q \in Procs : q # p => pc'[q] = pc[q]
      BY <1>12 DEF Save, Goto, TypeOK
    <2>2. evt[p] \in ToSet(snap[p]) /\ acked \subseteq Ids(snap[p])
      BY <1>12 DEF Save, InCritical, Critical
    <2>3. acked' \subseteq Ids(snap[p])
      BY <2>1, <2>2 DEF Ids
    <2>4. Ids(snap[p]) \subseteq Ids(log)
      BY IdsGrow DEF LoggedInv, MemoryIsLogged
    <2>5. \A q \in Procs : q # p => ~InCritical(q)
      BY <1>12, OthersAreOutside DEF Save, InCritical, Critical
    <2>6. \A q \in Procs : InCritical(q)' => q = p
      BY <2>1, <2>5 DEF InCritical
    <2>7. SaverIsCurrent'
      BY <2>1, <2>6 DEF InCritical, Critical
    <2> QED
      BY <2>1, <2>3, <2>4, <2>7 DEF Ids
  <1>13. ASSUME NEW p \in Procs, SaveFails(p)
         PROVE  AckedInv'
    BY <1>13 DEF SaveFails, Goto, TypeOK, InCritical, Critical, Ids
  <1>19. ASSUME NEW p \in Procs, LoadFails(p)
         PROVE  AckedInv'
    BY <1>19 DEF LoadFails, Goto, TypeOK, InCritical, Critical, Ids
  <1>14. ASSUME NEW p \in Procs, Release(p)
         PROVE  AckedInv'
    BY <1>14 DEF Release, Leave, TypeOK, InCritical, Critical, Ids
  <1>15. ASSUME NEW p \in Procs, Crash(p)
         PROVE  AckedInv'
    BY <1>15 DEF Crash, Leave, TypeOK, InCritical, Critical, Ids
  <1>16. CASE LoseCache
    BY <1>16 DEF LoseCache, InCritical, Ids
  <1>17. ASSUME NEW l \in LockPaths, RemoveLock(l)
         PROVE  AckedInv'
    BY <1>17 DEF RemoveLock, storeVars, InCritical, Ids
  <1>18. CASE UNCHANGED vars
    BY <1>18 DEF vars, storeVars, InCritical, Ids
  <1> QED
    BY <1>1, <1>2, <1>4, <1>5, <1>6, <1>7, <1>8, <1>9, <1>10, <1>11, <1>12,
       <1>13, <1>14, <1>15, <1>16, <1>17, <1>18, <1>19
    DEF Next, Continue, HookStep, WriterStep, SharedStep

\* No update whose call answered { ok: true } is ever missing from the cache.
THEOREM StoreAckedIsFolded ==
  ASSUME Rebuilders = {}, OneLockPath
  PROVE  Spec => []AckedIsFolded
  <1>1. TypeOK /\ Exclusive /\ LoggedInv /\ AckedInv /\ [Next]_vars => AckedInv'
    BY StepAckedInv
  <1>2. AckedInv => AckedIsFolded
    BY DEF AckedInv
  <1> QED
    BY InitAckedInv, StoreTypeOK, StoreExcludes, StoreLoggedInv, <1>1, <1>2, PTL DEF Spec

-----------------------------------------------------------------------------
(* Saving never takes an event out of the cache, under the same hypotheses. *)

\* What the process inside has in memory is at least what the cache shows.
SaverHasCache ==
  \A p \in Procs :
    InCritical(p) /\ pc[p] \in {"append", "save"} /\ cacheExists
      => ToSet(cache) \subseteq ToSet(snap[p])

LEMMA InitSaverHasCache == Init => SaverHasCache
  BY DEF Init, SaverHasCache, InCritical, Critical

LEMMA StepSaverHasCache ==
  ASSUME Rebuilders = {}, OneLockPath
  PROVE  TypeOK /\ Exclusive /\ SaverHasCache /\ [Next]_vars => SaverHasCache'
  <1> SUFFICES ASSUME TypeOK, Exclusive, SaverHasCache, [Next]_vars
               PROVE  SaverHasCache'
    OBVIOUS
  <1> USE RolesCoverProcs, RolesAreDisjoint DEF SaverHasCache
  <1>l. cacheExists => Loaded = cache
    BY DEF Loaded
  <1>1. ASSUME NEW p \in Hooks, HookBegin(p)
        PROVE  SaverHasCache'
    BY <1>1 DEF HookBegin, Goto, TypeOK, InCritical, Critical
  <1>2. ASSUME NEW p \in Writers, WriterBegin(p)
        PROVE  SaverHasCache'
    <2>1. /\ \A q \in Procs : q # p => pc'[q] = pc[q]
          /\ pc'[p] = "append"
          /\ p \notin Hooks
          /\ UNCHANGED <<cacheExists, cache, snap>>
      BY <1>2 DEF WriterBegin, Goto, TypeOK
    <2> QED
      BY <2>1 DEF InCritical, Critical
  <1>4. ASSUME NEW p \in Procs, HookLoad(p)
        PROVE  SaverHasCache'
    <2>1. /\ \A q \in Procs : q # p => pc'[q] = pc[q] /\ snap'[q] = snap[q]
          /\ snap'[p] = Loaded
          /\ UNCHANGED <<cacheExists, cache>>
      BY <1>4 DEF HookLoad, Goto, TypeOK
    <2> QED
      BY <1>l, <2>1 DEF InCritical
  <1>5. ASSUME NEW p \in Procs, HookAppend(p)
        PROVE  SaverHasCache'
    <2>1. ToSet(snap[p]) \subseteq ToSet(snap'[p])
      BY <1>5, ApplyEventFolds DEF TypeOK, HookAppend
    <2>2. /\ \A q \in Procs : q # p => pc'[q] = pc[q] /\ snap'[q] = snap[q]
          /\ InCritical(p) /\ pc[p] = "append"
          /\ UNCHANGED <<cacheExists, cache>>
      BY <1>5 DEF HookAppend, Goto, TypeOK, InCritical
    <2> QED
      BY <2>1, <2>2 DEF InCritical
  <1>6. ASSUME NEW p \in Procs, HookAppendFails(p) \/ WriterAppend(p)
        PROVE  SaverHasCache'
    BY <1>6 DEF HookAppendFails, WriterAppend, Goto, TypeOK, InCritical, Critical
  <1>8. ASSUME NEW p \in Procs, WriterAppendFails(p)
        PROVE  SaverHasCache'
    BY <1>8 DEF WriterAppendFails, Leave, TypeOK, InCritical, Critical
  <1>9. ASSUME NEW p \in Procs, WriterLoad(p)
        PROVE  SaverHasCache'
    <2>1. ToSet(Loaded) \subseteq ToSet(snap'[p])
      BY <1>9, LoadedType, ApplyEventFolds DEF TypeOK, WriterLoad
    <2>2. /\ \A q \in Procs : q # p => pc'[q] = pc[q] /\ snap'[q] = snap[q]
          /\ UNCHANGED <<cacheExists, cache>>
      BY <1>9 DEF WriterLoad, Goto, TypeOK
    <2> QED
      BY <1>l, <2>1, <2>2 DEF InCritical
  <1>10. ASSUME NEW p \in Procs, Acquire(p)
         PROVE  SaverHasCache'
    BY <1>10 DEF Acquire, Goto, TypeOK, InCritical, Critical
  <1>11. ASSUME NEW p \in Procs, GiveUp(p) \/ Release(p)
         PROVE  SaverHasCache'
    BY <1>11 DEF GiveUp, Release, Leave, TypeOK, InCritical, Critical
  <1>12. ASSUME NEW p \in Procs, Save(p)
         PROVE  SaverHasCache'
    <2>1. \A q \in Procs : q # p => ~InCritical(q)
      BY <1>12, OthersAreOutside DEF Save, InCritical, Critical
    <2>2. pc'[p] = "release" /\ \A q \in Procs : q # p => pc'[q] = pc[q]
      BY <1>12 DEF Save, Goto, TypeOK
    <2> QED
      BY <2>1, <2>2 DEF InCritical, Critical
  <1>13. ASSUME NEW p \in Procs, SaveFails(p) \/ LoadFails(p)
         PROVE  SaverHasCache'
    BY <1>13 DEF SaveFails, LoadFails, Goto, TypeOK, InCritical, Critical
  <1>15. ASSUME NEW p \in Procs, Crash(p)
         PROVE  SaverHasCache'
    BY <1>15 DEF Crash, Leave, TypeOK, InCritical, Critical
  <1>16. CASE LoseCache
    BY <1>16 DEF LoseCache
  <1>17. ASSUME NEW l \in LockPaths, RemoveLock(l)
         PROVE  SaverHasCache'
    BY <1>17 DEF RemoveLock, storeVars, InCritical
  <1>18. CASE UNCHANGED vars
    BY <1>18 DEF vars, storeVars, InCritical
  <1> QED
    BY <1>1, <1>2, <1>4, <1>5, <1>6, <1>8, <1>9, <1>10, <1>11, <1>12,
       <1>13, <1>15, <1>16, <1>17, <1>18
    DEF Next, Continue, HookStep, WriterStep, SharedStep

\* Only Save writes over a cache that is there.
LEMMA OnlySaveWrites ==
  ASSUME [Next]_vars, cacheExists, cacheExists', cache' # cache
  PROVE  \E p \in Procs : Save(p)
  <1>1. ASSUME NEW p \in Procs, HookBegin(p) \/ WriterBegin(p) \/ RebuildRead(p)
        PROVE  FALSE
    BY <1>1 DEF HookBegin, WriterBegin, RebuildRead
  <1>2. ASSUME NEW p \in Procs, HookStep(p) \/ WriterStep(p) \/ Crash(p)
        PROVE  FALSE
    BY <1>2 DEF HookStep, WriterStep, HookLoad, HookAppend, HookAppendFails,
                WriterAppend, WriterAppendFails, WriterLoad, Crash
  <1>3. ASSUME NEW p \in Procs, SharedStep(p)
        PROVE  Save(p)
    BY <1>3 DEF SharedStep, Acquire, GiveUp, LoadFails, SaveFails, Release
  <1>4. ~LoseCache /\ ~UNCHANGED vars /\ \A l \in LockPaths : ~RemoveLock(l)
    BY DEF LoseCache, RemoveLock, vars, storeVars
  <1> QED
    BY <1>1, <1>2, <1>3, <1>4, RolesCoverProcs DEF Next, Continue

\* No event that the cache has shown disappears from it while it exists: a
\* later save, by whichever process, keeps it.
THEOREM StoreCacheOnlyGrows ==
  ASSUME Rebuilders = {}, OneLockPath
  PROVE  Spec => CacheOnlyGrows
  <1>1. TypeOK /\ Exclusive /\ SaverHasCache /\ [Next]_vars => SaverHasCache'
    BY StepSaverHasCache
  <1>2. SaverHasCache /\ [Next]_vars
          => [cacheExists /\ cacheExists' => ToSet(cache) \subseteq ToSet(cache')]_vars
    <2> SUFFICES ASSUME SaverHasCache, [Next]_vars, cacheExists, cacheExists',
                        cache' # cache
                 PROVE  ToSet(cache) \subseteq ToSet(cache')
      OBVIOUS
    <2>1. PICK p \in Procs : Save(p)
      BY OnlySaveWrites
    <2> QED
      BY <2>1 DEF Save, SaverHasCache, InCritical, Critical
  <1> QED
    BY InitSaverHasCache, StoreTypeOK, StoreExcludes, <1>1, <1>2, PTL
    DEF Spec, CacheOnlyGrows

-----------------------------------------------------------------------------
(* An observation is folded once.                                          *)

SeenOnce(s) ==
  \A i, j \in DOMAIN s : s[i] = s[j] /\ s[i].op = "session_seen" => i = j

\* The event a process is about to append: its id is newer than the log, and
\* than what any other process is about to append.
Fresh(p) ==
  /\ evt[p].id < nextId
  /\ pc[p] = "append" =>
       /\ evt[p] \notin ToSet(log)
       /\ \A q \in Procs : pc[q] = "append" /\ evt[q] = evt[p] => q = p

SeenInv ==
  /\ nextId > 0
  /\ \A e \in ToSet(log) : e.id < nextId
  /\ SeenOnce(log) /\ SeenOnce(cache)
  /\ \A p \in Procs : SeenOnce(snap[p]) /\ Fresh(p)
  /\ \A p \in Writers : evt[p].op = "update"

LEMMA SeenOnceAppend ==
  ASSUME NEW s \in Seq(Event), NEW e \in Event, SeenOnce(s),
         e \notin ToSet(s) \/ e.op = "update"
  PROVE  SeenOnce(Append(s, e)) /\ SeenOnce(ApplyEvent(s, e))
  <1>1. SeenOnce(Append(s, e))
    <2> SUFFICES ASSUME NEW i \in DOMAIN Append(s, e), NEW j \in DOMAIN Append(s, e),
                        Append(s, e)[i] = Append(s, e)[j],
                        Append(s, e)[i].op = "session_seen"
                 PROVE  i = j
      BY DEF SeenOnce
    <2>1. /\ DOMAIN Append(s, e) = 1 .. Len(s) + 1
          /\ DOMAIN s = 1 .. Len(s)
          /\ Len(s) \in Nat
          /\ \A k \in 1 .. Len(s) : Append(s, e)[k] = s[k]
          /\ Append(s, e)[Len(s) + 1] = e
      OBVIOUS
    <2>2. \A k \in 1 .. Len(s) : s[k] \in ToSet(s)
      BY <2>1 DEF ToSet
    <2>3. CASE i \in 1 .. Len(s) /\ j \in 1 .. Len(s)
      BY <2>1, <2>3 DEF SeenOnce
    <2>4. CASE i = Len(s) + 1 /\ j = Len(s) + 1
      BY <2>4
    <2>5. CASE i = Len(s) + 1 /\ j \in 1 .. Len(s)
      BY <2>1, <2>2, <2>5
    <2>6. CASE i \in 1 .. Len(s) /\ j = Len(s) + 1
      BY <2>1, <2>2, <2>6
    <2> QED
      BY <2>1, <2>3, <2>4, <2>5, <2>6
  <1> QED
    BY <1>1 DEF ApplyEvent

LEMMA InitSeenInv == Init => SeenInv
  BY ToSetEmpty, RolesCoverProcs
  DEF Init, SeenInv, SeenOnce, Fresh, NoEvent

\* A call that begins or looks up takes the next id for its event.
LEMMA NewEventIsFresh ==
  ASSUME TypeOK, SeenInv, NEW p \in Procs, NEW e \in Event, e.id = nextId,
         p \in Writers => e.op = "update",
         evt' = [evt EXCEPT ![p] = e], nextId' = nextId + 1,
         pc' = [pc EXCEPT ![p] = "append"], UNCHANGED <<log, cache>>,
         \A q \in Procs : SeenOnce(snap'[q])
  PROVE  SeenInv'
  <1>1. /\ evt'[p] = e /\ \A q \in Procs : q # p => evt'[q] = evt[q]
        /\ pc'[p] = "append" /\ \A q \in Procs : q # p => pc'[q] = pc[q]
    BY DEF TypeOK
  <1>2. /\ nextId \in Nat
        /\ \A q \in Procs : evt[q] \in Event /\ evt[q].id \in Nat /\ evt[q].id < nextId
        /\ \A f \in ToSet(log) : f.id \in Nat /\ f.id < nextId
    <2>1. ToSet(log) \subseteq Event
      BY DEF ToSet, TypeOK
    <2> QED
      BY <2>1 DEF TypeOK, SeenInv, Fresh, Event
  <1>3. e \notin ToSet(log) /\ \A q \in Procs : evt[q] # e
    BY <1>2
  <1>4. ASSUME NEW q \in Procs
        PROVE  Fresh(q)'
    <2>1. evt'[q].id < nextId'
      BY <1>1, <1>2
    <2>2. pc'[q] = "append" => evt'[q] \notin ToSet(log')
      BY <1>1, <1>3 DEF SeenInv, Fresh
    <2>3. ASSUME NEW r \in Procs, pc'[q] = "append", pc'[r] = "append", evt'[r] = evt'[q]
          PROVE  r = q
      BY <1>1, <1>3, <2>3 DEF SeenInv, Fresh
    <2> QED
      BY <2>1, <2>2, <2>3 DEF Fresh
  <1>5. \A f \in ToSet(log') : f.id < nextId'
    BY <1>2
  <1>6. \A q \in Writers : evt'[q].op = "update"
    BY <1>1, RolesCoverProcs DEF SeenInv
  <1> QED
    BY <1>2, <1>4, <1>5, <1>6 DEF SeenInv

\* The event that is appended leaves the ids of the log behind nextId.
LEMMA AppendKeepsSeenInv ==
  ASSUME TypeOK, SeenInv, NEW p \in Procs, NEW step \in Steps, pc[p] = "append",
         step # "append",
         log' = Append(log, evt[p]), pc' = [pc EXCEPT ![p] = step],
         UNCHANGED <<cache, evt, nextId>>,
         \A q \in Procs : SeenOnce(snap'[q])
  PROVE  SeenInv'
  <1>1. ToSet(log') = ToSet(log) \union {evt[p]} /\ evt[p] \in Event
    BY ToSetAppend DEF TypeOK
  <1>2. SeenOnce(log')
    BY SeenOnceAppend DEF TypeOK, SeenInv, Fresh
  <1>3. /\ pc'[p] # "append" /\ \A q \in Procs : q # p => pc'[q] = pc[q]
    BY DEF TypeOK
  <1>4. ASSUME NEW q \in Procs
        PROVE  Fresh(q)'
    BY <1>1, <1>3 DEF SeenInv, Fresh
  <1>5. \A e \in ToSet(log') : e.id < nextId'
    BY <1>1 DEF SeenInv, Fresh
  <1> QED
    BY <1>2, <1>4, <1>5 DEF SeenInv

\* A step that leaves, or that goes on without an event being made or appended.
LEMMA OtherStepKeepsSeenInv ==
  ASSUME TypeOK, SeenInv, NEW p \in Procs, UNCHANGED <<log, nextId>>,
         \A q \in Procs : q # p => pc'[q] = pc[q] /\ evt'[q] = evt[q],
         pc'[p] # "append",
         evt'[p] \in {evt[p], NoEvent},
         SeenOnce(cache'), \A q \in Procs : SeenOnce(snap'[q])
  PROVE  SeenInv'
  <1>1. NoEvent.id = 0 /\ NoEvent.op = "update"
    BY DEF NoEvent
  <1>2. ASSUME NEW q \in Procs
        PROVE  Fresh(q)'
    BY <1>1 DEF TypeOK, SeenInv, Fresh
  <1> QED
    BY <1>1, <1>2, RolesCoverProcs DEF SeenInv

LEMMA StepSeenInv == TypeOK /\ LoggedInv /\ SeenInv /\ [Next]_vars => SeenInv'
  <1> SUFFICES ASSUME TypeOK, LoggedInv, SeenInv, [Next]_vars
               PROVE  SeenInv'
    OBVIOUS
  <1> USE RolesCoverProcs, RolesAreDisjoint
  <1>e. SeenOnce(<<>>)
    BY DEF SeenOnce
  <1>l. SeenOnce(Loaded)
    BY DEF Loaded, SeenInv
  <1>s. \A q \in Procs : SeenOnce(snap[q])
    BY DEF SeenInv
  <1>1. ASSUME NEW p \in Hooks, HookBegin(p)
        PROVE  SeenInv'
    <2>1. /\ \A q \in Procs : q # p => pc'[q] = pc[q]
          /\ pc'[p] # "append"
          /\ UNCHANGED <<log, cache, evt, snap, nextId>>
      BY <1>1 DEF HookBegin, Goto, TypeOK
    <2> QED
      BY <1>s, <2>1, OtherStepKeepsSeenInv DEF SeenInv
  <1>2. ASSUME NEW p \in Writers, WriterBegin(p)
        PROVE  SeenInv'
    <2>0. PICK sid \in Sessions(Loaded) :
            \E csid \in CsidsOf(Loaded, sid) \union {NoCsid} :
              evt' = [evt EXCEPT ![p] = NewEvent("update", sid, csid)]
      BY <1>2 DEF WriterBegin
    <2>1. PICK csid \in CsidsOf(Loaded, sid) \union {NoCsid} :
            evt' = [evt EXCEPT ![p] = NewEvent("update", sid, csid)]
      BY <2>0
    <2> DEFINE e == NewEvent("update", sid, csid)
    <2>2. e \in Event
      BY <2>1, LoadedType, SessionsType, NewEventType
    <2>3. e.id = nextId /\ e.op = "update"
      BY DEF NewEvent
    <2>4. evt' = [evt EXCEPT ![p] = e]
      BY <2>1
    <2> HIDE DEF e
    <2>5. /\ nextId' = nextId + 1
          /\ pc' = [pc EXCEPT ![p] = "append"]
          /\ UNCHANGED <<log, cache, snap>>
      BY <1>2 DEF WriterBegin, Goto
    <2> QED
      BY <1>s, <2>2, <2>3, <2>4, <2>5, NewEventIsFresh
  <1>3. ASSUME NEW p \in Rebuilders, RebuildRead(p)
        PROVE  SeenInv'
    <2>1. /\ \A q \in Procs : q # p => pc'[q] = pc[q] /\ snap'[q] = snap[q]
          /\ snap'[p] = log
          /\ pc'[p] # "append"
          /\ UNCHANGED <<log, cache, evt, nextId>>
      BY <1>3 DEF RebuildRead, Goto, TypeOK
    <2>2. \A q \in Procs : SeenOnce(snap'[q])
      BY <1>s, <2>1 DEF SeenInv
    <2> QED
      BY <2>1, <2>2, OtherStepKeepsSeenInv DEF SeenInv
  <1>4. ASSUME NEW p \in Procs, HookLoad(p)
        PROVE  SeenInv'
    <2>0. PICK csid \in Csids :
            \E sid \in IF OwnersOf(Loaded, csid) # {} THEN OwnersOf(Loaded, csid)
                      ELSE Sessions(Loaded) \union {nextId} :
              evt' = [evt EXCEPT ![p] = NewEvent("session_seen", sid, csid)]
      BY <1>4 DEF HookLoad
    <2>1. PICK sid \in IF OwnersOf(Loaded, csid) # {} THEN OwnersOf(Loaded, csid)
                      ELSE Sessions(Loaded) \union {nextId} :
            evt' = [evt EXCEPT ![p] = NewEvent("session_seen", sid, csid)]
      BY <2>0
    <2> DEFINE e == NewEvent("session_seen", sid, csid)
    <2>2. sid \in Nat
      BY <2>1, LoadedType, SessionsType DEF TypeOK
    <2>3. e \in Event
      BY <2>1, <2>2, NewEventType
    <2>4. e.id = nextId /\ p \notin Writers
      BY <1>4 DEF NewEvent, HookLoad
    <2>5. evt' = [evt EXCEPT ![p] = e]
      BY <2>1
    <2> HIDE DEF e
    <2>6. /\ nextId' = nextId + 1
          /\ pc' = [pc EXCEPT ![p] = "append"]
          /\ UNCHANGED <<log, cache>>
          /\ \A q \in Procs : snap'[q] \in {snap[q], Loaded}
      BY <1>4 DEF HookLoad, Goto, TypeOK
    <2>7. \A q \in Procs : SeenOnce(snap'[q])
      BY <1>s, <1>l, <2>6
    <2> QED
      BY <2>3, <2>4, <2>5, <2>6, <2>7, NewEventIsFresh
  <1>5. ASSUME NEW p \in Procs, HookAppend(p)
        PROVE  SeenInv'
    <2>1. evt[p] \notin ToSet(snap[p])
      BY <1>5 DEF HookAppend, SeenInv, Fresh, LoggedInv, MemoryIsLogged
    <2>2. SeenOnce(ApplyEvent(snap[p], evt[p]))
      BY <1>s, <2>1, SeenOnceAppend DEF TypeOK
    <2>3. \A q \in Procs : snap'[q] \in {snap[q], ApplyEvent(snap[p], evt[p])}
      BY <1>5 DEF HookAppend, TypeOK
    <2>4. \A q \in Procs : SeenOnce(snap'[q])
      BY <1>s, <2>2, <2>3
    <2>5. /\ pc[p] = "append" /\ "save" \in Steps
          /\ log' = Append(log, evt[p]) /\ pc' = [pc EXCEPT ![p] = "save"]
          /\ UNCHANGED <<cache, evt, nextId>>
      BY <1>5 DEF HookAppend, Goto, Steps
    <2> QED
      BY <2>4, <2>5, AppendKeepsSeenInv
  <1>7. ASSUME NEW p \in Procs, WriterAppend(p)
        PROVE  SeenInv'
    <2>5. /\ pc[p] = "append" /\ "lock" \in Steps
          /\ log' = Append(log, evt[p]) /\ pc' = [pc EXCEPT ![p] = "lock"]
          /\ UNCHANGED <<cache, evt, snap, nextId>>
      BY <1>7 DEF WriterAppend, Goto, Steps
    <2> QED
      BY <1>s, <2>5, AppendKeepsSeenInv
  <1>9. ASSUME NEW p \in Procs, WriterLoad(p)
        PROVE  SeenInv'
    <2>1. evt[p].op = "update" /\ evt[p] \in Event
      BY <1>9 DEF WriterLoad, SeenInv, TypeOK
    <2>2. SeenOnce(ApplyEvent(Loaded, evt[p]))
      BY <1>l, <2>1, LoadedType, SeenOnceAppend
    <2>3. /\ \A q \in Procs : snap'[q] \in {snap[q], ApplyEvent(Loaded, evt[p])}
          /\ \A q \in Procs : q # p => pc'[q] = pc[q]
          /\ pc'[p] # "append"
          /\ UNCHANGED <<log, cache, evt, nextId>>
      BY <1>9 DEF WriterLoad, Goto, TypeOK
    <2>4. \A q \in Procs : SeenOnce(snap'[q])
      BY <1>s, <2>2, <2>3
    <2> QED
      BY <2>3, <2>4, OtherStepKeepsSeenInv DEF SeenInv
  <1>10. ASSUME NEW p \in Procs,
                Acquire(p) \/ LoadFails(p) \/ SaveFails(p) \/ HookAppendFails(p)
         PROVE  SeenInv'
    <2>1. /\ \A q \in Procs : q # p => pc'[q] = pc[q]
          /\ pc'[p] # "append"
          /\ UNCHANGED <<log, cache, evt, snap, nextId>>
      BY <1>10 DEF Acquire, LoadFails, SaveFails, HookAppendFails, Goto, TypeOK
    <2> QED
      BY <1>s, <2>1, OtherStepKeepsSeenInv DEF SeenInv
  <1>12. ASSUME NEW p \in Procs, Save(p)
         PROVE  SeenInv'
    <2>1. /\ \A q \in Procs : q # p => pc'[q] = pc[q]
          /\ pc'[p] # "append"
          /\ cache' = snap[p]
          /\ UNCHANGED <<log, evt, snap, nextId>>
      BY <1>12 DEF Save, Goto, TypeOK
    <2> QED
      BY <1>s, <2>1, OtherStepKeepsSeenInv
  <1>14. ASSUME NEW p \in Procs,
                GiveUp(p) \/ Release(p) \/ WriterAppendFails(p) \/ Crash(p)
         PROVE  SeenInv'
    <2>1. /\ \A q \in Procs : q # p => pc'[q] = pc[q] /\ evt'[q] = evt[q]
          /\ \A q \in Procs : snap'[q] \in {snap[q], <<>>}
          /\ pc'[p] # "append"
          /\ evt'[p] = NoEvent
          /\ UNCHANGED <<log, cache, nextId>>
      BY <1>14 DEF GiveUp, Release, WriterAppendFails, Crash, Leave, TypeOK
    <2>2. \A q \in Procs : SeenOnce(snap'[q])
      BY <1>s, <1>e, <2>1
    <2> QED
      BY <2>1, <2>2, OtherStepKeepsSeenInv DEF SeenInv
  <1>16. CASE LoseCache
    BY <1>16, <1>e DEF LoseCache, SeenInv, Fresh
  <1>17. ASSUME NEW l \in LockPaths, RemoveLock(l)
         PROVE  SeenInv'
    BY <1>17 DEF RemoveLock, storeVars, SeenInv, Fresh
  <1>18. CASE UNCHANGED vars
    BY <1>18 DEF vars, storeVars, SeenInv, Fresh
  <1> QED
    BY <1>1, <1>2, <1>3, <1>4, <1>5, <1>7, <1>9, <1>10, <1>12, <1>14, <1>16, <1>17, <1>18
    DEF Next, Continue, HookStep, WriterStep, SharedStep

\* Each observation a hook recorded counts once in the projection, whatever
\* crashes, fails, is lost or rebuilt, and on any lock paths.
THEOREM StoreSeenFoldedOnce == Spec => []SeenFoldedOnce
  <1>1. SeenInv => SeenFoldedOnce
    BY DEF SeenInv, SeenOnce, SeenFoldedOnce
  <1> QED
    BY InitSeenInv, StepSeenInv, StoreTypeOK, StoreLoggedInv, <1>1, PTL DEF Spec

-----------------------------------------------------------------------------
(* The store implements SessionRegistry: an agent id, once bound to a       *)
(* session, stays bound to it.  Besides one lock path and no rebuilds this  *)
(* needs that what was logged under the lock is in the cache before anybody *)
(* else gets the lock: no save fails, and no lock of a dead process is      *)
(* removed.                                                                *)

\* An event gets from the log to the cache before the lock is free again.
NoHalfCommit == "save" \notin Faults /\ ~({"crash", "remove_lock"} \subseteq Faults)

Bindings(proj) == {<<e.csid, e.sid>> : e \in {x \in ToSet(proj) : x.csid # NoCsid}}

IsBound(e) == <<e.csid, e.sid>> \in bound

\* Nobody can take the lock any more.
AbandonedLock == \E p \in Procs : lockFile[LockOf[p]] \in Procs \ holding

\* Whoever loads the projection sees every binding the log has, unless a hook
\* is between append and save, or died there with the lock.
CacheKnowsBindings ==
  \/ bound \subseteq Bindings(Loaded)
  \/ \E p \in Hooks : pc[p] = "save"
  \/ "crash" \in Faults /\ AbandonedLock

\* What a process has in memory knows them too; a hook's event is about to bind
\* an id that is not bound yet, or says again what is.
KnowsBindings(p) ==
  /\ p \in Hooks /\ pc[p] \in {"append", "save"} => bound \subseteq Bindings(snap[p])
  /\ p \in Hooks /\ pc[p] = "append" =>
       IsBound(evt[p]) \/ \A b \in bound : b[1] # evt[p].csid
  /\ p \in Writers /\ pc[p] = "save" => bound \subseteq Bindings(snap[p])
  /\ p \in Writers /\ pc[p] = "append" /\ evt[p].csid # NoCsid => IsBound(evt[p])

BoundOnce == \A a, b \in bound : a[1] = b[1] => a = b

BindingInv ==
  /\ BoundOnce
  /\ CacheKnowsBindings
  /\ \A p \in Procs : KnowsBindings(p)

LEMMA BoundIsBindings == bound = Bindings(log)
  BY DEF bound, Bindings

LEMMA BindingsGrow ==
  ASSUME NEW s, NEW t, ToSet(s) \subseteq ToSet(t)
  PROVE  Bindings(s) \subseteq Bindings(t)
  BY DEF Bindings

LEMMA BindingsOfMore ==
  ASSUME NEW s, NEW t, NEW e, ToSet(t) = ToSet(s) \union {e}
  PROVE  /\ e.csid # NoCsid => Bindings(t) = Bindings(s) \union {<<e.csid, e.sid>>}
         /\ e.csid = NoCsid => Bindings(t) = Bindings(s)
  BY DEF Bindings

\* A session holds the csids it is bound to, and no others.
LEMMA OwnersAreBound ==
  ASSUME NEW proj, NEW sid, NEW csid
  PROVE  /\ csid \in CsidsOf(proj, sid) => <<csid, sid>> \in Bindings(proj)
         /\ sid \in OwnersOf(proj, csid) => <<csid, sid>> \in Bindings(proj)
         /\ csid # NoCsid /\ OwnersOf(proj, csid) = {}
              => \A b \in Bindings(proj) : b[1] # csid
  <1>1. csid \in CsidsOf(proj, sid) => <<csid, sid>> \in Bindings(proj)
    BY DEF CsidsOf, Bindings
  <1>2. sid \in OwnersOf(proj, csid) => csid \in CsidsOf(proj, sid)
    BY DEF OwnersOf
  <1>3. ASSUME csid # NoCsid, NEW b \in Bindings(proj), b[1] = csid
        PROVE  OwnersOf(proj, csid) # {}
    <2>1. PICK e \in ToSet(proj) : e.csid # NoCsid /\ b = <<e.csid, e.sid>>
      BY DEF Bindings
    <2>2. e.csid = csid
      BY <1>3, <2>1
    <2>3. csid \in CsidsOf(proj, e.sid) /\ e.sid \in Sessions(proj)
      BY <1>3, <2>1, <2>2 DEF CsidsOf, Sessions
    <2> QED
      BY <2>3 DEF OwnersOf
  <1> QED
    BY <1>1, <1>2, <1>3

LEMMA InitBindingInv == Init => BindingInv
  <1> SUFFICES ASSUME Init
               PROVE  BindingInv
    OBVIOUS
  <1>1. bound = {}
    BY ToSetEmpty DEF Init, bound
  <1>2. ~AbandonedLock
    BY LockOfType, NobodyIsNoProc DEF Init, LockInit, AbandonedLock
  <1> QED
    BY <1>1, <1>2, RolesCoverProcs
    DEF Init, BindingInv, BoundOnce, CacheKnowsBindings, KnowsBindings

\* The process inside finds every binding in what it loads, until it appends.
LEMMA InsideKnows ==
  ASSUME TypeOK, Exclusive, LockInv, OneLockPath, BindingInv,
         NEW p \in Procs, InCritical(p), p \in Hooks => pc[p] # "save"
  PROVE  bound \subseteq Bindings(Loaded)
  <1>1. ~AbandonedLock
    <2>1. p \in holding
      BY DEF TypeOK
    <2>2. lockFile[LockOf[p]] = p
      BY <2>1 DEF LockInv, HolderOwnsFile
    <2> QED
      BY <2>1, <2>2 DEF AbandonedLock, OneLockPath
  <1>2. \A q \in Hooks : pc[q] # "save"
    BY OthersAreOutside, RolesCoverProcs DEF InCritical, Critical
  <1> QED
    BY <1>1, <1>2 DEF BindingInv, CacheKnowsBindings

LEMMA StepBindingInv ==
  ASSUME Rebuilders = {}, OneLockPath, NoHalfCommit
  PROVE  TypeOK /\ Exclusive /\ LockInv /\ LoggedInv /\ BindingInv /\ [Next]_vars
           => BindingInv'
  <1> SUFFICES ASSUME TypeOK, Exclusive, LockInv, LoggedInv, BindingInv, [Next]_vars
               PROVE  BindingInv'
    OBVIOUS
  <1> USE RolesCoverProcs, RolesAreDisjoint
  <1>l. Bindings(Loaded) \subseteq bound
    BY BindingsGrow, BoundIsBindings DEF Loaded, LoggedInv, CacheIsLogged
  \* The steps that touch neither the log, the cache nor the lock.
  <1>a. ASSUME NEW p \in Procs, UNCHANGED <<log, cacheExists, cache, lockVars>>,
               \A q \in Procs : q # p => pc'[q] = pc[q] /\ evt'[q] = evt[q] /\ snap'[q] = snap[q],
               p \in Hooks => pc[p] # "save",
               KnowsBindings(p)'
        PROVE  BindingInv'
    <2>1. UNCHANGED <<bound, Loaded, AbandonedLock, Bindings(Loaded)>>
      BY <1>a DEF bound, Loaded, AbandonedLock, lockVars, Bindings
    <2>2. CacheKnowsBindings'
      BY <1>a, <2>1 DEF BindingInv, CacheKnowsBindings
    <2>3. \A q \in Procs : KnowsBindings(q)'
      BY <1>a, <2>1 DEF BindingInv, KnowsBindings, IsBound, Bindings
    <2> QED
      BY <2>1, <2>2, <2>3 DEF BindingInv, BoundOnce
  <1>1. ASSUME NEW p \in Hooks, HookBegin(p)
        PROVE  BindingInv'
    <2>1. /\ \A q \in Procs : q # p => pc'[q] = pc[q] /\ evt'[q] = evt[q] /\ snap'[q] = snap[q]
          /\ pc[p] = "idle" /\ pc'[p] = "lock"
          /\ UNCHANGED <<log, cacheExists, cache, lockVars>>
      BY <1>1 DEF HookBegin, Goto, TypeOK
    <2> QED
      BY <1>a, <2>1 DEF KnowsBindings
  <1>2. ASSUME NEW p \in Writers, WriterBegin(p)
        PROVE  BindingInv'
    <2>0. PICK sid \in Sessions(Loaded) :
            \E csid \in CsidsOf(Loaded, sid) \union {NoCsid} :
              evt' = [evt EXCEPT ![p] = NewEvent("update", sid, csid)]
      BY <1>2 DEF WriterBegin
    <2>1. PICK csid \in CsidsOf(Loaded, sid) \union {NoCsid} :
            evt' = [evt EXCEPT ![p] = NewEvent("update", sid, csid)]
      BY <2>0
    <2>2. evt'[p].csid = csid /\ evt'[p].sid = sid
      BY <2>1 DEF TypeOK, NewEvent
    <2>3. csid # NoCsid => <<csid, sid>> \in bound
      BY <1>l, <2>1, OwnersAreBound
    <2>4. /\ \A q \in Procs : q # p => pc'[q] = pc[q] /\ evt'[q] = evt[q] /\ snap'[q] = snap[q]
          /\ pc'[p] = "append"
          /\ UNCHANGED <<log, cacheExists, cache, lockVars>>
      BY <1>2, <2>1 DEF WriterBegin, Goto, TypeOK
    <2>5. bound' = bound
      BY <2>4 DEF bound
    <2>6. KnowsBindings(p)'
      BY <2>2, <2>3, <2>4, <2>5 DEF KnowsBindings, IsBound
    <2> QED
      BY <1>a, <2>4, <2>6
  <1>4. ASSUME NEW p \in Procs, HookLoad(p)
        PROVE  BindingInv'
    <2>0. PICK csid \in Csids :
            \E sid \in IF OwnersOf(Loaded, csid) # {} THEN OwnersOf(Loaded, csid)
                      ELSE Sessions(Loaded) \union {nextId} :
              evt' = [evt EXCEPT ![p] = NewEvent("session_seen", sid, csid)]
      BY <1>4 DEF HookLoad
    <2>1. PICK sid \in IF OwnersOf(Loaded, csid) # {} THEN OwnersOf(Loaded, csid)
                      ELSE Sessions(Loaded) \union {nextId} :
            evt' = [evt EXCEPT ![p] = NewEvent("session_seen", sid, csid)]
      BY <2>0
    <2>2. evt'[p].csid = csid /\ evt'[p].sid = sid
      BY <2>1 DEF TypeOK, NewEvent
    <2>3. /\ \A q \in Procs : q # p => pc'[q] = pc[q] /\ evt'[q] = evt[q] /\ snap'[q] = snap[q]
          /\ p \in Hooks /\ pc[p] = "load" /\ pc'[p] = "append"
          /\ snap'[p] = Loaded
          /\ UNCHANGED <<log, cacheExists, cache, lockVars>>
      BY <1>4, <2>1 DEF HookLoad, Goto, TypeOK
    <2>4. bound \subseteq Bindings(Loaded)
      BY <2>3, InsideKnows DEF InCritical, Critical
    <2>5. <<csid, sid>> \in bound \/ \A b \in bound : b[1] # csid
      <3>1. CASE OwnersOf(Loaded, csid) # {}
        BY <1>l, <2>1, <3>1, OwnersAreBound
      <3>2. CASE OwnersOf(Loaded, csid) = {}
        BY <2>4, <3>2, OwnersAreBound, NoCsidIsNoCsid
      <3> QED
        BY <3>1, <3>2
    <2>6. bound' = bound /\ Bindings(Loaded)' = Bindings(Loaded)
      BY <2>3 DEF bound, Loaded, Bindings
    <2>7. Bindings(snap[p])' = Bindings(Loaded)
      BY <2>3 DEF Bindings
    <2>8. KnowsBindings(p)'
      BY <2>2, <2>3, <2>4, <2>5, <2>6, <2>7 DEF KnowsBindings, IsBound
    <2> QED
      BY <1>a, <2>3, <2>8
  <1>5. ASSUME NEW p \in Procs, HookAppend(p)
        PROVE  BindingInv'
    <2> DEFINE pair == <<evt[p].csid, evt[p].sid>>
    <2>1. /\ ToSet(log') = ToSet(log) \union {evt[p]}
          /\ ToSet(snap'[p]) = ToSet(snap[p]) \union {evt[p]}
      BY <1>5, ToSetAppend, ApplyEventFolds DEF TypeOK, HookAppend
    <2>2. /\ p \in Hooks /\ p \notin Writers /\ pc[p] = "append" /\ pc'[p] = "save"
          /\ \A q \in Procs : q # p => pc'[q] = pc[q] /\ snap'[q] = snap[q]
          /\ UNCHANGED <<evt, lockVars>>
      BY <1>5 DEF HookAppend, Goto, TypeOK
    <2>3. /\ Bindings(log') = bound' /\ Bindings(log) = bound
          /\ bound \subseteq Bindings(snap[p])
          /\ pair \in bound \/ \A b \in bound : b[1] # evt[p].csid
      BY <2>2 DEF bound, Bindings, BindingInv, KnowsBindings, IsBound
    <2>4. bound' \subseteq bound \union {pair} /\ bound \subseteq bound'
      BY <2>1, <2>3, BindingsOfMore
    <2>5. bound' \subseteq Bindings(snap'[p])
      <3>1. CASE evt[p].csid = NoCsid
        BY <2>1, <2>3, <3>1, BindingsOfMore
      <3>2. CASE evt[p].csid # NoCsid
        BY <2>1, <2>3, <3>2, BindingsOfMore
      <3> QED
        BY <3>1, <3>2
    <2>6. BoundOnce'
      BY <2>3, <2>4 DEF BindingInv, BoundOnce
    <2>7. ASSUME NEW q \in Procs
          PROVE  KnowsBindings(q)'
      <3>1. CASE q = p
        BY <2>2, <2>5, <3>1 DEF KnowsBindings, Bindings
      <3>2. CASE q # p
        <4>1. ~InCritical(q)
          BY <2>2, <3>2, OthersAreOutside DEF InCritical
        <4>2. q \in Writers /\ pc[q] = "append" /\ evt[q].csid # NoCsid => IsBound(evt[q])
          BY DEF BindingInv, KnowsBindings
        <4> QED
          BY <2>2, <2>4, <3>2, <4>1, <4>2 DEF KnowsBindings, IsBound, InCritical, Critical
      <3> QED
        BY <3>1, <3>2
    <2>8. CacheKnowsBindings'
      BY <2>2 DEF CacheKnowsBindings
    <2>9. AbandonedLock' = AbandonedLock
      BY <2>2 DEF AbandonedLock, lockVars
    <2> QED
      BY <2>6, <2>7, <2>8, <2>9 DEF BindingInv
  <1>7. ASSUME NEW p \in Procs, WriterAppend(p)
        PROVE  BindingInv'
    <2>1. ToSet(log') = ToSet(log) \union {evt[p]}
      BY <1>7, ToSetAppend DEF TypeOK, WriterAppend
    <2>2. /\ p \in Writers /\ pc[p] = "append" /\ pc'[p] = "lock"
          /\ \A q \in Procs : q # p => pc'[q] = pc[q]
          /\ UNCHANGED <<evt, snap, cacheExists, cache, lockVars>>
      BY <1>7 DEF WriterAppend, Goto, TypeOK
    <2>3. evt[p].csid # NoCsid => IsBound(evt[p])
      BY <2>2 DEF BindingInv, KnowsBindings
    <2>4. Bindings(log') = Bindings(log)
      <3>1. CASE evt[p].csid = NoCsid
        BY <2>1, <3>1, BindingsOfMore
      <3>2. CASE evt[p].csid # NoCsid
        <4>1. <<evt[p].csid, evt[p].sid>> \in Bindings(log)
          BY <2>3, <3>2, BoundIsBindings DEF IsBound
        <4> QED
          BY <2>1, <3>2, <4>1, BindingsOfMore
      <3> QED
        BY <3>1, <3>2
    <2>5. bound' = bound
      BY <2>4 DEF bound, Bindings
    <2>6. Bindings(Loaded') = Bindings(Loaded)
      BY <2>2, <2>4 DEF Loaded
    <2>7. AbandonedLock' = AbandonedLock
      BY <2>2 DEF AbandonedLock, lockVars
    <2>8. \A q \in Procs : KnowsBindings(q)'
      BY <2>2, <2>5 DEF BindingInv, KnowsBindings, IsBound, Bindings
    <2>9. CacheKnowsBindings'
      <3>1. \A q \in Hooks : pc'[q] = pc[q]
        BY <2>2
      <3>2. Bindings(Loaded)' = Bindings(Loaded)
        BY <2>6 DEF Bindings
      <3> QED
        BY <2>5, <2>7, <3>1, <3>2 DEF BindingInv, CacheKnowsBindings
    <2> QED
      BY <2>5, <2>7, <2>8, <2>9 DEF BindingInv, BoundOnce
  <1>9. ASSUME NEW p \in Procs, WriterLoad(p)
        PROVE  BindingInv'
    <2>1. ToSet(snap'[p]) = ToSet(Loaded) \union {evt[p]}
      BY <1>9, LoadedType, ApplyEventFolds DEF TypeOK, WriterLoad
    <2>2. /\ \A q \in Procs : q # p => pc'[q] = pc[q] /\ evt'[q] = evt[q] /\ snap'[q] = snap[q]
          /\ p \in Writers /\ pc[p] = "load" /\ pc'[p] = "save"
          /\ UNCHANGED <<log, cacheExists, cache, lockVars>>
      BY <1>9 DEF WriterLoad, Goto, TypeOK
    <2>3. bound \subseteq Bindings(Loaded)
      BY <2>2, InsideKnows DEF InCritical, Critical
    <2>4. Bindings(Loaded) \subseteq Bindings(snap'[p])
      BY <2>1, BindingsGrow
    <2>5. bound' = bound /\ Bindings(snap[p])' = Bindings(snap'[p])
      BY <2>2 DEF bound, Bindings
    <2>6. KnowsBindings(p)'
      BY <2>2, <2>3, <2>4, <2>5 DEF KnowsBindings
    <2> QED
      BY <1>a, <2>2, <2>6
  <1>10. ASSUME NEW p \in Procs,
                LoadFails(p) \/ HookAppendFails(p) \/ WriterAppendFails(p) \/ GiveUp(p)
         PROVE  BindingInv'
    <2>1. /\ \A q \in Procs : q # p => pc'[q] = pc[q] /\ evt'[q] = evt[q] /\ snap'[q] = snap[q]
          /\ pc[p] # "save" /\ pc'[p] \in {"idle", "release"}
          /\ UNCHANGED <<log, cacheExists, cache, lockVars>>
      BY <1>10 DEF LoadFails, HookAppendFails, WriterAppendFails, GiveUp, Goto, Leave, TypeOK
    <2> QED
      BY <1>a, <2>1 DEF KnowsBindings
  <1>11. ASSUME NEW p \in Procs, Acquire(p)
         PROVE  BindingInv'
    <2>1. /\ \A q \in Procs : q # p => pc'[q] = pc[q]
          /\ pc[p] = "lock" /\ pc'[p] = "load"
          /\ UNCHANGED <<log, cacheExists, cache, evt, snap>>
      BY <1>11 DEF Acquire, Goto, TypeOK
    <2>2. /\ lockFile[LockOf[p]] = Nobody
          /\ lockFile' = [lockFile EXCEPT ![LockOf[p]] = p]
          /\ p \in holding'
      BY <1>11 DEF Acquire, OpenExclusive, Blocked
    <2>3. ~AbandonedLock
      BY <2>2, NobodyIsNoProc DEF AbandonedLock, OneLockPath
    <2>4. lockFile'[LockOf[p]] = p
      BY <2>2, LockOfType DEF TypeOK, LockTypeOK
    <2>5. ~AbandonedLock'
      BY <2>2, <2>4 DEF AbandonedLock, OneLockPath
    <2>6. bound' = bound /\ Bindings(Loaded)' = Bindings(Loaded)
      BY <2>1 DEF bound, Loaded, Bindings
    <2>7. CacheKnowsBindings'
      BY <2>1, <2>3, <2>6 DEF BindingInv, CacheKnowsBindings
    <2>8. \A q \in Procs : KnowsBindings(q)'
      BY <2>1, <2>6 DEF BindingInv, KnowsBindings, IsBound, Bindings
    <2> QED
      BY <2>5, <2>6, <2>7, <2>8 DEF BindingInv, BoundOnce
  <1>12. ASSUME NEW p \in Procs, Save(p)
         PROVE  BindingInv'
    <2>1. /\ \A q \in Procs : q # p => pc'[q] = pc[q]
          /\ pc[p] = "save" /\ pc'[p] = "release"
          /\ cacheExists' /\ cache' = snap[p]
          /\ UNCHANGED <<log, evt, snap, lockVars>>
      BY <1>12 DEF Save, Goto, TypeOK
    <2>2. bound \subseteq Bindings(snap[p])
      BY <2>1 DEF BindingInv, KnowsBindings
    <2>3. bound' = bound /\ Bindings(Loaded)' = Bindings(snap[p])
      BY <2>1 DEF bound, Loaded, Bindings
    <2>4. CacheKnowsBindings'
      BY <2>2, <2>3 DEF CacheKnowsBindings
    <2>5. \A q \in Procs : KnowsBindings(q)'
      BY <2>1, <2>3 DEF BindingInv, KnowsBindings, IsBound, Bindings
    <2>6. AbandonedLock' = AbandonedLock
      BY <2>1 DEF AbandonedLock, lockVars
    <2> QED
      BY <2>3, <2>4, <2>5, <2>6 DEF BindingInv, BoundOnce
  <1>14. ASSUME NEW p \in Procs, Release(p)
         PROVE  BindingInv'
    <2>1. /\ \A q \in Procs : q # p => pc'[q] = pc[q] /\ evt'[q] = evt[q] /\ snap'[q] = snap[q]
          /\ pc[p] = "release" /\ pc'[p] = "idle"
          /\ UNCHANGED <<log, cacheExists, cache>>
      BY <1>14 DEF Release, Leave, TypeOK
    <2>2. bound \subseteq Bindings(Loaded)
      BY <2>1, InsideKnows DEF InCritical, Critical
    <2>3. bound' = bound /\ Bindings(Loaded)' = Bindings(Loaded)
      BY <2>1 DEF bound, Loaded, Bindings
    <2>4. \A q \in Procs : KnowsBindings(q)'
      BY <2>1, <2>3 DEF BindingInv, KnowsBindings, IsBound, Bindings
    <2> QED
      BY <2>2, <2>3, <2>4 DEF BindingInv, BoundOnce, CacheKnowsBindings
  <1>15. ASSUME NEW p \in Procs, Crash(p)
         PROVE  BindingInv'
    <2>1. /\ \A q \in Procs : q # p => pc'[q] = pc[q] /\ evt'[q] = evt[q] /\ snap'[q] = snap[q]
          /\ pc'[p] = "dead"
          /\ holding' = holding \ {p}
          /\ "crash" \in Faults
          /\ UNCHANGED <<log, cacheExists, cache, lockFile>>
      BY <1>15 DEF Crash, LoseHandle, Leave, TypeOK, Allowed
    <2>2. bound' = bound /\ Bindings(Loaded)' = Bindings(Loaded)
      BY <2>1 DEF bound, Loaded, Bindings
    <2>3. \A q \in Procs : KnowsBindings(q)'
      BY <2>1, <2>2 DEF BindingInv, KnowsBindings, IsBound, Bindings
    <2>4. AbandonedLock => AbandonedLock'
      BY <2>1 DEF AbandonedLock
    <2>5. InCritical(p) => AbandonedLock'
      <3> SUFFICES ASSUME InCritical(p)
                   PROVE  AbandonedLock'
        OBVIOUS
      <3>1. lockFile[LockOf[p]] = p
        BY DEF TypeOK, LockInv, HolderOwnsFile
      <3> QED
        BY <2>1, <3>1 DEF AbandonedLock
    <2>6. CacheKnowsBindings'
      <3>1. ASSUME NEW q \in Hooks, pc[q] = "save"
            PROVE  (q = p /\ InCritical(p)) \/ pc'[q] = "save"
        BY <2>1, <3>1 DEF InCritical, Critical
      <3> QED
        BY <2>1, <2>2, <2>4, <2>5, <3>1 DEF BindingInv, CacheKnowsBindings
    <2> QED
      BY <2>1, <2>2, <2>3, <2>6 DEF BindingInv, BoundOnce
  <1>16. CASE LoseCache
    <2>1. Loaded' = log /\ UNCHANGED <<log, pc, evt, snap, lockVars>>
      BY <1>16 DEF LoseCache, Loaded
    <2>2. bound' = bound /\ Bindings(Loaded)' = bound
      BY <2>1 DEF bound, Bindings
    <2>3. AbandonedLock' = AbandonedLock
      BY <2>1 DEF AbandonedLock, lockVars
    <2>4. \A q \in Procs : KnowsBindings(q)'
      BY <2>1, <2>2 DEF BindingInv, KnowsBindings, IsBound, Bindings
    <2> QED
      BY <2>2, <2>3, <2>4 DEF BindingInv, BoundOnce, CacheKnowsBindings
  <1>17. ASSUME NEW l \in LockPaths, RemoveLock(l)
         PROVE  BindingInv'
    <2>1. /\ lockFile' = [lockFile EXCEPT ![l] = Nobody]
          /\ UNCHANGED <<log, cacheExists, cache, pc, evt, snap, holding>>
          /\ "crash" \notin Faults
      BY <1>17 DEF RemoveLock, RemoveAbandoned, storeVars, Allowed, NoHalfCommit
    <2>2. bound' = bound /\ Bindings(Loaded)' = Bindings(Loaded)
      BY <2>1 DEF bound, Loaded, Bindings
    <2>3. \A q \in Procs : KnowsBindings(q)'
      BY <2>1, <2>2 DEF BindingInv, KnowsBindings, IsBound, Bindings
    <2>4. CacheKnowsBindings'
      BY <2>1, <2>2 DEF BindingInv, CacheKnowsBindings
    <2> QED
      BY <2>2, <2>3, <2>4 DEF BindingInv, BoundOnce
  <1>18. CASE UNCHANGED vars
    <2>1. UNCHANGED <<log, cacheExists, cache, pc, evt, snap, lockVars>>
      BY <1>18 DEF vars, storeVars
    <2>2. UNCHANGED <<bound, Bindings(Loaded), AbandonedLock>>
      BY <2>1 DEF bound, Loaded, Bindings, AbandonedLock, lockVars
    <2> QED
      BY <2>1, <2>2 DEF BindingInv, BoundOnce, CacheKnowsBindings, KnowsBindings, IsBound, Bindings
  <1>19. \A p \in Procs : ~SaveFails(p)
    BY DEF SaveFails, Allowed, NoHalfCommit
  <1> QED
    BY <1>1, <1>2, <1>4, <1>5, <1>7, <1>9, <1>10, <1>11, <1>12,
       <1>14, <1>15, <1>16, <1>17, <1>18, <1>19
    DEF Next, Continue, HookStep, WriterStep, SharedStep

\* Only the append of an event adds a binding.
LEMMA OnlyAppendsBind ==
  ASSUME [Next]_vars, log' # log
  PROVE  \E p \in Procs : HookAppend(p) \/ WriterAppend(p)
  <1>1. ASSUME NEW p \in Procs, HookBegin(p) \/ WriterBegin(p) \/ RebuildRead(p)
        PROVE  FALSE
    BY <1>1 DEF HookBegin, WriterBegin, RebuildRead
  <1>2. ASSUME NEW p \in Procs, HookStep(p) \/ WriterStep(p) \/ Crash(p)
        PROVE  HookAppend(p) \/ WriterAppend(p)
    BY <1>2 DEF HookStep, WriterStep, HookLoad, HookAppendFails,
                WriterAppendFails, WriterLoad, Crash
  <1>3. ASSUME NEW p \in Procs, SharedStep(p)
        PROVE  FALSE
    BY <1>3 DEF SharedStep, Acquire, GiveUp, LoadFails, Save, SaveFails, Release
  <1>4. ~LoseCache /\ ~UNCHANGED vars /\ \A l \in LockPaths : ~RemoveLock(l)
    BY DEF LoseCache, RemoveLock, vars, storeVars
  <1> QED
    BY <1>1, <1>2, <1>3, <1>4, RolesCoverProcs DEF Next, Continue

\* An append is an observation of the registry, or says what it knows.
LEMMA AppendIsObservation ==
  ASSUME TypeOK, BindingInv, [Next]_vars
  PROVE  [Registry!Next]_bound
  <1> SUFFICES ASSUME bound' # bound
               PROVE  Registry!Next
    OBVIOUS
  <1> USE RolesCoverProcs, RolesAreDisjoint
  <1>1. log' # log
    BY DEF bound
  <1>2. PICK p \in Procs : HookAppend(p) \/ WriterAppend(p)
    BY <1>1, OnlyAppendsBind
  <1> DEFINE pair == <<evt[p].csid, evt[p].sid>>
  <1>3. ToSet(log') = ToSet(log) \union {evt[p]} /\ evt[p] \in Event
    <2>1. log' = Append(log, evt[p]) /\ log \in Seq(Event) /\ evt[p] \in Event
      BY <1>2 DEF TypeOK, HookAppend, WriterAppend
    <2> QED
      BY <2>1, ToSetAppend
  <1>4. Bindings(log') = bound' /\ Bindings(log) = bound
    BY DEF bound, Bindings
  <1>5. evt[p].csid # NoCsid /\ bound' = bound \union {pair}
    BY <1>3, <1>4, BindingsOfMore
  <1>6. pair \in bound \/ \A b \in bound : b[1] # evt[p].csid
    BY <1>2, <1>5 DEF HookAppend, WriterAppend, BindingInv, KnowsBindings, IsBound
  <1>7. pair \in Csids \X Nat
    BY <1>3, <1>5 DEF Event
  <1>8. \A b \in bound : b[1] # pair[1]
    BY <1>5, <1>6
  <1>9. Registry!Observe(pair)
    BY <1>5, <1>7, <1>8 DEF Registry!Observe
  <1> QED
    BY <1>5, <1>9 DEF Registry!Next

\* The store implements the registry: whatever processes record, and whenever
\* they crash before the lock is theirs or with it in their hands, an agent
\* session is never seen under a second stable_id.
THEOREM StoreImplementsRegistry ==
  ASSUME Rebuilders = {}, OneLockPath, NoHalfCommit
  PROVE  Spec => IdentityIsStable
  <1>1. Init => Registry!Init
    BY ToSetEmpty DEF Init, bound, Registry!Init
  <1>2. TypeOK /\ Exclusive /\ LockInv /\ LoggedInv /\ BindingInv /\ [Next]_vars
          => BindingInv'
    BY StepBindingInv
  <1>3. TypeOK /\ BindingInv /\ [Next]_vars => [Registry!Next]_bound
    BY AppendIsObservation
  <1>4. Spec => []LockInv
    BY StoreImplementsLock, LockInvariant, PTL
  <1> QED
    BY InitBindingInv, StoreTypeOK, StoreExcludes, StoreLoggedInv, <1>1, <1>2, <1>3, <1>4, PTL
    DEF Spec, IdentityIsStable, Registry!Spec
=============================================================================
