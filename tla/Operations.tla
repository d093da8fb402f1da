----------------------------- MODULE Operations -----------------------------
(***************************************************************************)
(* What is written to the database besides the hooks' observations: the    *)
(* operations of lib/operations.mjs, sweep, harvest, prune, and Codex.     *)
(* Module Commands calls them.  All but prune and Codex share one shape:   *)
(* look at the projection without the lock, decide, then commit each event *)
(* under the lock (lib/storage.mjs, module Store), so that other calls     *)
(* change the projection between the decision and the commits.             *)
(*                                                                         *)
(* All append to the log before they save the projection.  Here a commit   *)
(* is one step, which appends and folds the event, or only appends it, or  *)
(* does neither; what was only appended waits for the next rebuild.        *)
(***************************************************************************)
EXTENDS Reducers

CONSTANTS
  Procs, Sids,
  Workloads,      \* sets of kinds of call; a behaviour uses one of them
  StartWith,      \* StartWith[w]: the sessions that workload w may start from
  Texts,          \* names; Junk cleans to nothing
  MachineTitle,   \* a custom title of Claude Code's own (isMachineGeneratedCustomTitle)
  MaxChain,       \* MAX_PARENT_CHAIN_DEPTH
  DefaultIdle, DefaultArchive,  \* thresholds, in days
  TailRecords,    \* AI_TITLE_TAIL_MAX_BYTES, in records
  Threads,        \* Codex session ids with a rollout on disk
  MaxDay,                \* bounds: the last day, and, by workload, the calls
  MaxCalls, MaxRecords   \* begun and the records of a transcript

Kinds == {"parent", "close", "link", "alias", "name", "sweep", "harvest",
          "prune", "codex", "hook", "speak"}
ASSUME WorkloadsType == \A w \in Workloads : w \subseteq Kinds
ASSUME SidsType == IsFiniteSet(Sids) /\ Null \notin Sids
ASSUME NullType == Null \notin Nat /\ Junk \notin Nat /\ Null # Junk
ASSUME BoundsType ==
  /\ {MaxChain, DefaultIdle, DefaultArchive, TailRecords, MaxDay} \subseteq Nat
  /\ \A w \in Workloads : {MaxCalls[w], MaxRecords[w]} \subseteq Nat

VARIABLES
  workload,
  sessions,    \* the projection
  logged,      \* what a fold of the log gives
  unfolded,    \* the ops of the events appended by calls that then failed
  late,        \* those of them that bind sessions, and that a rebuild has folded since
  indexed,     \* transcript_files[].mtime of each session, 0 without a file
  transcript,  \* transcript[sid]: where the file is, and its records
  threadIndex, \* Codex's session_index.jsonl: the thread that each row names
  day,         \* the clock
  call,        \* call[p]: the call p is in, or the sweep it has just made
  alone,       \* alone[p]: nothing that call read has changed since by another hand
  crossed,     \* a parent was set on a decision that was out of date
  calls        \* calls begun so far

vars == <<workload, sessions, logged, unfolded, late, indexed, transcript, threadIndex,
          day, call, alone, crossed, calls>>

\* opts: the thresholds of a sweep, or whether the operator of a prune accepts
\* any scan; todo: the sessions or threads still to come; about: the session a
\* harvest is at; exit: what a sweep answered.
NoScan == [seen |-> {}, errors |-> FALSE, files |-> 0]
Idle ==
  [kind |-> "none", step |-> "done", exit |-> 0, plan |-> <<>>, failed |-> FALSE,
   opts |-> Null, todo |-> {}, about |-> Null, scan |-> NoScan]
Running(kind, plan, opts, todo, scan) ==
  [Idle EXCEPT !.kind = kind, !.step = "run", !.plan = plan, !.opts = opts,
               !.todo = todo, !.scan = scan]

Init ==
  /\ workload \in Workloads
  /\ sessions \in StartWith[workload]
  /\ logged = sessions /\ unfolded = {} /\ late = {}
  /\ indexed = [sid \in Sids |-> 0]
  /\ transcript = [sid \in Sids |-> [where |-> "none", records |-> <<>>]]
  /\ threadIndex = <<>>
  /\ day = 1
  /\ call = [p \in Procs |-> Idle]
  /\ alone = [p \in Procs |-> FALSE]
  /\ crossed = FALSE
  /\ calls = 0

Event(op, sid, p) == [op |-> op, sid |-> sid, ts |-> day, p |-> p]

\* What p has just changed, the others read before.
Disturb(p) == alone' = [q \in Procs |-> q = p /\ alone[p]]

\* A call that does something begins.
Begins(p, c) ==
  /\ calls < MaxCalls[workload]
  /\ call[p].step = "done"
  /\ call' = [call EXCEPT ![p] = c]
  /\ alone' = [alone EXCEPT ![p] = TRUE]
  /\ calls' = calls + 1
  /\ UNCHANGED <<workload, sessions, logged, unfolded, late, indexed, transcript,
                 threadIndex, day, crossed>>

\* The events go into the log and the projection is saved; or only the former.
Stores(events) ==
  /\ sessions' = FoldLeft(FoldSession, sessions, events)
  /\ logged' = FoldLeft(FoldSession, logged, events)
  /\ UNCHANGED <<unfolded, late>>
OnlyLogs(events) ==
  /\ logged' = FoldLeft(FoldSession, logged, events)
  /\ unfolded' = unfolded \union {events[i].op : i \in DOMAIN events}
  /\ UNCHANGED <<sessions, late>>

\* A call that changes nothing: wrong usage (exit 2), a refusal (exit 1), a
\* preview (exit 0).
Ends(p) == call[p].step = "done" /\ UNCHANGED vars
Usage(p) == Ends(p)
Refuse(p) == Ends(p)
Preview(p) == Ends(p)

-----------------------------------------------------------------------------
\* One session, one event: lib/operations.mjs.

\* ensureSessionExists, on the projection as it is now, then commitOp.
EnsureSessionExists(sid) == sid \in DOMAIN sessions
CommitOp(p, kind, event) ==
  IF EnsureSessionExists(event.sid)
  THEN Begins(p, Running(kind, <<event>>, Null, {}, NoScan))
  ELSE Refuse(p)

\* normalizeAliasValue; value Null clears.
IsGoodName(v) == v \notin {Junk, Null}
SetAlias(p, sid, value) ==
  IF value # Null /\ ~IsGoodName(value) THEN Refuse(p)
  ELSE CommitOp(p, "alias", Event("alias_set", sid, [value |-> value]))

\* setName, a library call, by a caller that does not say who is the author.
SetName(p, sid, channel, value) ==
  IF value # Null /\ ~IsGoodName(value) THEN Refuse(p)
  ELSE CommitOp(p, "name", Event("name_set", sid,
         [channel |-> channel, value |-> value, source |-> "harvest"]))

LinkTask(p, sid, tasks) ==
  CommitOp(p, "link", Event("session_link", sid, [tasks |-> tasks, remove |-> FALSE]))
UnlinkTask(p, sid, tasks) ==
  CommitOp(p, "link", Event("session_unlink", sid, [tasks |-> tasks]))

\* "open" reopens.
CloseSession(p, sid, outcome) ==
  CommitOp(p, "close", Event("close", sid, [outcome |-> outcome]))

\* The session d hops above sid, Null beyond the top.
Up(s, sid) ==
  LET up[d \in 0 .. Cardinality(Sids) + MaxChain] ==
        IF d = 0 THEN sid
        ELSE IF up[d - 1] \in DOMAIN s THEN s[up[d - 1]].parent
        ELSE Null
  IN  up
Ancestor(sid) == Up(sessions, sid)

\* A bug to compare with: one hop short.
OneHopShort(child, parent) ==
  \E d \in 0 .. MaxChain - 2 : Ancestor(parent)[d] = child
WouldCycle(child, parent) ==
  \E d \in 0 .. MaxChain - 1 : Ancestor(parent)[d] = child

\* setParent; parent Null clears.  One read of the projection serves all the
\* checks.
SetParent(p, child, parent) ==
  IF \/ parent = child
     \/ /\ parent # Null /\ EnsureSessionExists(child)
        /\ ~EnsureSessionExists(parent) \/ WouldCycle(child, parent)
  THEN Refuse(p)
  ELSE CommitOp(p, "parent", Event("parent_set", child, [parent |-> parent]))

-----------------------------------------------------------------------------
\* lib/sweep.mjs and runSweep

\* pickThreshold: _meta may hold thresholds too, but nothing writes any; with
\* another hand's, they are the defaults.
PickThreshold(opt, default) == IF opt = Null THEN default ELSE opt

\* A bug to compare with: what the transcripts say is left out.
ProgressFieldOnly(sid) == sessions[sid].last_progress_at
\* computeEffectiveLastProgress: nothing writes hive_watcher_last_seen.
EffectiveLastProgress(sid) ==
  Max({sessions[sid].last_progress_at, indexed[sid]})

\* computeSweepTransitions: the state a session should be in.
TargetState(sid, opts) ==
  LET effective == EffectiveLastProgress(sid)
      age == IF effective > day THEN 0 ELSE day - effective
  IN  IF age >= opts.archive THEN "archived"
      ELSE IF age >= opts.idle THEN "idle"
      ELSE "active"
SweepTransitions(opts) ==
  {sid \in DOMAIN sessions : /\ sessions[sid].activity # "archived"
                             /\ sessions[sid].activity # TargetState(sid, opts)}
SweepEvent(sid, opts) ==
  Event("sweep", sid, [activity |-> TargetState(sid, opts),
                       effective |-> EffectiveLastProgress(sid)])

\* runSweep
BadThresholds(idle, archive) == idle # Null /\ archive # Null /\ archive < idle
RunSweep(p, idle, archive, dry) ==
  LET opts == [idle |-> PickThreshold(idle, DefaultIdle),
               archive |-> PickThreshold(archive, DefaultArchive)] IN
  IF BadThresholds(idle, archive) THEN Refuse(p)
  ELSE IF dry THEN Preview(p)
  ELSE Begins(p, Running("sweep",
         SetToSeq({SweepEvent(sid, opts) : sid \in SweepTransitions(opts)}),
         opts, {}, NoScan))

-----------------------------------------------------------------------------
\* lib/harvest.mjs on top of extractLatestTitles

\* The tail window of the transcript.
Window(sid) ==
  LET r == transcript[sid].records
  IN  SubSeq(r, Max({0, Len(r) - TailRecords}) + 1, Len(r))

Latest(records, type) ==
  LET at == {i \in DOMAIN records : records[i].type = type}
  IN  IF at = {} THEN Null ELSE records[Max(at)].value

\* extractLatestTitles: per kind of name the latest; each merge request once,
\* with the url of its last record and the time of its first.
HarvestedLinks(records) ==
  LET links == {i \in DOMAIN records : records[i].type = "pr-link"}
      Of(i) == {j \in links : records[j].value = records[i].value}
  IN  {[repository |-> "r1", number |-> records[i].value,
        url |-> records[Max(Of(i))].url, observed_at |-> records[Min(Of(i))].at] :
         i \in links}

SourceOfTitle(title) == IF title = MachineTitle THEN "harvest" ELSE "human"

\* The names that survive cleaning, with the author each channel implies.
Candidates(sid) ==
  LET w == Window(sid)
      all == {[channel |-> "cc_ai_title", value |-> Latest(w, "ai-title"),
               source |-> "llm"],
              [channel |-> "cc_custom_title", value |-> Latest(w, "custom-title"),
               source |-> SourceOfTitle(Latest(w, "custom-title"))],
              [channel |-> "agent_name", value |-> Latest(w, "agent-name"),
               source |-> "harvest"]}
  IN  {c \in all : IsGoodName(c.value)}

\* currentNameValue
CurrentNameValue(s, channel) ==
  IF channel \in DOMAIN s.names THEN s.names[channel].value
  ELSE IF channel = "cc_ai_title" THEN Cleaned(s.ai_title)
  ELSE Null

\* A bug to compare with: the author is not compared.
SameValue(s, c) == CurrentNameValue(s, c.channel) = c.value

\* The naming is known: the same value, by the same author if one is recorded.
AlreadyNamed(s, c) ==
  /\ CurrentNameValue(s, c.channel) = c.value
  /\ c.channel \in DOMAIN s.names => s.names[c.channel].source = c.source

\* The links, one after the other; whether each is a change is asked of the
\* reducer, on a copy that the links before it have changed.
PlanLink(acc, link) ==
  LET e == [acc.event EXCEPT !.p = link]
      next == ReducePrLinkSeen(acc.s, e)
  IN  IF next.prs = acc.s.prs THEN acc
      ELSE [acc EXCEPT !.s = next, !.plan = Append(@, e)]
PlanLinks(sid, s) ==
  FoldLeft(PlanLink,
    [s |-> s, plan |-> <<>>, event |-> Event("pr_link_seen", sid, Null)],
    SetToSeq(HarvestedLinks(Window(sid)))).plan
EveryLink(sid) ==
  SetToSeq({Event("pr_link_seen", sid, link) : link \in HarvestedLinks(Window(sid))})

PlanNames(sid, s) ==
  SetToSeq({Event("name_set", sid, c) : c \in {x \in Candidates(sid) : ~AlreadyNamed(s, x)}})

\* findTranscriptByCsid
HasTranscript(sid) == transcript[sid].where # "none"

\* harvestFromTranscript decides.  For a session that has gone meanwhile
\* everything is new, and nothing is left out for the cap on merge requests.
HarvestPlan(sid) ==
  IF ~HasTranscript(sid) THEN <<>>
  ELSE IF sid \in DOMAIN sessions
  THEN PlanNames(sid, sessions[sid]) \o PlanLinks(sid, sessions[sid])
  ELSE PlanNames(sid, EmptySession(day)) \o EveryLink(sid)

\* A hook harvests its own session; runHarvest every session, or some when
\* there is a limit.  Each is read when its turn comes;
\* reading the transcript and then the projection is one step.
RunHarvest(p, todo, dry) ==
  IF dry THEN Preview(p) ELSE Begins(p, Running("harvest", <<>>, Null, todo, NoScan))
HarvestNext(p) ==
  /\ call[p].step = "run" /\ call[p].kind = "harvest" /\ call[p].plan = <<>>
  /\ \E sid \in call[p].todo :
       call' = [call EXCEPT ![p].todo = @ \ {sid}, ![p].plan = HarvestPlan(sid),
                            ![p].about = sid]
  /\ alone' = [alone EXCEPT ![p] = call'[p].about \in DOMAIN sessions]
  /\ UNCHANGED <<workload, sessions, logged, unfolded, late, indexed, transcript,
                 threadIndex, day, crossed, calls>>

-----------------------------------------------------------------------------
\* lib/prune.mjs

\* indexTranscriptCsids: everything, or nothing of a directory that cannot be
\* read, or the wrong home.  Other workspaces have transcripts too.
Scans ==
  LET onDisk == {sid \in Sids : transcript[sid].where # "none"} IN
  {[seen |-> onDisk, errors |-> FALSE, files |-> Cardinality(onDisk) + 1],
   [seen |-> {}, errors |-> FALSE, files |-> 0]}
  \union {[seen |-> some, errors |-> TRUE, files |-> Cardinality(some) + 1] :
            some \in SUBSET onDisk}

\* assessScanTrust
IsTrusted(scan) == ~scan.errors /\ scan.files > 0

\* hasTranscriptOnDisk: the scan, and a look at the place the file would have.
\* In the wrong home there is nothing there either.
OnDisk(sid, scan) ==
  \/ sid \in scan.seen
  \/ transcript[sid].where = "home" /\ scan.files > 0

PruneCandidates(scan) ==
  {sid \in DOMAIN sessions : /\ IsGhost(sessions, sid)
                             /\ sessions[sid].created_at < day
                             /\ ~OnDisk(sid, scan)}

\* runPrune up to the lock; what it has found so far is shown, not used.
RunPrune(p, accept, dry) ==
  IF dry THEN Preview(p)
  ELSE \E scan \in Scans :
    IF ~IsTrusted(scan) /\ ~accept THEN Refuse(p)
    ELSE Begins(p, Running("prune", <<>>, accept, PruneCandidates(scan), scan))

\* Under the lock: plan again, one tombstone each, save; some tombstones, or
\* without the lock all, cannot be written, nor can perhaps the projection.
\* A bug to compare with: the candidates of the unlocked read are used.
PruneRest(p, plan) ==
  /\ call[p].step = "run" /\ call[p].kind = "prune"
  /\ \E pruned \in SUBSET plan :
       /\ LET tombstones == SetToSeq({Event("session_prune", sid, Null) : sid \in pruned})
          IN  Stores(tombstones) \/ OnlyLogs(tombstones)
       /\ call' = [call EXCEPT ![p] = Idle]
  /\ Disturb(p)
  /\ UNCHANGED <<workload, indexed, transcript, threadIndex, day, crossed, calls>>
PruneUnlockedPlan(p) == PruneRest(p, call[p].todo)
PruneLocked(p) == PruneRest(p, PruneCandidates(call[p].scan))

-----------------------------------------------------------------------------
\* lib/codex-storage.mjs, codex-names.mjs, codex-hook.mjs and ingest-codex.mjs

ThreadOwners(thread) == {sid \in DOMAIN sessions : thread \in sessions[sid].codexIds}

\* readCodexThreadNames: the last row wins.  Rows are numbered, and the number
\* stands for the name; 0: no row.
CodexName(thread) ==
  Max({0} \union {row \in DOMAIN threadIndex : threadIndex[row] = thread})

\* codexNameEvent: none for a session s that has the name, nor without a row.
CodexNaming(name) ==
  [channel |-> "codex_thread_name", value |-> name, source |-> "harvest"]
CodexNameEvents(s, sid, name) ==
  IF name = 0 \/ SameValue(s, CodexNaming(name)) THEN {}
  ELSE {Event("name_set", sid, CodexNaming(name))}

ObservationEvents(thread, sid, name) ==
  LET seen == Event("codex_session_seen", sid,
                [codexId |-> thread, preview |-> Null, created_at |-> Null])
  IN  <<seen>> \o SetToSeq(CodexNameEvents(FoldSession(sessions, seen)[sid], sid, name))

\* Two appends and a save, each of which may fail.
WriteObservation(events, saved) ==
  IF saved THEN Stores(events)
  ELSE \E n \in 0 .. Len(events) : OnlyLogs(SubSeq(events, 1, n))
RecordsNothing == UNCHANGED <<sessions, logged, unfolded, late>>

\* generateSessionId: an id that nobody has had.
NewIds == Sids \ (DOMAIN sessions \union DOMAIN logged)

\* Bugs to compare with: the reader's list of known threads is trusted; the name
\* is the one that was read before the lock.
RecordAsNew(thread, onlyNew, early, saved) ==
  \E sid \in IF onlyNew \/ ThreadOwners(thread) = {} THEN NewIds ELSE ThreadOwners(thread) :
    WriteObservation(ObservationEvents(thread, sid, CodexName(thread)), saved)
RecordEarlyName(thread, onlyNew, early, saved) ==
  IF ThreadOwners(thread) # {} /\ onlyNew THEN RecordsNothing
  ELSE \E sid \in IF ThreadOwners(thread) # {} THEN ThreadOwners(thread) ELSE NewIds :
         WriteObservation(ObservationEvents(thread, sid, early), saved)

\* recordCodexObservation, all of it under the lock, with the name as it is
\* then (not `early`).  onlyNew: leave a thread that is known alone.  With two
\* owners it is an error.
RecordCodexObservation(thread, onlyNew, early, saved) ==
  IF Cardinality(ThreadOwners(thread)) > (IF onlyNew THEN 0 ELSE 1) THEN RecordsNothing
  ELSE \E sid \in IF ThreadOwners(thread) # {} THEN ThreadOwners(thread) ELSE NewIds :
         WriteObservation(ObservationEvents(thread, sid, CodexName(thread)), saved)

\* runIngestCodex: the threads not known yet, found without the lock.  The
\* gates on the workspace are left out.  runCodexHook: the one thread it runs
\* for.
RunIngestCodex(p, dry) ==
  IF dry THEN Preview(p)
  ELSE Begins(p, Running("codex", <<>>, Null,
                         {t \in Threads : ThreadOwners(t) = {}}, NoScan))
RunCodexHook(p) ==
  \E thread \in Threads :
    Begins(p, [Running("hook", <<>>, Null, {thread}, NoScan)
                 EXCEPT !.about = CodexName(thread)])

Observe(p) ==
  /\ call[p].step = "run" /\ call[p].kind \in {"codex", "hook"}
  /\ \E thread \in call[p].todo :
       /\ call' = [call EXCEPT ![p].todo = @ \ {thread}]
       /\ RecordCodexObservation(thread, call[p].kind = "codex", call[p].about, TRUE)
  /\ Disturb(p)
  /\ UNCHANGED <<workload, indexed, transcript, threadIndex, day, crossed, calls>>
ObserveFails(p) ==
  /\ call[p].step = "run" /\ call[p].kind \in {"codex", "hook"}
  /\ \E thread \in call[p].todo :
       /\ call' = [call EXCEPT ![p].todo = @ \ {thread}, ![p].failed = TRUE]
       /\ RecordCodexObservation(thread, call[p].kind = "codex", call[p].about, FALSE)
  /\ UNCHANGED <<workload, indexed, transcript, threadIndex, day, alone, crossed, calls>>

\* syncCodexNames, under the lock from the first read to the save; at an append
\* that fails it stops, and it wants each thread in one session.
LatestName(s) == Max({0} \union {CodexName(t) : t \in s.codexIds})
LatestNameEvents(sid) == CodexNameEvents(sessions[sid], sid, LatestName(sessions[sid]))
SyncCodexNames ==
  /\ "codex" \in workload
  /\ \A thread \in Threads : Cardinality(ThreadOwners(thread)) <= 1
  /\ LET names == UNION {LatestNameEvents(sid) :
                           sid \in {s \in DOMAIN sessions : sessions[s].source = "codex"}}
     IN  \/ Stores(SetToSeq(names))
         \/ \E some \in SUBSET names : OnlyLogs(SetToSeq(some))
  /\ alone' = [p \in Procs |-> FALSE]
  /\ UNCHANGED <<workload, indexed, transcript, threadIndex, day, call, crossed, calls>>

\* Codex names a thread: session_index.jsonl grows by a row.
NameThread ==
  /\ "codex" \in workload
  /\ Len(threadIndex) < MaxRecords[workload]
  /\ \E thread \in Threads : threadIndex' = Append(threadIndex, thread)
  /\ UNCHANGED <<workload, sessions, logged, unfolded, late, indexed, transcript, day, call,
                 alone, crossed, calls>>

-----------------------------------------------------------------------------
\* tryUpdateProjection for the next event of the plan: append, then fold.

Commit(p) ==
  /\ call[p].step = "run" /\ call[p].plan # <<>>
  /\ LET e == Head(call[p].plan) IN
       /\ sessions' = FoldSession(sessions, e)
       /\ logged' = FoldSession(logged, e)
       /\ crossed' = (crossed \/ (e.op = "parent_set" /\ ~alone[p]))
  /\ call' = [call EXCEPT ![p].plan = Tail(@)]
  /\ Disturb(p)
  /\ UNCHANGED <<workload, unfolded, late, indexed, transcript, threadIndex, day, calls>>

\* The append fails, or the lock or the save after it: reported for this event,
\* and the next one is tried.
CommitFails(p) ==
  /\ call[p].step = "run" /\ call[p].plan # <<>>
  /\ LET e == Head(call[p].plan) IN
       \/ UNCHANGED <<logged, unfolded>>
       \/ logged' = FoldSession(logged, e) /\ unfolded' = unfolded \union {e.op}
  /\ call' = [call EXCEPT ![p].plan = Tail(@), ![p].failed = TRUE]
  /\ UNCHANGED <<workload, sessions, late, indexed, transcript, threadIndex, day, alone,
                 crossed, calls>>

\* The ops that bind a session to a parent or to a thread.
BindingOps == {"parent_set", "codex_session_seen"}

\* rebuildProjection, or the cold load of a call that finds no projection file.
\* A rebuild that races with a commit is module Store's.
Rebuild ==
  /\ sessions # logged
  /\ sessions' = logged
  /\ late' = late \union (unfolded \intersect BindingOps) /\ unfolded' = {}
  /\ alone' = [p \in Procs |-> FALSE]
  /\ UNCHANGED <<workload, logged, indexed, transcript, threadIndex, day, call, crossed,
                 calls>>

\* Harvest does not look at what its writes answered.
ExitCode(c) == IF c.failed /\ c.kind # "harvest" THEN 1 ELSE 0

\* Everything was tried.
Return(p) ==
  /\ call[p].step = "run" /\ call[p].plan = <<>> /\ call[p].todo = {}
  /\ call[p].kind # "prune"
  /\ call' = [call EXCEPT ![p] =
       IF @.kind # "sweep" THEN Idle
       ELSE [@ EXCEPT !.step = "done", !.exit = ExitCode(call[p])]]
  /\ alone' = [alone EXCEPT ![p] = @ /\ call[p].kind = "sweep"]
  /\ UNCHANGED <<workload, sessions, logged, unfolded, late, indexed, transcript,
                 threadIndex, day, crossed, calls>>

-----------------------------------------------------------------------------
\* The agents.

Tick ==
  /\ workload \intersect {"sweep", "prune"} # {}
  /\ day < MaxDay
  /\ day' = day + 1
  /\ alone' = [p \in Procs |-> FALSE]
  /\ UNCHANGED <<workload, sessions, logged, unfolded, late, indexed, transcript,
                 threadIndex, call, crossed, calls>>

\* recordSessionSeen with the transcript it found, one per session, on a disk
\* whose clock is ahead; or the heartbeat of a prompt.
Speak ==
  /\ "speak" \in workload
  /\ \E sid \in DOMAIN sessions :
       \/ /\ indexed' = [indexed EXCEPT ![sid] = day + 1]
          /\ Stores(<<Event("session_seen", sid,
               [csid |-> "c1", preview |-> Null, branch |-> Null, created_at |-> Null])>>)
       \/ /\ Stores(<<Event("session_progress", sid,
               [csid |-> "c1", preview |-> Null, branch |-> Null])>>)
          /\ UNCHANGED indexed
  /\ alone' = [p \in Procs |-> FALSE]
  /\ UNCHANGED <<workload, transcript, threadIndex, day, call, crossed, calls>>

\* Claude Code writes its transcript, in the directory of the session's cwd or
\* of another one it was started from.
Said(type, value, url, now) == [type |-> type, value |-> value, url |-> url, at |-> now]
NewRecords(now) ==
  IF "harvest" \notin workload THEN {Said("turn", Null, Null, now)}
  ELSE {Said("ai-title", v, Null, now) : v \in Texts \ {MachineTitle}}
       \union {Said("custom-title", v, Null, now) : v \in Texts}
       \union {Said("pr-link", n, "u", now) : n \in {1, 2}}
WriteTranscript ==
  /\ workload \intersect {"harvest", "prune"} # {}
  /\ \E sid \in DOMAIN sessions :
       /\ Len(transcript[sid].records) < MaxRecords[workload]
       /\ \E r \in NewRecords(Len(transcript[sid].records)),
            place \in IF "prune" \in workload THEN {"home", "elsewhere"} ELSE {"home"} :
            transcript' = [transcript EXCEPT
              ![sid] = [where |-> IF @.where = "none" THEN place ELSE @.where,
                        records |-> Append(@.records, r)]]
  /\ alone' = [p \in Procs |-> FALSE]
  /\ UNCHANGED <<workload, sessions, logged, unfolded, late, indexed, threadIndex, day,
                 call, crossed, calls>>

-----------------------------------------------------------------------------
Continue(p) ==
  \/ Commit(p) \/ CommitFails(p) \/ HarvestNext(p) \/ PruneLocked(p)
  \/ Observe(p) \/ ObserveFails(p) \/ Return(p)

-----------------------------------------------------------------------------
\* What a workload may start from: records as the reducers make them, no cycle
\* that the check would see, a thread in one session and a session of one
\* thread, whose name has not been read yet.
IsMap(map, most) ==
  /\ map = [key \in DOMAIN map |-> map[key]]
  /\ IsFiniteSet(DOMAIN map) /\ Cardinality(DOMAIN map) <= most
IsRecord(r) ==
  /\ r = [f \in DOMAIN EmptySession(0) |-> r[f]]
  /\ IsMap(r.names, MaxChannels) /\ IsMap(r.prs, MaxPrLinks)
  /\ \A key \in DOMAIN r.prs : r.prs[key].first_seen_at \in Nat
  /\ r.last_progress_at \in Nat /\ (r.codexIds # {} => r.source = "codex")
  /\ r.alias # Junk /\ ("alias" \in DOMAIN r.names => r.names["alias"].value = r.alias)
ThreadName(r) ==
  IF "codex_thread_name" \in DOMAIN r.names THEN r.names["codex_thread_name"].value ELSE 0
IsStart(s) ==
  /\ s = [sid \in DOMAIN s |-> s[sid]] /\ DOMAIN s \subseteq Sids
  /\ \A sid \in DOMAIN s :
       /\ IsRecord(s[sid]) /\ ThreadName(s[sid]) = 0
       /\ \A t, u \in s[sid].codexIds : t = u
       /\ \A other \in DOMAIN s \ {sid} : s[sid].codexIds \intersect s[other].codexIds = {}
       /\ \A d \in 1 .. MaxChain : Up(s, sid)[d] # sid
ASSUME StartsType == \A w \in Workloads : \A s \in StartWith[w] : IsStart(s)

-----------------------------------------------------------------------------
\* operations.mjs says that setParent rejects a cycle.  It looks without the
\* lock, at the projection: unless two calls overlapped, or a rebuild has folded
\* the event of a call that answered it had failed, no session is its own
\* ancestor, as far up as the check looks.
CycleNeedsOverlap ==
  ~crossed /\ "parent_set" \notin late =>
    \A sid \in DOMAIN sessions, d \in 1 .. MaxChain : Ancestor(sid)[d] # sid

\* A harvest that had the session to itself and whose writes all went through
\* has stored what the tail of the transcript says: every name, under its
\* author, unless the session has all the channels it may have, and every merge
\* request, first seen no later than the tail says, unless there are too many.
\* harvest.mjs tells how a comparison of values alone "swallowed re-attributions
\* for good".
Settled(p) == call[p].plan = <<>> /\ alone[p] /\ ~call[p].failed
HarvestStoresAll ==
  \A p \in Procs :
    LET sid == call[p].about
        s == sessions[sid]
        records == Window(sid)
    IN  call[p].kind = "harvest" /\ sid \in DOMAIN sessions /\ Settled(p) =>
          /\ \A c \in Candidates(sid) :
               IF c.channel \in DOMAIN s.names
               THEN IsSameNaming(s.names[c.channel], c)
               ELSE \/ NameValue(s, c.channel) = c.value
                    \/ Cardinality(DOMAIN s.names) = MaxChannels
          /\ \A i \in {j \in DOMAIN records : records[j].type = "pr-link"} :
               LET key == [repository |-> "r1", number |-> records[i].value] IN
               IF key \in DOMAIN s.prs
               THEN s.prs[key].first_seen_at <= records[i].at
               ELSE Cardinality(DOMAIN s.prs) = MaxPrLinks

\* "Suppression has to agree with what the REDUCER calls a change" (harvest.mjs):
\* as long as nobody interferes, each merge request that a harvest is about to
\* log will change the record, so that a prompt whose transcript says nothing
\* new logs nothing.  For names the cap on channels breaks this (README).
HarvestLogsChanges ==
  \A p \in Procs :
    LET Upto(i) == FoldLeft(FoldSession, sessions, SubSeq(call[p].plan, 1, i)) IN
    call[p].kind = "harvest" /\ alone[p] =>
      \A i \in DOMAIN call[p].plan :
        \/ Upto(i) # Upto(i - 1)
        \/ /\ call[p].plan[i].op = "name_set"
           /\ Cardinality(DOMAIN Upto(i)[call[p].about].names) = MaxChannels

\* Harvesting again and again, on every prompt, settles: it stores everything
\* and then has nothing to log.
HarvestIsExact == HarvestStoresAll /\ HarvestLogsChanges

\* Prune removes ghosts only: at the moment of removal nobody has named,
\* linked or prompted the session.  And if the operator did not accept a scan
\* that cannot be trusted, it has no transcript either, except one that was
\* written after the scan outside the directory of the session's cwd.  A
\* tombstone that was logged and not folded waits for a rebuild; nor does that
\* one remove a session that somebody has named or linked in the meantime.
PruneSparesTheLiving ==
  [][/\ \A p \in Procs : call[p].kind = "prune" /\ call[p].step # call'[p].step =>
          \A sid \in DOMAIN sessions \ DOMAIN sessions' :
            /\ IsGhost(sessions, sid)
            /\ \/ call[p].opts
               \/ transcript[sid].where = "none"
               \/ transcript[sid].where = "elsewhere" /\ ~alone[p]
     /\ \A sid \in DOMAIN sessions \ DOMAIN sessions' : IsUntouched(sessions[sid])]_vars

\* However ingestion and the hook cross, a Codex thread is one session: until a
\* rebuild folds an observation that was logged by a call that failed, for the
\* next call knew nothing of it and took another id.
OneSessionPerThread ==
  "codex_session_seen" \notin late =>
    \A thread \in Threads : Cardinality(ThreadOwners(thread)) <= 1

\* A thread's name is read and written by several commands.  Whatever their
\* order, whatever is folded late, a session never falls back to a name that an
\* earlier row gave it, unless it has all the channels it may have and this one
\* is none of them.
NoRoomForName(r) ==
  "codex_thread_name" \notin DOMAIN r.names /\ Cardinality(DOMAIN r.names) = MaxChannels
ThreadNamesAdvance ==
  [][\A sid \in DOMAIN sessions \intersect DOMAIN sessions' :
       \/ ThreadName(sessions[sid]) <= ThreadName(sessions'[sid])
       \/ NoRoomForName(sessions'[sid])]_vars
=============================================================================
