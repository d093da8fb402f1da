----------------------------- MODULE Projection -----------------------------
(***************************************************************************)
(* What the projection says about a session once a series of events has    *)
(* been folded into it, in the orders that lib/storage.mjs allows.         *)
(*                                                                         *)
(* The events reach the projection the way module Store lets them.         *)
(* Observations, tombstones and the thread names of Codex are appended and *)
(* folded under one lock.  Every other event is appended first and folded  *)
(* once its writer has the lock, so that two of them may be folded in      *)
(* either order.  Whoever finds no cache folds the whole log first.        *)
(***************************************************************************)
EXTENDS Reducers

CONSTANTS
  Sids,         \* stable_id values
  Families,     \* sets of events [op, sid, ts, p]; a log is written from one
  MaxLog        \* bound: events in the log

VARIABLES
  templates, \* the events that may occur
  log,       \* the events, in the order of sessions-db-events.jsonl
  unfolded,  \* those whose writer has not had the lock yet
  folded,    \* the events folded into proj, in the order of folding
  proj       \* the projection

vars == <<templates, log, unfolded, folded, proj>>

ASSUME MaxLogType == MaxLog \in Nat

\* A time an event may lack.
Time == Nat \union {Null}
ASSUME NullIsNoTime == Null \notin Nat
ASSUME FamiliesType ==
  \A family \in Families : \A t \in family :
    /\ t.op \in Ops /\ t.sid \in Sids /\ t.ts \in Nat
    /\ t.op \in {"session_seen", "codex_session_seen"} => t.p.created_at \in Time
    /\ t.op = "sweep" => t.p.effective \in Time
    /\ t.op = "pr_link_seen" => t.p.observed_at \in Nat

-----------------------------------------------------------------------------
Init ==
  /\ templates \in Families
  /\ log = <<>>
  /\ unfolded = {}
  /\ folded = <<>>
  /\ proj = EmptyProjection

NewEvent(t) ==
  [id |-> Len(log) + 1, op |-> t.op, sid |-> t.sid, ts |-> t.ts, p |-> t.p]

\* What loadProjection returns: the cache or, when it is gone, a fold of the
\* log.  With it, the events folded into it.
Loadable == {[events |-> folded, proj |-> proj],
             [events |-> log, proj |-> RebuildFromEvents(log)]}

\* applyEvent and saveProjection.
FoldInto(loaded, e) ==
  /\ proj' = ApplyEvent(loaded.proj, e)
  /\ folded' = IF loaded.proj.last_event_id = e.id THEN loaded.events
               ELSE Append(loaded.events, e)

\* load, append, apply and save under one lock.
Transaction(loaded, e) ==
  /\ log' = Append(log, e)
  /\ FoldInto(loaded, e)
  /\ UNCHANGED <<templates, unfolded>>

\* recordSessionSeen and recordCodexObservation.
RecordObservation ==
  /\ Len(log) < MaxLog
  /\ \E loaded \in Loadable, t \in templates :
       /\ t.op \in {"session_seen", "codex_session_seen"}
       /\ Transaction(loaded, NewEvent(t))

\* codexNameEvent: nothing is recorded for the name a thread has, nor for the
\* lack of a name that it never had.
IsNewThreadName(names, c) ==
  IF c.channel \in DOMAIN names THEN ~IsSameNaming(names[c.channel], c)
  ELSE c.value # Null
OfThread(t) == t.op = "name_set" /\ t.p.channel = "codex_thread_name"
RecordThreadName ==
  /\ Len(log) < MaxLog
  /\ \E loaded \in Loadable, t \in templates :
       /\ OfThread(t)
       /\ t.sid \in DOMAIN loaded.proj.sessions
       /\ LET s == loaded.proj.sessions[t.sid] IN
            s.source = "codex" /\ IsNewThreadName(s.names, NameChange(t))
       /\ Transaction(loaded, NewEvent(t))

\* runPrune, one tombstone of the batch.
Prune ==
  /\ Len(log) < MaxLog
  /\ \E loaded \in Loadable, t \in templates :
       /\ t.op = "session_prune"
       /\ t.sid \in DOMAIN loaded.proj.sessions
       /\ IsGhost(loaded.proj.sessions, t.sid)
       /\ Transaction(loaded, NewEvent(t))

\* tryUpdateProjection appends, without the lock.  Its callers have looked the
\* session up.
AppendUpdate ==
  /\ Len(log) < MaxLog
  /\ \E loaded \in Loadable, t \in templates :
       /\ t.op \notin {"session_seen", "codex_session_seen", "session_prune"}
       /\ ~OfThread(t)
       /\ t.sid \in DOMAIN loaded.proj.sessions
       /\ log' = Append(log, NewEvent(t))
       /\ unfolded' = unfolded \union {NewEvent(t)}
  /\ UNCHANGED <<templates, folded, proj>>

\* It has the lock.  If the cache is gone, the fold of the log that replaces it
\* holds its event already.
FoldUpdate ==
  \E loaded \in Loadable, e \in unfolded :
    /\ unfolded' = unfolded \ {e}
    /\ FoldInto(loaded, e)
    /\ UNCHANGED <<templates, log>>

Next ==
  \/ RecordObservation \/ RecordThreadName \/ Prune
  \/ AppendUpdate \/ FoldUpdate

Spec == Init /\ [][Next]_vars

-----------------------------------------------------------------------------
\* What the log says, told without folding records.

\* The events were folded once each, in the order of the log.
InOrder == folded = log

\* Where the events stand that a session has had since it was last pruned.
IsTombstone(e, sid) == e.sid = sid /\ e.op = "session_prune"
Since(events, sid) ==
  {i \in DOMAIN events :
     /\ events[i].sid = sid
     /\ \A j \in DOMAIN events : j >= i => ~IsTombstone(events[j], sid)}

\* foldNameHistory, which `sessions-db names` shows: per session and channel,
\* every naming that was one.  The stamp of an event that says a name stands for
\* the time of observation too, which the code prefers where there is one.
ByChannel(out, sid) == IF sid \in DOMAIN out THEN out[sid] ELSE EmptyFunction
HistoryStep(out, e) ==
  IF e.op = "session_prune" THEN Restrict(out, DOMAIN out \ {e.sid})
  ELSE IF ~SaysName(e) THEN out
  ELSE LET c == NameChange(e)
           byChannel == ByChannel(out, e.sid)
           entries == IF c.channel \in DOMAIN byChannel
                      THEN byChannel[c.channel] ELSE <<>>
           naming == [channel |-> c.channel, value |-> c.value, source |-> c.source,
                      set_at |-> e.ts]
       IN  IF entries # <<>> /\ IsSameNaming(Last(entries), c) THEN out
           ELSE Put(out, e.sid, Put(byChannel, c.channel, Append(entries, naming)))
HistoriesOf(events) == FoldLeft(HistoryStep, EmptyFunction, events)
FoldNameHistory(sid) == ByChannel(HistoriesOf(log), sid)

\* The channels that have a history and that the cap refused.
Refused(sid) == DOMAIN FoldNameHistory(sid) \ DOMAIN proj.sessions[sid].names

\* The first preview the events hold for the session.
Previews(events, sid) ==
  {i \in Since(events, sid) :
     /\ events[i].op \in {"session_seen", "session_progress", "codex_session_seen"}
     /\ events[i].p.preview # Null}
FirstPreview(events, sid) ==
  LET said == Previews(events, sid)
  IN  IF said = {} THEN Null ELSE events[Min(said)].p.preview

\* Whether the last word on a task in the events, dead markers aside, links it.
Words(events, sid, task) ==
  {i \in Since(events, sid) :
     LET e == events[i] IN
     /\ \/ e.op = "session_link" /\ ~e.p.remove
        \/ e.op = "session_unlink"
     /\ task \in e.p.tasks}
IsLinked(events, sid, task) ==
  LET said == Words(events, sid, task)
  IN  said # {} /\ events[Max(said)].op = "session_link"

-----------------------------------------------------------------------------
\* "Applying the same event twice leaves the projection unchanged", as a write
\* to a cold cache does: its load has folded the event it goes on to apply.
ReplayIsNoop == folded # <<>> => ApplyEvent(proj, Last(folded)) = proj

\* names[], the history reader and the name on display tell the same story: the
\* current name of a channel and its author are the last entry of its history,
\* set_count is its length, and a channel is missing only when the cap refused
\* it; on display is what the highest channel of the chain was given last and
\* not cleared since, or the first prompt ever seen, with the channel it is of.
NamesFollowLog ==
  InOrder =>
    \A sid \in DOMAIN proj.sessions :
      LET names == proj.sessions[sid].names
          history == FoldNameHistory(sid)
          preview == Cleaned(FirstPreview(log, sid))
          said == [c \in ToSet(Precedence) |->
                     IF c = "first_prompt" /\ preview # Null THEN preview
                     ELSE IF c \in DOMAIN history THEN Last(history[c]).value
                     ELSE Null]
      IN  /\ DOMAIN names \subseteq DOMAIN history
          /\ \A c \in DOMAIN names :
               /\ IsSameNaming(names[c], Last(history[c]))
               /\ names[c].set_count = Len(history[c])
          /\ IF Refused(sid) = {}
             THEN proj.sessions[sid].display = ResolveDisplayName(said)
             ELSE Cardinality(DOMAIN names) = MaxChannels

\* A task is linked if and only if the last word about it in the log links it.
AllTasks == UNION {t.p.tasks : t \in {x \in templates : x.op = "session_link"}}
LinksFollowLog ==
  InOrder =>
    \A sid \in DOMAIN proj.sessions, task \in AllTasks :
      task \in proj.sessions[sid].tasks <=> IsLinked(log, sid, task)

\* When every event has been folded, in whatever order and however often, the
\* times and sets of a session are those of the log: created at the earliest
\* sighting, progressed at the latest activity, and each merge request first
\* seen when it was.
TimesConverge ==
  ToSet(folded) = ToSet(log) =>
    \A sid \in DOMAIN proj.sessions :
      LET s == proj.sessions[sid]
          said == {e \in ToSet(log) : e.sid = sid}
          Of(ops) == {e \in said : e.op \in ops}
          born == log[Min(Since(log, sid))].ts
          sighted == {e.p.created_at :
                        e \in Of({"session_seen", "codex_session_seen"})} \ {Null}
          active == {e.ts : e \in Of(Ops \ (OBSERVATION_ONLY_OPS \union {"sweep"}))}
          swept == {e.p.effective : e \in Of({"sweep"})}
          prs == Of({"pr_link_seen"})
      IN  Of({"session_prune"}) = {} =>
            /\ s.created_at = Min({born} \union sighted)
            /\ s.last_progress_at = Max({born} \union active \union (swept \ {Null}))
            /\ \A key \in DOMAIN s.prs :
                 s.prs[key].first_seen_at =
                   Min({e.p.observed_at : e \in {x \in prs : PrKey(x) = key}})
            /\ Cardinality(DOMAIN s.prs) < MaxPrLinks =>
                 \A e \in prs : PrKey(e) \in DOMAIN s.prs
=============================================================================
