------------------------------ MODULE Reducers ------------------------------
(***************************************************************************)
(* lib/projection.mjs, with the folds of lib/names.mjs and lib/pr-links.mjs*)
(* it calls: what one event does to the record of a session.  There are no *)
(* variables here: Projection folds logs with these operators, Operations  *)
(* decides with them what to log.                                          *)
(*                                                                         *)
(* A session record keeps one field per merge rule of the reducers; the    *)
(* fields the code merges by the same rule are named where it is defined.  *)
(* Time stamps are naturals, ids and texts model values; Junk is a text    *)
(* that sanitizeNameValue reduces to nothing, as transcripts held before   *)
(* names were cleaned on the way in.                                       *)
(***************************************************************************)
EXTENDS Naturals, SequencesExt

CONSTANTS
  Null, Junk,
  Precedence,   \* NAME_PRECEDENCE, the first channel wins
  MaxChannels,  \* MAX_CHANNELS_PER_SESSION
  MaxPrLinks    \* MAX_PR_LINKS_PER_SESSION

ASSUME CapsType == MaxChannels \in Nat /\ MaxPrLinks \in Nat

NamelessOps == {"session_seen", "session_progress", "session_link",
                "session_unlink", "parent_set", "close", "sweep",
                "codex_session_seen", "pr_link_seen", "session_prune"}
NameOps == {"name_set", "alias_set", "ai_title_seen"}
Ops == NamelessOps \union NameOps

-----------------------------------------------------------------------------
\* The record of one session.

EmptyFunction == [x \in {} |-> Null]
\* An entry of a map is set.
Put(map, key, value) ==
  [x \in DOMAIN map \union {key} |-> IF x = key THEN value ELSE map[x]]
NoName == [channel |-> Null, name |-> Null]

EmptySession(ts) ==
  [source |-> "claude", csids |-> {}, codexIds |-> {},
   names |-> EmptyFunction, alias |-> Null, ai_title |-> Null,
   display |-> NoName,
   prs |-> EmptyFunction, tasks |-> {}, parent |-> Null,
   preview |-> Null, branch |-> Null,
   activity |-> "active", outcome |-> "open", closed_at |-> Null,
   created_at |-> ts, last_progress_at |-> ts]

EmptyProjection ==
  [sessions |-> EmptyFunction, event_count |-> 0, last_event_id |-> Null]

SetIfPresent(old, new) == IF new = Null THEN old ELSE new
SetIfMissing(old, new) == IF old = Null THEN new ELSE old
Earlier(old, new) == IF new # Null /\ new < old THEN new ELSE old
Later(old, new) == IF new # Null /\ new > old THEN new ELSE old

-----------------------------------------------------------------------------
\* Names: one entry per channel, the current value only.

\* Whether the event says something about a name, and what (Null: cleared).
SaysName(e) == e.op \in NameOps /\ e.p.value # Junk
NameChange(e) ==
  CASE e.op = "name_set" ->
         [channel |-> e.p.channel, value |-> e.p.value, source |-> e.p.source]
    [] e.op = "alias_set" ->
         [channel |-> "alias", value |-> e.p.value, source |-> "human"]
    [] e.op = "ai_title_seen" ->
         [channel |-> "cc_ai_title", value |-> e.p.value, source |-> "llm"]

IsSameNaming(a, b) == a.value = b.value /\ a.source = b.source

Entry(c, count) == [value |-> c.value, source |-> c.source, set_count |-> count]
Renamed(names, c) ==
  [names EXCEPT ![c.channel] = Entry(c, @.set_count + 1)]

\* Bugs to compare with: every naming counts; the source is not compared.
CountEveryNaming(names, c) ==
  IF c.channel \in DOMAIN names THEN Renamed(names, c)
  ELSE IF Cardinality(DOMAIN names) >= MaxChannels THEN names
  ELSE Put(names, c.channel, Entry(c, 1))
CompareValueOnly(names, c) ==
  IF c.channel \in DOMAIN names
  THEN IF names[c.channel].value = c.value THEN names ELSE Renamed(names, c)
  ELSE IF Cardinality(DOMAIN names) >= MaxChannels THEN names
  ELSE Put(names, c.channel, Entry(c, 1))

\* applyNameToSession.  A channel already there is never refused; a new one
\* is, beyond the cap.
ApplyName(names, c) ==
  IF c.channel \in DOMAIN names
  THEN IF IsSameNaming(names[c.channel], c) THEN names ELSE Renamed(names, c)
  ELSE IF Cardinality(DOMAIN names) >= MaxChannels THEN names
  ELSE Put(names, c.channel, Entry(c, 1))

\* nameValuesFromSession: the entry of the channel, else the field kept from
\* before there were entries, cleaned; first_prompt is no entry but the preview.
Cleaned(v) == IF v = Junk THEN Null ELSE v
NameValue(s, channel) ==
  IF channel = "first_prompt" /\ Cleaned(s.preview) # Null THEN s.preview
  ELSE IF channel \in DOMAIN s.names THEN s.names[channel].value
  ELSE CASE channel = "alias" -> Cleaned(s.alias)
         [] channel = "cc_ai_title" -> Cleaned(s.ai_title)
         [] OTHER -> Null

\* resolveDisplayName: the first channel of the chain that has a value.
ResolveDisplayName(values) ==
  LET named == {i \in DOMAIN Precedence : values[Precedence[i]] # Null}
  IN  IF named = {} THEN NoName
      ELSE LET channel == Precedence[Min(named)]
           IN  [channel |-> channel, name |-> values[channel]]
RefreshDerivedNames(s) ==
  [s EXCEPT !.display =
     ResolveDisplayName([c \in ToSet(Precedence) |-> NameValue(s, c)])]

-----------------------------------------------------------------------------
\* The reducers.  Each takes the record s and the event e.

ReduceName(s, e) ==
  IF SaysName(e) THEN [s EXCEPT !.names = ApplyName(@, NameChange(e))] ELSE s

\* reduceNameSet keeps the two old fields in step, when the naming changed
\* something.
MirrorDerivedField(s, c) ==
  CASE c.channel = "alias" -> [s EXCEPT !.alias = c.value]
    [] c.channel = "cc_ai_title" -> [s EXCEPT !.ai_title = c.value]
    [] OTHER -> s
ReduceNameSet(s, e) ==
  LET named == ReduceName(s, e) IN
  IF named.names = s.names THEN s ELSE MirrorDerivedField(named, NameChange(e))

\* The old field takes the value as it is, whatever becomes of the entry.  Left
\* out: an alias_set without any value, which does nothing; no version wrote one.
\* A bug to compare with: a cleared alias stays in the old field.
AliasNeverCleared(s, e) == [ReduceName(s, e) EXCEPT !.alias = SetIfPresent(@, e.p.value)]
ReduceAliasSet(s, e) == [ReduceName(s, e) EXCEPT !.alias = e.p.value]
ReduceAiTitleSeen(s, e) == [ReduceName(s, e) EXCEPT !.ai_title = e.p.value]

\* csids: appended if new.  branch stands for branch_current, head_last_seen
\* and the worktree fields (last write wins); preview for
\* first_prompt_preview, branch_at_start, head_at_start, cwd and the
\* fingerprints (first write wins).  Left out: transcript_files (last write
\* wins, per path), parent_candidate_ids and manual_link (a union, like csids)
\* and identity_resolution (last write wins).
ReduceSessionSeen(s, e) ==
  [s EXCEPT !.csids = @ \union {e.p.csid},
            !.branch = SetIfPresent(@, e.p.branch),
            !.preview = SetIfMissing(@, e.p.preview),
            !.created_at = Earlier(@, e.p.created_at)]

ReduceSessionProgress(s, e) ==
  [s EXCEPT !.csids = @ \union {e.p.csid},
            !.branch = SetIfPresent(@, e.p.branch),
            !.preview = SetIfMissing(@, e.p.preview)]

\* Codex has no branch; cwd, originator and thread source (last write wins here)
\* are left out.
ReduceCodexSessionSeen(s, e) ==
  [s EXCEPT !.source = "codex",
            !.codexIds = @ \union {e.p.codexId},
            !.preview = SetIfMissing(@, e.p.preview),
            !.created_at = Earlier(@, e.p.created_at)]

\* tasks stands for tasks and projects.  `remove` marks the events an old
\* `link --remove` wrote: they are dead.
\* A bug to compare with: the mark is not looked at.
ReduceMarkerAdds(s, e) == [s EXCEPT !.tasks = @ \union e.p.tasks]
ReduceSessionLink(s, e) ==
  IF e.p.remove THEN s ELSE [s EXCEPT !.tasks = @ \union e.p.tasks]
ReduceSessionUnlink(s, e) == [s EXCEPT !.tasks = @ \ e.p.tasks]

ReduceParentSet(s, e) == [s EXCEPT !.parent = e.p.parent]

ReduceClose(s, e) == [s EXCEPT !.outcome = e.p.outcome, !.closed_at = e.ts]

ReduceSweep(s, e) ==
  [s EXCEPT !.activity = e.p.activity,
            !.last_progress_at = Later(@, e.p.effective)]

\* applyPrLinkToSession: a link is the repository (which may be unknown) and
\* the number; seen again, it may gain a url, and an earlier first sighting.
PrKey(e) == [repository |-> e.p.repository, number |-> e.p.number]
PrLink(e) == [url |-> e.p.url, first_seen_at |-> e.p.observed_at]
PrLinkAgain(link, e) ==
  [url |-> SetIfMissing(link.url, e.p.url),
   first_seen_at |-> Earlier(link.first_seen_at, e.p.observed_at)]
ApplyPrLink(prs, e) ==
  IF PrKey(e) \in DOMAIN prs THEN [prs EXCEPT ![PrKey(e)] = PrLinkAgain(@, e)]
  ELSE IF Cardinality(DOMAIN prs) >= MaxPrLinks THEN prs
  ELSE Put(prs, PrKey(e), PrLink(e))
ReducePrLinkSeen(s, e) == [s EXCEPT !.prs = ApplyPrLink(@, e)]

Reduce(s, e) ==
  CASE e.op = "session_seen" -> ReduceSessionSeen(s, e)
    [] e.op = "session_progress" -> ReduceSessionProgress(s, e)
    [] e.op = "session_link" -> ReduceSessionLink(s, e)
    [] e.op = "session_unlink" -> ReduceSessionUnlink(s, e)
    [] e.op = "alias_set" -> ReduceAliasSet(s, e)
    [] e.op = "ai_title_seen" -> ReduceAiTitleSeen(s, e)
    [] e.op = "name_set" -> ReduceNameSet(s, e)
    [] e.op = "parent_set" -> ReduceParentSet(s, e)
    [] e.op = "close" -> ReduceClose(s, e)
    [] e.op = "sweep" -> ReduceSweep(s, e)
    [] e.op = "codex_session_seen" -> ReduceCodexSessionSeen(s, e)
    [] e.op = "pr_link_seen" -> ReducePrLinkSeen(s, e)

\* Reading about a session is no activity of it, a sweep neither.
OBSERVATION_ONLY_OPS == {"name_set", "pr_link_seen", "ai_title_seen"}
\* A bug to compare with: a harvested name is dated to the harvest.
EveryOpBumps(s, e) ==
  IF e.op = "sweep" THEN s ELSE [s EXCEPT !.last_progress_at = Later(@, e.ts)]
Bump(s, e) ==
  IF e.op \in OBSERVATION_ONLY_OPS \union {"sweep"} THEN s
  ELSE [s EXCEPT !.last_progress_at = Later(@, e.ts)]

\* The record is created before the reducer runs, whatever the event.
SessionOrNew(sessions, e) ==
  IF e.sid \in DOMAIN sessions THEN sessions[e.sid] ELSE EmptySession(e.ts)

FoldSession(sessions, e) ==
  IF e.op = "session_prune" THEN Restrict(sessions, DOMAIN sessions \ {e.sid})
  ELSE LET reduced == Bump(Reduce(SessionOrNew(sessions, e), e), e)
       IN  Put(sessions, e.sid, RefreshDerivedNames(reduced))

\* applyEvent.  Only a replay of the event folded last is recognised.
ApplyEvent(p, e) ==
  [sessions |-> FoldSession(p.sessions, e),
   event_count |-> p.event_count + (IF p.last_event_id = e.id THEN 0 ELSE 1),
   last_event_id |-> e.id]

\* rebuildFromEvents
RebuildFromEvents(events) == FoldLeft(ApplyEvent, EmptyProjection, events)

\* computePruneCandidates: no sign that anybody touched the session.  The
\* preview stands for the fingerprints too, which the code asks for apart.  The
\* age and whether a transcript is on disk are asked by Operations.
IsUntouched(s) ==
  /\ s.source = "claude"
  /\ s.preview = Null /\ s.ai_title = Null /\ s.alias = Null
  /\ DOMAIN s.names = {}
  /\ s.parent = Null
  /\ s.tasks = {}
  /\ s.outcome = "open"
IsGhost(sessions, sid) ==
  /\ IsUntouched(sessions[sid])
  /\ \A other \in DOMAIN sessions : sessions[other].parent # sid
=============================================================================
