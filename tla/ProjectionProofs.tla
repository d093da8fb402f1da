--------------------------- MODULE ProjectionProofs ---------------------------
(***************************************************************************)
(* What module Projection says of the records and of the log, proved for   *)
(* any sessions, any events, any order of folding and any bounds.          *)
(***************************************************************************)
EXTENDS Projection, FiniteSetTheorems, SequenceTheorems, TLAPS

-----------------------------------------------------------------------------
\* The events, and the records they are folded into.

Numbered(n, t) == [id |-> n, op |-> t.op, sid |-> t.sid, ts |-> t.ts, p |-> t.p]
EventSet == {Numbered(n, t) : n \in Nat, t \in UNION Families}

LEMMA EventType ==
  ASSUME NEW e \in EventSet
  PROVE  /\ e.id \in Nat /\ e.op \in Ops /\ e.sid \in Sids /\ e.ts \in Nat
         /\ e.op \in {"session_seen", "codex_session_seen"} => e.p.created_at \in Time
         /\ e.op = "sweep" => e.p.effective \in Time
         /\ e.op = "pr_link_seen" => e.p.observed_at \in Nat
  <1>1. PICK n \in Nat, t \in UNION Families : e = Numbered(n, t)
    BY DEF EventSet
  <1>2. PICK family \in Families : t \in family
    OBVIOUS
  <1> QED
    BY <1>1, <1>2, FamiliesType DEF Numbered

\* A record has the fields of a new one, and its times are times.
SessionFields ==
  {"source", "csids", "codexIds", "names", "alias", "ai_title", "display", "prs",
   "tasks", "parent", "preview", "branch", "activity", "outcome", "closed_at",
   "created_at", "last_progress_at"}
IsSession(s) ==
  /\ s = [f \in SessionFields |-> s[f]]
  /\ s.names = [c \in DOMAIN s.names |-> s.names[c]]
  /\ s.prs = [k \in DOMAIN s.prs |-> s.prs[k]]
  /\ s.created_at \in Nat /\ s.last_progress_at \in Nat

LEMMA NewSession ==
  ASSUME NEW ts \in Nat
  PROVE  IsSession(EmptySession(ts))
  BY DEF IsSession, SessionFields, EmptySession, EmptyFunction

\* Refreshing what is displayed touches nothing else.
Alike(s, t) ==
  /\ t.source = s.source /\ t.csids = s.csids /\ t.codexIds = s.codexIds
  /\ t.names = s.names /\ t.alias = s.alias /\ t.ai_title = s.ai_title
  /\ t.prs = s.prs /\ t.tasks = s.tasks /\ t.parent = s.parent
  /\ t.preview = s.preview /\ t.branch = s.branch /\ t.activity = s.activity
  /\ t.outcome = s.outcome /\ t.closed_at = s.closed_at
  /\ t.created_at = s.created_at
SameButDisplay(s, t) == Alike(s, t) /\ t.last_progress_at = s.last_progress_at

LEMMA RefreshIs ==
  ASSUME NEW s, IsSession(s)
  PROVE  /\ IsSession(RefreshDerivedNames(s))
         /\ SameButDisplay(s, RefreshDerivedNames(s))
         /\ RefreshDerivedNames(s).display =
              ResolveDisplayName([c \in ToSet(Precedence) |-> NameValue(s, c)])
  <1> DEFINE d == ResolveDisplayName([c \in ToSet(Precedence) |-> NameValue(s, c)])
  <1>1. RefreshDerivedNames(s) = [s EXCEPT !.display = d]
    BY DEF RefreshDerivedNames
  <1> HIDE DEF d
  <1>2. [s EXCEPT !.display = d].display = d
    BY DEF IsSession, SessionFields
  <1>3. SameButDisplay(s, [s EXCEPT !.display = d])
    BY DEF IsSession, SessionFields, SameButDisplay, Alike
  <1>4. IsSession([s EXCEPT !.display = d])
    BY DEF IsSession, SessionFields
  <1> QED
    BY <1>1, <1>2, <1>3, <1>4 DEF d

\* What is displayed follows from the rest of the record.
LEMMA RefreshTwice ==
  ASSUME NEW s, IsSession(s)
  PROVE  RefreshDerivedNames(RefreshDerivedNames(s)) = RefreshDerivedNames(s)
  <1> DEFINE y == RefreshDerivedNames(s)
  <1>1. /\ IsSession(y) /\ SameButDisplay(s, y)
        /\ y.display = ResolveDisplayName([c \in ToSet(Precedence) |-> NameValue(s, c)])
    BY RefreshIs
  <1> HIDE DEF y
  <1>2. \A c \in ToSet(Precedence) : NameValue(y, c) = NameValue(s, c)
    BY <1>1 DEF SameButDisplay, Alike, NameValue
  <1>3. [c \in ToSet(Precedence) |-> NameValue(y, c)]
          = [c \in ToSet(Precedence) |-> NameValue(s, c)]
    BY <1>2
  <1>4. RefreshDerivedNames(y) = [y EXCEPT !.display = y.display]
    BY <1>1, <1>3 DEF RefreshDerivedNames
  <1>5. [y EXCEPT !.display = y.display] = y
    BY <1>1 DEF IsSession, SessionFields
  <1> QED
    BY <1>4, <1>5 DEF y

-----------------------------------------------------------------------------
\* One event.

LEMMA ReduceIs ==
  ASSUME NEW s, NEW e
  PROVE  /\ e.op = "session_seen" => Reduce(s, e) = ReduceSessionSeen(s, e)
         /\ e.op = "session_progress" => Reduce(s, e) = ReduceSessionProgress(s, e)
         /\ e.op = "session_link" => Reduce(s, e) = ReduceSessionLink(s, e)
         /\ e.op = "session_unlink" => Reduce(s, e) = ReduceSessionUnlink(s, e)
         /\ e.op = "alias_set" => Reduce(s, e) = ReduceAliasSet(s, e)
         /\ e.op = "ai_title_seen" => Reduce(s, e) = ReduceAiTitleSeen(s, e)
         /\ e.op = "name_set" => Reduce(s, e) = ReduceNameSet(s, e)
         /\ e.op = "parent_set" => Reduce(s, e) = ReduceParentSet(s, e)
         /\ e.op = "close" => Reduce(s, e) = ReduceClose(s, e)
         /\ e.op = "sweep" => Reduce(s, e) = ReduceSweep(s, e)
         /\ e.op = "codex_session_seen" => Reduce(s, e) = ReduceCodexSessionSeen(s, e)
         /\ e.op = "pr_link_seen" => Reduce(s, e) = ReducePrLinkSeen(s, e)
  BY DEF Reduce

\* Naming a channel yields a function, and the naming settles: said again it
\* changes nothing.
LEMMA ApplyNameIs ==
  ASSUME NEW names, names = [c \in DOMAIN names |-> names[c]], NEW c
  PROVE  LET after == ApplyName(names, c) IN
         /\ after = [d \in DOMAIN after |-> after[d]]
         /\ ApplyName(after, c) = after
  <1> DEFINE after == ApplyName(names, c)
  <1>1. CASE c.channel \in DOMAIN names /\ IsSameNaming(names[c.channel], c)
    <2>1. after = names
      BY <1>1 DEF ApplyName
    <2> QED
      BY <2>1
  <1>2. CASE c.channel \in DOMAIN names /\ ~IsSameNaming(names[c.channel], c)
    <2> DEFINE n == Entry(c, names[c.channel].set_count + 1)
    <2>1. after = [names EXCEPT ![c.channel] = n]
      BY <1>2 DEF ApplyName, Renamed
    <2>2. IsSameNaming(n, c)
      BY DEF Entry, IsSameNaming
    <2> HIDE DEF n
    <2>3. /\ DOMAIN after = DOMAIN names /\ after[c.channel] = n
          /\ after = [d \in DOMAIN after |-> after[d]]
      BY <1>2, <2>1
    <2> HIDE DEF after
    <2>4. ApplyName(after, c) = after
      BY <1>2, <2>2, <2>3 DEF ApplyName
    <2> QED
      BY <2>3, <2>4 DEF after
  <1>3. CASE c.channel \notin DOMAIN names /\ Cardinality(DOMAIN names) >= MaxChannels
    <2>1. after = names
      BY <1>3 DEF ApplyName
    <2> QED
      BY <2>1
  <1>4. CASE c.channel \notin DOMAIN names /\ ~(Cardinality(DOMAIN names) >= MaxChannels)
    <2> DEFINE n == Entry(c, 1)
    <2>1. after = Put(names, c.channel, n)
      BY <1>4 DEF ApplyName
    <2>2. IsSameNaming(n, c)
      BY DEF Entry, IsSameNaming
    <2> HIDE DEF n
    <2>3. /\ c.channel \in DOMAIN after /\ after[c.channel] = n
          /\ after = [d \in DOMAIN after |-> after[d]]
      BY <1>4, <2>1 DEF Put
    <2> HIDE DEF after
    <2>4. ApplyName(after, c) = after
      BY <1>4, <2>2, <2>3 DEF ApplyName
    <2> QED
      BY <2>3, <2>4 DEF after
  <1> QED
    BY <1>1, <1>2, <1>3, <1>4

\* Each reducer keeps the form of a record, and settles: it does nothing to a
\* record that looks as the one it has returned, except for what is displayed.
LEMMA SeenSettles ==
  ASSUME NEW s, IsSession(s), NEW e, e.p.created_at \in Time
  PROVE  /\ IsSession(ReduceSessionSeen(s, e))
         /\ \A y : IsSession(y) /\ Alike(ReduceSessionSeen(s, e), y)
                     => ReduceSessionSeen(y, e) = y
  <1> DEFINE t == ReduceSessionSeen(s, e)
  <1>1. IsSession(t)
    BY DEF ReduceSessionSeen, Earlier, Time, IsSession, SessionFields
  <1>2. /\ t.csids = s.csids \union {e.p.csid}
        /\ t.branch = SetIfPresent(s.branch, e.p.branch)
        /\ t.preview = SetIfMissing(s.preview, e.p.preview)
        /\ t.created_at = Earlier(s.created_at, e.p.created_at)
    BY DEF ReduceSessionSeen, IsSession, SessionFields
  <1> HIDE DEF t
  <1> SUFFICES ASSUME NEW y, IsSession(y), Alike(t, y)
               PROVE  ReduceSessionSeen(y, e) = y
    BY <1>1 DEF t
  <1>3. y.csids \union {e.p.csid} = y.csids
    BY <1>2 DEF Alike
  <1>4. SetIfPresent(y.branch, e.p.branch) = y.branch
    BY <1>2 DEF Alike, SetIfPresent
  <1>5. SetIfMissing(y.preview, e.p.preview) = y.preview
    BY <1>2 DEF Alike, SetIfMissing
  <1>6. Earlier(y.created_at, e.p.created_at) = y.created_at
    BY <1>2 DEF Alike, Earlier, Time
  <1> QED
    BY <1>3, <1>4, <1>5, <1>6 DEF ReduceSessionSeen, IsSession, SessionFields

LEMMA ProgressSettles ==
  ASSUME NEW s, IsSession(s), NEW e
  PROVE  /\ IsSession(ReduceSessionProgress(s, e))
         /\ \A y : IsSession(y) /\ Alike(ReduceSessionProgress(s, e), y)
                     => ReduceSessionProgress(y, e) = y
  <1> DEFINE t == ReduceSessionProgress(s, e)
  <1>1. IsSession(t)
    BY DEF ReduceSessionProgress, IsSession, SessionFields
  <1>2. /\ t.csids = s.csids \union {e.p.csid}
        /\ t.branch = SetIfPresent(s.branch, e.p.branch)
        /\ t.preview = SetIfMissing(s.preview, e.p.preview)
    BY DEF ReduceSessionProgress, IsSession, SessionFields
  <1> HIDE DEF t
  <1> SUFFICES ASSUME NEW y, IsSession(y), Alike(t, y)
               PROVE  ReduceSessionProgress(y, e) = y
    BY <1>1 DEF t
  <1>3. y.csids \union {e.p.csid} = y.csids
    BY <1>2 DEF Alike
  <1>4. SetIfPresent(y.branch, e.p.branch) = y.branch
    BY <1>2 DEF Alike, SetIfPresent
  <1>5. SetIfMissing(y.preview, e.p.preview) = y.preview
    BY <1>2 DEF Alike, SetIfMissing
  <1> QED
    BY <1>3, <1>4, <1>5 DEF ReduceSessionProgress, IsSession, SessionFields

LEMMA CodexSeenSettles ==
  ASSUME NEW s, IsSession(s), NEW e, e.p.created_at \in Time
  PROVE  /\ IsSession(ReduceCodexSessionSeen(s, e))
         /\ \A y : IsSession(y) /\ Alike(ReduceCodexSessionSeen(s, e), y)
                     => ReduceCodexSessionSeen(y, e) = y
  <1> DEFINE t == ReduceCodexSessionSeen(s, e)
  <1>1. IsSession(t)
    BY DEF ReduceCodexSessionSeen, Earlier, Time, IsSession, SessionFields
  <1>2. /\ t.source = "codex"
        /\ t.codexIds = s.codexIds \union {e.p.codexId}
        /\ t.preview = SetIfMissing(s.preview, e.p.preview)
        /\ t.created_at = Earlier(s.created_at, e.p.created_at)
    BY DEF ReduceCodexSessionSeen, IsSession, SessionFields
  <1> HIDE DEF t
  <1> SUFFICES ASSUME NEW y, IsSession(y), Alike(t, y)
               PROVE  ReduceCodexSessionSeen(y, e) = y
    BY <1>1 DEF t
  <1>3. y.source = "codex" /\ y.codexIds \union {e.p.codexId} = y.codexIds
    BY <1>2 DEF Alike
  <1>4. SetIfMissing(y.preview, e.p.preview) = y.preview
    BY <1>2 DEF Alike, SetIfMissing
  <1>5. Earlier(y.created_at, e.p.created_at) = y.created_at
    BY <1>2 DEF Alike, Earlier, Time
  <1> QED
    BY <1>3, <1>4, <1>5 DEF ReduceCodexSessionSeen, IsSession, SessionFields

LEMMA LinkSettles ==
  ASSUME NEW s, IsSession(s), NEW e
  PROVE  /\ IsSession(ReduceSessionLink(s, e))
         /\ \A y : IsSession(y) /\ Alike(ReduceSessionLink(s, e), y)
                     => ReduceSessionLink(y, e) = y
  <1> DEFINE t == ReduceSessionLink(s, e)
  <1>1. IsSession(t)
    BY DEF ReduceSessionLink, IsSession, SessionFields
  <1>2. ~e.p.remove => t.tasks = s.tasks \union e.p.tasks
    BY DEF ReduceSessionLink, IsSession, SessionFields
  <1> HIDE DEF t
  <1> SUFFICES ASSUME NEW y, IsSession(y), Alike(t, y)
               PROVE  ReduceSessionLink(y, e) = y
    BY <1>1 DEF t
  <1>3. ~e.p.remove => y.tasks \union e.p.tasks = y.tasks
    BY <1>2 DEF Alike
  <1> QED
    BY <1>3 DEF ReduceSessionLink, IsSession, SessionFields

LEMMA UnlinkSettles ==
  ASSUME NEW s, IsSession(s), NEW e
  PROVE  /\ IsSession(ReduceSessionUnlink(s, e))
         /\ \A y : IsSession(y) /\ Alike(ReduceSessionUnlink(s, e), y)
                     => ReduceSessionUnlink(y, e) = y
  <1> DEFINE t == ReduceSessionUnlink(s, e)
  <1>1. IsSession(t)
    BY DEF ReduceSessionUnlink, IsSession, SessionFields
  <1>2. t.tasks = s.tasks \ e.p.tasks
    BY DEF ReduceSessionUnlink, IsSession, SessionFields
  <1> HIDE DEF t
  <1> SUFFICES ASSUME NEW y, IsSession(y), Alike(t, y)
               PROVE  ReduceSessionUnlink(y, e) = y
    BY <1>1 DEF t
  <1>3. y.tasks \ e.p.tasks = y.tasks
    BY <1>2 DEF Alike
  <1> QED
    BY <1>3 DEF ReduceSessionUnlink, IsSession, SessionFields

LEMMA ParentSettles ==
  ASSUME NEW s, IsSession(s), NEW e
  PROVE  /\ IsSession(ReduceParentSet(s, e))
         /\ \A y : IsSession(y) /\ Alike(ReduceParentSet(s, e), y)
                     => ReduceParentSet(y, e) = y
  <1> DEFINE t == ReduceParentSet(s, e)
  <1>1. IsSession(t) /\ t.parent = e.p.parent
    BY DEF ReduceParentSet, IsSession, SessionFields
  <1> HIDE DEF t
  <1> SUFFICES ASSUME NEW y, IsSession(y), Alike(t, y)
               PROVE  ReduceParentSet(y, e) = y
    BY <1>1 DEF t
  <1> QED
    BY <1>1 DEF ReduceParentSet, Alike, IsSession, SessionFields

LEMMA CloseSettles ==
  ASSUME NEW s, IsSession(s), NEW e
  PROVE  /\ IsSession(ReduceClose(s, e))
         /\ \A y : IsSession(y) /\ Alike(ReduceClose(s, e), y) => ReduceClose(y, e) = y
  <1> DEFINE t == ReduceClose(s, e)
  <1>1. IsSession(t) /\ t.outcome = e.p.outcome /\ t.closed_at = e.ts
    BY DEF ReduceClose, IsSession, SessionFields
  <1> HIDE DEF t
  <1> SUFFICES ASSUME NEW y, IsSession(y), Alike(t, y)
               PROVE  ReduceClose(y, e) = y
    BY <1>1 DEF t
  <1> QED
    BY <1>1 DEF ReduceClose, Alike, IsSession, SessionFields

LEMMA SweepSettles ==
  ASSUME NEW s, IsSession(s), NEW e, e.p.effective \in Time
  PROVE  /\ IsSession(ReduceSweep(s, e))
         /\ \A y : IsSession(y) /\ SameButDisplay(ReduceSweep(s, e), y)
                     => ReduceSweep(y, e) = y
  <1> DEFINE t == ReduceSweep(s, e)
  <1>1. IsSession(t)
    BY DEF ReduceSweep, Later, Time, IsSession, SessionFields
  <1>2. /\ t.activity = e.p.activity
        /\ t.last_progress_at = Later(s.last_progress_at, e.p.effective)
    BY DEF ReduceSweep, IsSession, SessionFields
  <1> HIDE DEF t
  <1> SUFFICES ASSUME NEW y, IsSession(y), SameButDisplay(t, y)
               PROVE  ReduceSweep(y, e) = y
    BY <1>1 DEF t
  <1>3. Later(y.last_progress_at, e.p.effective) = y.last_progress_at
    BY <1>2 DEF SameButDisplay, Later, Time
  <1> QED
    BY <1>2, <1>3 DEF ReduceSweep, SameButDisplay, Alike, IsSession, SessionFields

\* Names, and the two fields kept from before there were channels.
LEMMA NameSettles ==
  ASSUME NEW s, IsSession(s), NEW e
  PROVE  /\ IsSession(ReduceName(s, e))
         /\ \A y : IsSession(y) /\ y.names = ReduceName(s, e).names
                     => ReduceName(y, e) = y
  <1> DEFINE t == ReduceName(s, e)
             after == ApplyName(s.names, NameChange(e))
  <1>1. /\ after = [d \in DOMAIN after |-> after[d]]
        /\ ApplyName(after, NameChange(e)) = after
    BY ApplyNameIs DEF IsSession
  <1> HIDE DEF after
  <1>2. IsSession([s EXCEPT !.names = after])
    BY <1>1 DEF IsSession, SessionFields
  <1>3. SaysName(e) => t = [s EXCEPT !.names = after]
    BY DEF ReduceName, after
  <1>4. ~SaysName(e) => t = s
    BY DEF ReduceName
  <1>5. SaysName(e) => t.names = after
    BY <1>3 DEF IsSession, SessionFields
  <1> HIDE DEF t
  <1>6. ASSUME NEW y, IsSession(y), y.names = t.names
        PROVE  ReduceName(y, e) = y
    <2>1. SaysName(e) => ApplyName(y.names, NameChange(e)) = y.names
      BY <1>1, <1>5, <1>6
    <2>2. y = [y EXCEPT !.names = y.names]
      BY <1>6 DEF IsSession, SessionFields
    <2> QED
      BY <2>1, <2>2 DEF ReduceName
  <1> QED
    BY <1>2, <1>3, <1>4, <1>6 DEF t

LEMMA NameSetSettles ==
  ASSUME NEW s, IsSession(s), NEW e
  PROVE  /\ IsSession(ReduceNameSet(s, e))
         /\ \A y : IsSession(y) /\ Alike(ReduceNameSet(s, e), y)
                     => ReduceNameSet(y, e) = y
  <1> DEFINE t == ReduceName(s, e)
             u == MirrorDerivedField(t, NameChange(e))
  <1>1. IsSession(t) /\ \A y : IsSession(y) /\ y.names = t.names => ReduceName(y, e) = y
    BY NameSettles
  <1> HIDE DEF t
  <1>2. IsSession(u) /\ u.names = t.names
    BY <1>1 DEF MirrorDerivedField, IsSession, SessionFields
  <1> HIDE DEF u
  <1>3. \/ ReduceNameSet(s, e) = s /\ t.names = s.names
        \/ ReduceNameSet(s, e) = u
    BY DEF ReduceNameSet, t, u
  <1>4. IsSession(ReduceNameSet(s, e)) /\ ReduceNameSet(s, e).names = t.names
    BY <1>2, <1>3
  <1>5. ASSUME NEW y, IsSession(y), y.names = t.names
        PROVE  ReduceNameSet(y, e) = y
    <2>1. ReduceName(y, e) = y
      BY <1>1, <1>5
    <2> QED
      BY <2>1 DEF ReduceNameSet
  <1> QED
    BY <1>4, <1>5 DEF Alike

LEMMA AliasSettles ==
  ASSUME NEW s, IsSession(s), NEW e
  PROVE  /\ IsSession(ReduceAliasSet(s, e))
         /\ \A y : IsSession(y) /\ Alike(ReduceAliasSet(s, e), y)
                     => ReduceAliasSet(y, e) = y
  <1> DEFINE t == ReduceName(s, e)
             u == ReduceAliasSet(s, e)
  <1>1. IsSession(t) /\ \A y : IsSession(y) /\ y.names = t.names => ReduceName(y, e) = y
    BY NameSettles
  <1>2. u = [t EXCEPT !.alias = e.p.value]
    BY DEF ReduceAliasSet
  <1> HIDE DEF t, u
  <1>3. IsSession(u) /\ u.names = t.names /\ u.alias = e.p.value
    BY <1>1, <1>2 DEF IsSession, SessionFields
  <1>4. ASSUME NEW y, IsSession(y), y.names = t.names, y.alias = e.p.value
        PROVE  ReduceAliasSet(y, e) = y
    <2>1. ReduceName(y, e) = y
      BY <1>1, <1>4
    <2>2. y = [y EXCEPT !.alias = e.p.value]
      BY <1>4 DEF IsSession, SessionFields
    <2> QED
      BY <2>1, <2>2 DEF ReduceAliasSet
  <1> QED
    BY <1>3, <1>4 DEF Alike, u

LEMMA AiTitleSettles ==
  ASSUME NEW s, IsSession(s), NEW e
  PROVE  /\ IsSession(ReduceAiTitleSeen(s, e))
         /\ \A y : IsSession(y) /\ Alike(ReduceAiTitleSeen(s, e), y)
                     => ReduceAiTitleSeen(y, e) = y
  <1> DEFINE t == ReduceName(s, e)
             u == ReduceAiTitleSeen(s, e)
  <1>1. IsSession(t) /\ \A y : IsSession(y) /\ y.names = t.names => ReduceName(y, e) = y
    BY NameSettles
  <1>2. u = [t EXCEPT !.ai_title = e.p.value]
    BY DEF ReduceAiTitleSeen
  <1> HIDE DEF t, u
  <1>3. IsSession(u) /\ u.names = t.names /\ u.ai_title = e.p.value
    BY <1>1, <1>2 DEF IsSession, SessionFields
  <1>4. ASSUME NEW y, IsSession(y), y.names = t.names, y.ai_title = e.p.value
        PROVE  ReduceAiTitleSeen(y, e) = y
    <2>1. ReduceName(y, e) = y
      BY <1>1, <1>4
    <2>2. y = [y EXCEPT !.ai_title = e.p.value]
      BY <1>4 DEF IsSession, SessionFields
    <2> QED
      BY <2>1, <2>2 DEF ReduceAiTitleSeen
  <1> QED
    BY <1>3, <1>4 DEF Alike, u

LEMMA ApplyPrLinkIs ==
  ASSUME NEW prs, prs = [k \in DOMAIN prs |-> prs[k]], NEW e, e.p.observed_at \in Nat
  PROVE  LET after == ApplyPrLink(prs, e) IN
         /\ after = [k \in DOMAIN after |-> after[k]]
         /\ ApplyPrLink(after, e) = after
  <1> DEFINE after == ApplyPrLink(prs, e)
             key == PrKey(e)
  <1>1. CASE key \in DOMAIN prs
    <2> DEFINE link == PrLinkAgain(prs[key], e)
    <2>1. after = [prs EXCEPT ![key] = link]
      BY <1>1 DEF ApplyPrLink
    <2>2. PrLinkAgain(link, e) = link
      BY DEF PrLinkAgain, SetIfMissing, Earlier
    <2> HIDE DEF link, key
    <2>3. /\ key \in DOMAIN after /\ after[key] = link
          /\ after = [k \in DOMAIN after |-> after[k]]
      BY <1>1, <2>1
    <2> HIDE DEF after
    <2>4. ApplyPrLink(after, e) = [after EXCEPT ![key] = link]
      BY <2>2, <2>3 DEF ApplyPrLink, key
    <2> QED
      BY <2>3, <2>4 DEF after
  <1>2. CASE key \notin DOMAIN prs /\ Cardinality(DOMAIN prs) >= MaxPrLinks
    <2>1. after = prs
      BY <1>2 DEF ApplyPrLink
    <2> QED
      BY <2>1
  <1>3. CASE key \notin DOMAIN prs /\ ~(Cardinality(DOMAIN prs) >= MaxPrLinks)
    <2> DEFINE link == PrLink(e)
    <2>1. after = Put(prs, key, link)
      BY <1>3 DEF ApplyPrLink
    <2>2. PrLinkAgain(link, e) = link
      BY DEF PrLink, PrLinkAgain, SetIfMissing, Earlier
    <2> HIDE DEF link, key
    <2>3. /\ key \in DOMAIN after /\ after[key] = link
          /\ after = [k \in DOMAIN after |-> after[k]]
      BY <1>3, <2>1 DEF Put
    <2> HIDE DEF after
    <2>4. ApplyPrLink(after, e) = [after EXCEPT ![key] = link]
      BY <2>2, <2>3 DEF ApplyPrLink, key
    <2> QED
      BY <2>3, <2>4 DEF after
  <1> QED
    BY <1>1, <1>2, <1>3

LEMMA PrLinkSettles ==
  ASSUME NEW s, IsSession(s), NEW e, e.p.observed_at \in Nat
  PROVE  /\ IsSession(ReducePrLinkSeen(s, e))
         /\ \A y : IsSession(y) /\ Alike(ReducePrLinkSeen(s, e), y)
                     => ReducePrLinkSeen(y, e) = y
  <1> DEFINE t == ReducePrLinkSeen(s, e)
             after == ApplyPrLink(s.prs, e)
  <1>1. after = [k \in DOMAIN after |-> after[k]] /\ ApplyPrLink(after, e) = after
    BY ApplyPrLinkIs DEF IsSession
  <1>2. t = [s EXCEPT !.prs = after]
    BY DEF ReducePrLinkSeen
  <1> HIDE DEF t, after
  <1>3. IsSession(t) /\ t.prs = after
    BY <1>1, <1>2 DEF IsSession, SessionFields
  <1>4. ASSUME NEW y, IsSession(y), y.prs = after
        PROVE  ReducePrLinkSeen(y, e) = y
    BY <1>1, <1>4 DEF ReducePrLinkSeen, IsSession, SessionFields
  <1> QED
    BY <1>3, <1>4 DEF Alike, t

\* A reducer for every event but a tombstone, with the bump of the last progress
\* that follows it.
LEMMA ReduceSettles ==
  ASSUME NEW s, IsSession(s), NEW e \in EventSet, e.op # "session_prune"
  PROVE  /\ IsSession(Reduce(s, e))
         /\ \A y : IsSession(y) /\ Alike(Reduce(s, e), y)
                   /\ (e.op = "sweep" => y.last_progress_at = Reduce(s, e).last_progress_at)
                     => Reduce(y, e) = y
  <1>1. CASE e.op = "session_seen"
    <2>1. e.p.created_at \in Time
      BY <1>1, EventType
    <2> QED
      BY <1>1, <2>1, SeenSettles, ReduceIs
  <1>2. CASE e.op = "session_progress"
    BY <1>2, ProgressSettles, ReduceIs
  <1>3. CASE e.op = "session_link"
    BY <1>3, LinkSettles, ReduceIs
  <1>4. CASE e.op = "session_unlink"
    BY <1>4, UnlinkSettles, ReduceIs
  <1>5. CASE e.op = "alias_set"
    BY <1>5, AliasSettles, ReduceIs
  <1>6. CASE e.op = "ai_title_seen"
    BY <1>6, AiTitleSettles, ReduceIs
  <1>7. CASE e.op = "name_set"
    BY <1>7, NameSetSettles, ReduceIs
  <1>8. CASE e.op = "parent_set"
    BY <1>8, ParentSettles, ReduceIs
  <1>9. CASE e.op = "close"
    BY <1>9, CloseSettles, ReduceIs
  <1>10. CASE e.op = "sweep"
    <2>1. e.p.effective \in Time
      BY <1>10, EventType
    <2> QED
      BY <1>10, <2>1, SweepSettles, ReduceIs DEF SameButDisplay
  <1>11. CASE e.op = "codex_session_seen"
    <2>1. e.p.created_at \in Time
      BY <1>11, EventType
    <2> QED
      BY <1>11, <2>1, CodexSeenSettles, ReduceIs
  <1>12. CASE e.op = "pr_link_seen"
    <2>1. e.p.observed_at \in Nat
      BY <1>12, EventType
    <2> QED
      BY <1>12, <2>1, PrLinkSettles, ReduceIs
  <1> QED
    BY <1>1, <1>2, <1>3, <1>4, <1>5, <1>6, <1>7, <1>8, <1>9, <1>10, <1>11, <1>12, EventType
    DEF Ops, NamelessOps, NameOps

LEMMA BumpIs ==
  ASSUME NEW s, IsSession(s), NEW e \in EventSet
  PROVE  /\ IsSession(Bump(s, e)) /\ Alike(s, Bump(s, e))
         /\ Bump(s, e).last_progress_at =
              IF e.op \in OBSERVATION_ONLY_OPS \union {"sweep"}
              THEN s.last_progress_at ELSE Later(s.last_progress_at, e.ts)
  <1>1. Later(s.last_progress_at, e.ts) \in Nat
    BY EventType DEF Later, IsSession
  <1> QED
    BY <1>1 DEF Bump, Alike, IsSession, SessionFields

\* What FoldSession makes of the record of the event's session.
Folded(s, e) == RefreshDerivedNames(Bump(Reduce(s, e), e))

LEMMA FoldedSettles ==
  ASSUME NEW s, IsSession(s), NEW e \in EventSet, e.op # "session_prune"
  PROVE  /\ IsSession(Folded(s, e))
         /\ SameButDisplay(Bump(Reduce(s, e), e), Folded(s, e))
         /\ Folded(Folded(s, e), e) = Folded(s, e)
  <1> DEFINE t == Reduce(s, e)
             b == Bump(t, e)
             y == Folded(s, e)
  <1>1. /\ IsSession(t)
        /\ \A z : IsSession(z) /\ Alike(t, z)
                  /\ (e.op = "sweep" => z.last_progress_at = t.last_progress_at)
                    => Reduce(z, e) = z
    BY ReduceSettles
  <1> HIDE DEF t
  <1>2. /\ IsSession(b) /\ Alike(t, b)
        /\ b.last_progress_at =
             IF e.op \in OBSERVATION_ONLY_OPS \union {"sweep"}
             THEN t.last_progress_at ELSE Later(t.last_progress_at, e.ts)
    BY <1>1, BumpIs
  <1>3. IsSession(RefreshDerivedNames(b)) /\ SameButDisplay(b, RefreshDerivedNames(b))
        /\ RefreshDerivedNames(RefreshDerivedNames(b)) = RefreshDerivedNames(b)
    BY <1>2, RefreshIs, RefreshTwice
  <1>4. y = RefreshDerivedNames(b)
    BY DEF Folded, t
  <1> HIDE DEF b, y
  <1>5. Alike(t, y) /\ y.last_progress_at = b.last_progress_at
    BY <1>2, <1>3, <1>4 DEF Alike, SameButDisplay
  <1>6. Reduce(y, e) = y
    BY <1>1, <1>2, <1>3, <1>4, <1>5
  <1>7. Bump(y, e) = y
    <2>1. CASE e.op \in OBSERVATION_ONLY_OPS \union {"sweep"}
      BY <2>1 DEF Bump
    <2>2. CASE e.op \notin OBSERVATION_ONLY_OPS \union {"sweep"}
      <3>1. Later(y.last_progress_at, e.ts) = y.last_progress_at
        BY <1>2, <1>5, <2>2, EventType DEF Later
      <3>2. [y EXCEPT !.last_progress_at = y.last_progress_at] = y
        BY <1>3, <1>4 DEF IsSession, SessionFields
      <3> QED
        BY <2>2, <3>1, <3>2 DEF Bump
    <2> QED
      BY <2>1, <2>2
  <1>8. Folded(y, e) = y
    BY <1>3, <1>4, <1>6, <1>7 DEF Folded
  <1>9. SameButDisplay(b, y) /\ IsSession(y)
    BY <1>3, <1>4
  <1> QED
    BY <1>8, <1>9 DEF y, b, t

\* Every session of a projection is a record.
IsProjection(p) ==
  /\ p.event_count \in Nat
  /\ \A sid \in DOMAIN p.sessions : IsSession(p.sessions[sid])

LEMMA SessionOrNewIs ==
  ASSUME NEW p, IsProjection(p), NEW e \in EventSet
  PROVE  IsSession(SessionOrNew(p.sessions, e))
  BY NewSession, EventType DEF SessionOrNew, IsProjection

\* What an event does to the records: one is folded or dropped, the others stay.
LEMMA ApplyEventIs ==
  ASSUME NEW p, IsProjection(p), NEW e \in EventSet
  PROVE  LET after == ApplyEvent(p, e).sessions IN
         /\ IsProjection(ApplyEvent(p, e)) /\ ApplyEvent(p, e).last_event_id = e.id
         /\ e.op = "session_prune" =>
              /\ DOMAIN after = DOMAIN p.sessions \ {e.sid}
              /\ \A sid \in DOMAIN after : after[sid] = p.sessions[sid]
         /\ e.op # "session_prune" =>
              /\ DOMAIN after = DOMAIN p.sessions \union {e.sid}
              /\ after[e.sid] = Folded(SessionOrNew(p.sessions, e), e)
              /\ \A sid \in DOMAIN after \ {e.sid} : after[sid] = p.sessions[sid]
  <1> DEFINE q == ApplyEvent(p, e)
             s == SessionOrNew(p.sessions, e)
  <1>1. q.sessions = FoldSession(p.sessions, e) /\ q.last_event_id = e.id
        /\ q.event_count \in Nat
    BY DEF ApplyEvent, IsProjection
  <1>2. CASE e.op = "session_prune"
    <2>1. q.sessions = [sid \in DOMAIN p.sessions \ {e.sid} |-> p.sessions[sid]]
      BY <1>1, <1>2 DEF FoldSession, Restrict
    <2> HIDE DEF q
    <2>2. IsProjection(q)
      BY <1>1, <2>1 DEF IsProjection
    <2> QED
      BY <1>1, <1>2, <2>1, <2>2 DEF q
  <1>3. CASE e.op # "session_prune"
    <2>1. IsSession(s) /\ IsSession(Folded(s, e))
      BY <1>3, SessionOrNewIs, FoldedSettles
    <2>2. q.sessions = Put(p.sessions, e.sid, Folded(s, e))
      BY <1>1, <1>3 DEF FoldSession, Folded
    <2> HIDE DEF q, s
    <2>3. /\ DOMAIN q.sessions = DOMAIN p.sessions \union {e.sid}
          /\ q.sessions[e.sid] = Folded(s, e)
          /\ \A sid \in DOMAIN q.sessions \ {e.sid} : q.sessions[sid] = p.sessions[sid]
      BY <2>2 DEF Put
    <2>4. IsProjection(q)
      BY <1>1, <2>1, <2>3 DEF IsProjection
    <2> QED
      BY <1>1, <1>3, <2>3, <2>4 DEF q, s
  <1> QED
    BY <1>2, <1>3

\* An event applied twice is applied once.
LEMMA ApplyEventTwice ==
  ASSUME NEW p, IsProjection(p), NEW e \in EventSet
  PROVE  ApplyEvent(ApplyEvent(p, e), e) = ApplyEvent(p, e)
  <1> DEFINE q == ApplyEvent(p, e)
             s == SessionOrNew(p.sessions, e)
  <1>1. /\ q.sessions = FoldSession(p.sessions, e) /\ q.last_event_id = e.id
        /\ q = [sessions |-> q.sessions, event_count |-> q.event_count,
                last_event_id |-> e.id]
        /\ q.event_count \in Nat
    BY DEF ApplyEvent, IsProjection
  <1>2. FoldSession(q.sessions, e) = q.sessions
    <2>1. CASE e.op = "session_prune"
      <3>1. q.sessions = [sid \in DOMAIN p.sessions \ {e.sid} |-> p.sessions[sid]]
        BY <1>1, <2>1 DEF FoldSession, Restrict
      <3> HIDE DEF q
      <3>2. FoldSession(q.sessions, e) = [sid \in DOMAIN q.sessions \ {e.sid} |-> q.sessions[sid]]
        BY <2>1 DEF FoldSession, Restrict
      <3> QED
        BY <3>1, <3>2
    <2>2. CASE e.op # "session_prune"
      <3>1. Folded(Folded(s, e), e) = Folded(s, e)
        BY <2>2, SessionOrNewIs, FoldedSettles
      <3>2. q.sessions = Put(p.sessions, e.sid, Folded(s, e))
        BY <1>1, <2>2 DEF FoldSession, Folded
      <3> HIDE DEF q, s
      <3>3. SessionOrNew(q.sessions, e) = Folded(s, e)
        BY <3>2 DEF SessionOrNew, Put
      <3>4. FoldSession(q.sessions, e) = Put(q.sessions, e.sid, Folded(s, e))
        BY <2>2, <3>1, <3>3 DEF FoldSession, Folded
      <3> QED
        BY <3>2, <3>4 DEF Put
    <2> QED
      BY <2>1, <2>2
  <1> HIDE DEF q
  <1>3. ApplyEvent(q, e) = [sessions |-> q.sessions, event_count |-> q.event_count + 0,
                            last_event_id |-> e.id]
    BY <1>1, <1>2 DEF ApplyEvent
  <1> QED
    BY <1>1, <1>3 DEF q

-----------------------------------------------------------------------------
\* The projection is always a fold: of some events, in some order.

RecordsOf(events, p) ==
  /\ IsProjection(p)
  /\ events = <<>> => p.last_event_id = Null
  /\ events # <<>> => /\ p.last_event_id = Last(events).id
                      /\ ApplyEvent(p, Last(events)) = p

Fold == INSTANCE Folding WITH Op <- ApplyEvent, Rel <- RecordsOf

LEMMA FoldLeftSame ==
  ASSUME NEW events
  PROVE  RebuildFromEvents(events) = Fold!FoldLeft(ApplyEvent, EmptyProjection, events)
  BY DEF RebuildFromEvents, FoldLeft, Fold!FoldLeft, MapThenFoldSet, Fold!MapThenFoldSet,
         Max, Fold!Max

LEMMA RebuildEmpty == RebuildFromEvents(<<>>) = EmptyProjection
  BY FoldLeftSame, Fold!FoldEmpty

LEMMA RebuildAppend ==
  ASSUME NEW events \in Seq(EventSet), NEW e \in EventSet
  PROVE  RebuildFromEvents(Append(events, e)) = ApplyEvent(RebuildFromEvents(events), e)
  BY FoldLeftSame, Fold!FoldAppend

LEMMA LastOfAppend ==
  ASSUME NEW S, NEW seq \in Seq(S), NEW e
  PROVE  Append(seq, e) # <<>> /\ Last(Append(seq, e)) = e
  BY DEF Last

LEMMA RebuildIs ==
  ASSUME NEW events \in Seq(EventSet)
  PROVE  RecordsOf(events, RebuildFromEvents(events))
  <1>1. RecordsOf(<<>>, EmptyProjection)
    BY DEF RecordsOf, IsProjection, EmptyProjection, EmptyFunction
  <1>2. \A s \in Seq(EventSet), e \in EventSet :
          RecordsOf(s, Fold!FoldLeft(ApplyEvent, EmptyProjection, s)) =>
            RecordsOf(Append(s, e),
                      ApplyEvent(Fold!FoldLeft(ApplyEvent, EmptyProjection, s), e))
    <2> SUFFICES ASSUME NEW s \in Seq(EventSet), NEW e \in EventSet, NEW p, IsProjection(p)
                 PROVE  RecordsOf(Append(s, e), ApplyEvent(p, e))
      BY DEF RecordsOf
    <2>1. IsProjection(ApplyEvent(p, e)) /\ ApplyEvent(p, e).last_event_id = e.id
      BY ApplyEventIs
    <2>2. ApplyEvent(ApplyEvent(p, e), e) = ApplyEvent(p, e)
      BY ApplyEventTwice
    <2> QED
      BY <2>1, <2>2, LastOfAppend DEF RecordsOf
  <1>3. RecordsOf(events, Fold!FoldLeft(ApplyEvent, EmptyProjection, events))
    BY <1>1, <1>2, Fold!FoldKeeps
  <1> QED
    BY <1>3, FoldLeftSame

\* The log numbers its events; what is folded or waits for it is logged; and the
\* projection is the fold of what has been folded, whatever was lost and rebuilt
\* on the way.
FoldInv ==
  /\ templates \in Families
  /\ log \in Seq(EventSet)
  /\ \A i \in DOMAIN log : log[i].id = i
  /\ folded \in Seq(EventSet)
  /\ \A i \in DOMAIN folded : folded[i] \in ToSet(log)
  /\ unfolded \subseteq ToSet(log)
  /\ proj = RebuildFromEvents(folded)

LEMMA NewEventIs ==
  ASSUME FoldInv, NEW t \in templates
  PROVE  NewEvent(t) \in EventSet /\ NewEvent(t).id = Len(log) + 1
  <1>1. t \in UNION Families /\ Len(log) + 1 \in Nat
    BY DEF FoldInv
  <1>2. NewEvent(t) = Numbered(Len(log) + 1, t)
    BY DEF NewEvent, Numbered
  <1> QED
    BY <1>1, <1>2 DEF EventSet, NewEvent

LEMMA LoadableIs ==
  ASSUME FoldInv, NEW loaded \in Loadable
  PROVE  /\ loaded.events \in Seq(EventSet)
         /\ loaded.proj = RebuildFromEvents(loaded.events)
         /\ \A i \in DOMAIN loaded.events : loaded.events[i] \in ToSet(log)
  BY DEF FoldInv, Loadable, ToSet

\* Among the events of the log the id tells them apart.
LEMMA LoggedIs ==
  ASSUME FoldInv, NEW e \in ToSet(log)
  PROVE  /\ e \in EventSet /\ e.id \in 1 .. Len(log) /\ Len(log) \in Nat
         /\ e = log[e.id]
  BY DEF FoldInv, ToSet

LEMMA FoldIntoIs ==
  ASSUME FoldInv, NEW loaded \in Loadable, NEW e \in EventSet, FoldInto(loaded, e),
         \A x \in ToSet(log) : x.id = e.id => x = e
  PROVE  /\ folded' \in Seq(EventSet) /\ proj' = RebuildFromEvents(folded')
         /\ \A i \in DOMAIN folded' : folded'[i] \in ToSet(log) \union {e}
  <1> DEFINE events == loaded.events
             p == loaded.proj
  <1>1. /\ events \in Seq(EventSet) /\ p = RebuildFromEvents(events)
        /\ \A i \in DOMAIN events : events[i] \in ToSet(log)
    BY LoadableIs
  <1>2. /\ proj' = ApplyEvent(p, e)
        /\ folded' = IF p.last_event_id = e.id THEN events ELSE Append(events, e)
    BY DEF FoldInto
  <1> HIDE DEF events, p
  <1>3. RecordsOf(events, p)
    BY <1>1, RebuildIs
  <1>4. CASE p.last_event_id = e.id
    <2>1. events # <<>>
      BY <1>3, <1>4, EventType, NullIsNoTime DEF RecordsOf
    <2>2. Len(events) \in DOMAIN events
      BY <1>1, <2>1
    <2>3. Last(events) \in ToSet(log) /\ Last(events).id = e.id
      BY <1>1, <1>3, <1>4, <2>1, <2>2 DEF RecordsOf, Last
    <2>4. Last(events) = e
      BY <2>3
    <2> QED
      BY <1>1, <1>2, <1>3, <1>4, <2>1, <2>4 DEF RecordsOf
  <1>5. CASE p.last_event_id # e.id
    <2>1. folded' = Append(events, e) /\ proj' = RebuildFromEvents(folded')
      BY <1>1, <1>2, <1>5, RebuildAppend
    <2>2. \A i \in DOMAIN Append(events, e) :
            Append(events, e)[i] \in ToSet(log) \union {e}
      BY <1>1
    <2> QED
      BY <1>1, <2>1, <2>2
  <1> QED
    BY <1>4, <1>5

LEMMA LogGrows ==
  ASSUME FoldInv, NEW e \in EventSet, e.id = Len(log) + 1, log' = Append(log, e)
  PROVE  /\ log' \in Seq(EventSet) /\ \A i \in DOMAIN log' : log'[i].id = i
         /\ ToSet(log') = ToSet(log) \union {e}
         /\ \A x \in ToSet(log) : x.id # e.id
  <1>1. log \in Seq(EventSet) /\ \A i \in DOMAIN log : log[i].id = i
    BY DEF FoldInv
  <1>2. /\ DOMAIN log' = DOMAIN log \union {Len(log) + 1}
        /\ log'[Len(log) + 1] = e /\ \A i \in DOMAIN log : log'[i] = log[i]
    BY <1>1
  <1>3. ToSet(log') = ToSet(log) \union {e}
    BY <1>2 DEF ToSet
  <1>4. \A x \in ToSet(log) : x.id # e.id
    BY LoggedIs
  <1> QED
    BY <1>1, <1>2, <1>3, <1>4

LEMMA TransactionKeeps ==
  ASSUME FoldInv, NEW loaded \in Loadable, NEW t \in templates,
         Transaction(loaded, NewEvent(t))
  PROVE  FoldInv'
  <1> DEFINE e == NewEvent(t)
  <1>1. e \in EventSet /\ e.id = Len(log) + 1
    BY NewEventIs
  <1> HIDE DEF e
  <1>2. log' = Append(log, e) /\ FoldInto(loaded, e) /\ UNCHANGED <<templates, unfolded>>
    BY DEF Transaction, e
  <1>3. /\ log' \in Seq(EventSet) /\ \A i \in DOMAIN log' : log'[i].id = i
        /\ ToSet(log') = ToSet(log) \union {e}
        /\ \A x \in ToSet(log) : x.id # e.id
    BY <1>1, <1>2, LogGrows
  <1>4. /\ folded' \in Seq(EventSet) /\ proj' = RebuildFromEvents(folded')
        /\ \A i \in DOMAIN folded' : folded'[i] \in ToSet(log) \union {e}
    BY <1>1, <1>2, <1>3, FoldIntoIs
  <1>5. templates' \in Families /\ unfolded' \subseteq ToSet(log')
    BY <1>2, <1>3 DEF FoldInv
  <1>6. \A i \in DOMAIN folded' : folded'[i] \in ToSet(log')
    BY <1>3, <1>4
  <1>7. RebuildFromEvents(folded)' = RebuildFromEvents(folded')
    BY DEF RebuildFromEvents, FoldLeft, MapThenFoldSet, ApplyEvent
  <1> QED
    BY <1>3, <1>4, <1>5, <1>6, <1>7 DEF FoldInv, ToSet

LEMMA InitFoldInv == Init => FoldInv
  BY RebuildEmpty DEF Init, FoldInv

LEMMA StepFoldInv == FoldInv /\ [Next]_vars => FoldInv'
  <1> SUFFICES ASSUME FoldInv, [Next]_vars
               PROVE  FoldInv'
    OBVIOUS
  <1>1. CASE RecordObservation
    BY <1>1, TransactionKeeps DEF RecordObservation
  <1>2. CASE RecordThreadName
    BY <1>2, TransactionKeeps DEF RecordThreadName
  <1>3. CASE Prune
    BY <1>3, TransactionKeeps DEF Prune
  <1>4. CASE AppendUpdate
    <2>1. PICK t \in templates : /\ log' = Append(log, NewEvent(t))
                                 /\ unfolded' = unfolded \union {NewEvent(t)}
                                 /\ UNCHANGED <<templates, folded, proj>>
      BY <1>4 DEF AppendUpdate
    <2> DEFINE e == NewEvent(t)
    <2>2. e \in EventSet /\ e.id = Len(log) + 1
      BY NewEventIs
    <2> HIDE DEF e
    <2>3. /\ log' \in Seq(EventSet) /\ \A i \in DOMAIN log' : log'[i].id = i
          /\ ToSet(log') = ToSet(log) \union {e}
      BY <2>1, <2>2, LogGrows DEF e
    <2>4. /\ templates' \in Families /\ folded' \in Seq(EventSet)
          /\ \A i \in DOMAIN folded' : folded'[i] \in ToSet(log')
          /\ unfolded' \subseteq ToSet(log')
      BY <2>1, <2>3 DEF FoldInv, e
    <2>5. proj' = RebuildFromEvents(folded)'
      BY <2>1 DEF FoldInv, RebuildFromEvents
    <2> QED
      BY <2>3, <2>4, <2>5 DEF FoldInv, ToSet
  <1>5. CASE FoldUpdate
    <2>1. PICK loaded \in Loadable, e \in unfolded :
            /\ unfolded' = unfolded \ {e}
            /\ FoldInto(loaded, e)
            /\ UNCHANGED <<templates, log>>
      BY <1>5 DEF FoldUpdate
    <2>2. e \in ToSet(log) /\ e \in EventSet
      BY LoggedIs DEF FoldInv
    <2>3. \A x \in ToSet(log) : x.id = e.id => x = e
      BY <2>2, LoggedIs
    <2>4. /\ folded' \in Seq(EventSet) /\ proj' = RebuildFromEvents(folded')
          /\ \A i \in DOMAIN folded' : folded'[i] \in ToSet(log) \union {e}
      BY <2>1, <2>2, <2>3, FoldIntoIs
    <2>5. \A i \in DOMAIN folded' : folded'[i] \in ToSet(log)
      BY <2>2, <2>4
    <2> QED
      BY <2>1, <2>4, <2>5 DEF FoldInv, ToSet
  <1>6. CASE UNCHANGED vars
    BY <1>6 DEF vars, FoldInv, ToSet
  <1> QED
    BY <1>1, <1>2, <1>3, <1>4, <1>5, <1>6 DEF Next

\* Whoever folds, in whatever order and however often caches are lost, the
\* projection is the fold of the events that went into it.
THEOREM ProjectionIsFold == Spec => []FoldInv
  BY InitFoldInv, StepFoldInv, PTL DEF Spec

\* Applying the event that was folded last a second time leaves the projection
\* unchanged (applyEvent, projection.mjs), so that the write which found no
\* cache, and whose load folded its event already, does no harm.
THEOREM ProjectionReplayIsNoop == Spec => []ReplayIsNoop
  <1>1. FoldInv => ReplayIsNoop
    BY RebuildIs DEF FoldInv, RecordsOf, ReplayIsNoop
  <1> QED
    BY <1>1, ProjectionIsFold, PTL

-----------------------------------------------------------------------------
\* What a fold says of a session is what the events say.

\* The fields that an event does not touch.
LEMMA ReduceLeaves ==
  ASSUME NEW s, IsSession(s), NEW e \in EventSet, e.op # "session_prune"
  PROVE  /\ e.op \notin {"session_link", "session_unlink"} => Reduce(s, e).tasks = s.tasks
         /\ e.op \notin {"session_seen", "session_progress", "codex_session_seen"}
              => Reduce(s, e).preview = s.preview
         /\ e.op \notin {"session_seen", "codex_session_seen"}
              => Reduce(s, e).created_at = s.created_at
         /\ e.op # "sweep" => Reduce(s, e).last_progress_at = s.last_progress_at
         /\ e.op # "pr_link_seen" => Reduce(s, e).prs = s.prs
         /\ e.op \notin NameOps => /\ Reduce(s, e).names = s.names
                                   /\ Reduce(s, e).alias = s.alias
                                   /\ Reduce(s, e).ai_title = s.ai_title
  <1>0. s = [f \in SessionFields |-> s[f]]
    BY DEF IsSession
  <1>1. CASE e.op = "session_seen"
    <2> DEFINE t == ReduceSessionSeen(s, e)
    <2>1. /\ t.tasks = s.tasks /\ t.last_progress_at = s.last_progress_at
          /\ t.prs = s.prs /\ t.names = s.names /\ t.alias = s.alias
          /\ t.ai_title = s.ai_title
      BY <1>0 DEF ReduceSessionSeen, SessionFields
    <2> QED
      BY <1>1, <2>1, ReduceIs DEF NameOps
  <1>2. CASE e.op = "session_progress"
    <2> DEFINE t == ReduceSessionProgress(s, e)
    <2>1. /\ t.tasks = s.tasks /\ t.created_at = s.created_at
          /\ t.last_progress_at = s.last_progress_at /\ t.prs = s.prs
          /\ t.names = s.names /\ t.alias = s.alias /\ t.ai_title = s.ai_title
      BY <1>0 DEF ReduceSessionProgress, SessionFields
    <2> QED
      BY <1>2, <2>1, ReduceIs DEF NameOps
  <1>3. CASE e.op = "session_link"
    <2> DEFINE t == ReduceSessionLink(s, e)
    <2>1. /\ t.preview = s.preview /\ t.created_at = s.created_at
          /\ t.last_progress_at = s.last_progress_at /\ t.prs = s.prs
          /\ t.names = s.names /\ t.alias = s.alias /\ t.ai_title = s.ai_title
      BY <1>0 DEF ReduceSessionLink, SessionFields
    <2> QED
      BY <1>3, <2>1, ReduceIs DEF NameOps
  <1>4. CASE e.op = "session_unlink"
    <2> DEFINE t == ReduceSessionUnlink(s, e)
    <2>1. /\ t.preview = s.preview /\ t.created_at = s.created_at
          /\ t.last_progress_at = s.last_progress_at /\ t.prs = s.prs
          /\ t.names = s.names /\ t.alias = s.alias /\ t.ai_title = s.ai_title
      BY <1>0 DEF ReduceSessionUnlink, SessionFields
    <2> QED
      BY <1>4, <2>1, ReduceIs DEF NameOps
  <1>5. CASE e.op \in NameOps
    <2> DEFINE Kept(u) == /\ u.tasks = s.tasks /\ u.preview = s.preview
                          /\ u.created_at = s.created_at
                          /\ u.last_progress_at = s.last_progress_at /\ u.prs = s.prs
               t == ReduceName(s, e)
    <2>1. t = [f \in SessionFields |-> t[f]]
      BY NameSettles DEF IsSession
    <2>2. Kept(t)
      BY <1>0 DEF ReduceName, SessionFields
    <2> HIDE DEF t
    <2>3. Kept([t EXCEPT !.alias = e.p.value]) /\ Kept([t EXCEPT !.ai_title = e.p.value])
      BY <2>1, <2>2 DEF SessionFields
    <2>4. Kept(MirrorDerivedField(t, NameChange(e)))
      BY <2>1, <2>2 DEF MirrorDerivedField, SessionFields
    <2>5. Reduce(s, e) \in {s, MirrorDerivedField(t, NameChange(e)),
                           [t EXCEPT !.alias = e.p.value], [t EXCEPT !.ai_title = e.p.value]}
      BY <1>5, ReduceIs DEF NameOps, ReduceNameSet, ReduceAliasSet, ReduceAiTitleSeen, t
    <2>6. Kept(Reduce(s, e))
      BY <2>3, <2>4, <2>5
    <2> QED
      BY <1>5, <2>6 DEF NameOps
  <1>6. CASE e.op = "parent_set"
    <2> DEFINE t == ReduceParentSet(s, e)
    <2>1. /\ t.tasks = s.tasks /\ t.preview = s.preview
          /\ t.created_at = s.created_at /\ t.last_progress_at = s.last_progress_at
          /\ t.prs = s.prs /\ t.names = s.names /\ t.alias = s.alias
          /\ t.ai_title = s.ai_title
      BY <1>0 DEF ReduceParentSet, SessionFields
    <2> QED
      BY <1>6, <2>1, ReduceIs DEF NameOps
  <1>7. CASE e.op = "close"
    <2> DEFINE t == ReduceClose(s, e)
    <2>1. /\ t.tasks = s.tasks /\ t.preview = s.preview
          /\ t.created_at = s.created_at /\ t.last_progress_at = s.last_progress_at
          /\ t.prs = s.prs /\ t.names = s.names /\ t.alias = s.alias
          /\ t.ai_title = s.ai_title
      BY <1>0 DEF ReduceClose, SessionFields
    <2> QED
      BY <1>7, <2>1, ReduceIs DEF NameOps
  <1>8. CASE e.op = "sweep"
    <2> DEFINE t == ReduceSweep(s, e)
    <2>1. /\ t.tasks = s.tasks /\ t.preview = s.preview
          /\ t.created_at = s.created_at /\ t.prs = s.prs /\ t.names = s.names
          /\ t.alias = s.alias /\ t.ai_title = s.ai_title
      BY <1>0 DEF ReduceSweep, SessionFields
    <2> QED
      BY <1>8, <2>1, ReduceIs DEF NameOps
  <1>9. CASE e.op = "codex_session_seen"
    <2> DEFINE t == ReduceCodexSessionSeen(s, e)
    <2>1. /\ t.tasks = s.tasks /\ t.last_progress_at = s.last_progress_at
          /\ t.prs = s.prs /\ t.names = s.names /\ t.alias = s.alias
          /\ t.ai_title = s.ai_title
      BY <1>0 DEF ReduceCodexSessionSeen, SessionFields
    <2> QED
      BY <1>9, <2>1, ReduceIs DEF NameOps
  <1>10. CASE e.op = "pr_link_seen"
    <2> DEFINE t == ReducePrLinkSeen(s, e)
    <2>1. /\ t.tasks = s.tasks /\ t.preview = s.preview
          /\ t.created_at = s.created_at /\ t.last_progress_at = s.last_progress_at
          /\ t.names = s.names /\ t.alias = s.alias /\ t.ai_title = s.ai_title
      BY <1>0 DEF ReducePrLinkSeen, SessionFields
    <2> QED
      BY <1>10, <2>1, ReduceIs DEF NameOps
  <1> QED
    BY <1>1, <1>2, <1>3, <1>4, <1>5, <1>6, <1>7, <1>8, <1>9, <1>10, EventType
    DEF Ops, NamelessOps

LEMMA FoldedIs ==
  ASSUME NEW s, IsSession(s), NEW e \in EventSet, e.op # "session_prune"
  PROVE  Alike(Reduce(s, e), Folded(s, e))
  <1>1. IsSession(Reduce(s, e))
    BY ReduceSettles
  <1>2. Alike(Reduce(s, e), Bump(Reduce(s, e), e))
    BY <1>1, BumpIs
  <1>3. Alike(Bump(Reduce(s, e), e), Folded(s, e))
    BY FoldedSettles DEF SameButDisplay
  <1> QED
    BY <1>2, <1>3 DEF Alike

\* One more event, the n-th, begins, extends or ends the life of its session.
SinceGrows(events, e, sid, longer, n) ==
  /\ n \in Nat /\ n - 1 \in Nat /\ Since(events, sid) \subseteq 1 .. n - 1
  /\ longer[n] = e /\ \A i \in Since(events, sid) : longer[i] = events[i]
  /\ e.sid # sid => Since(longer, sid) = Since(events, sid)
  /\ e.sid = sid /\ e.op = "session_prune" => Since(longer, sid) = {}
  /\ e.sid = sid /\ e.op # "session_prune"
       => Since(longer, sid) = Since(events, sid) \union {n}

LEMMA SinceAppend ==
  ASSUME NEW events \in Seq(EventSet), NEW e \in EventSet, NEW sid
  PROVE  SinceGrows(events, e, sid, Append(events, e), Len(events) + 1)
  <1> DEFINE longer == Append(events, e)
             n == Len(events) + 1
  <1>1. /\ n \in Nat /\ n - 1 \in Nat /\ n - 1 = Len(events)
        /\ DOMAIN events = 1 .. n - 1 /\ DOMAIN longer = 1 .. n
        /\ longer[n] = e /\ \A i \in 1 .. n - 1 : longer[i] = events[i]
    OBVIOUS
  <1> HIDE DEF longer, n
  <1>2. Since(events, sid) \subseteq 1 .. n - 1
    BY <1>1 DEF Since
  <1>3. ASSUME NEW i \in 1 .. n - 1
        PROVE  i \in Since(longer, sid) <=>
                 i \in Since(events, sid) /\ ~IsTombstone(e, sid)
    BY <1>1 DEF Since
  <1>4. n \in Since(longer, sid) <=> e.sid = sid /\ ~IsTombstone(e, sid)
    BY <1>1 DEF Since
  <1>5. Since(longer, sid) \subseteq 1 .. n
    BY <1>1 DEF Since
  <1>6. \A i \in 1 .. n : i = n \/ i \in 1 .. n - 1
    BY <1>1
  <1>7. \A i : i \in Since(longer, sid) <=>
          \/ i \in Since(events, sid) /\ ~IsTombstone(e, sid)
          \/ i = n /\ e.sid = sid /\ ~IsTombstone(e, sid)
    BY <1>1, <1>2, <1>3, <1>4, <1>5, <1>6
  <1>8. /\ e.sid # sid => Since(longer, sid) = Since(events, sid)
        /\ e.sid = sid /\ e.op = "session_prune" => Since(longer, sid) = {}
        /\ e.sid = sid /\ e.op # "session_prune"
             => Since(longer, sid) = Since(events, sid) \union {n}
    BY <1>7 DEF IsTombstone
  <1>9. SinceGrows(events, e, sid, longer, n)
    BY <1>1, <1>2, <1>8 DEF SinceGrows
  <1> QED
    BY <1>9 DEF longer, n

\* Some indices have a first and a last one.
LEMMA FirstIndex ==
  ASSUME NEW n, NEW S \in SUBSET (1 .. n), S # {}
  PROVE  Min(S) \in S /\ \A i \in S : Min(S) <= i
  <1>1. PICK m \in S : \A y \in S : m <= y
    BY Fold!LeastOfNats
  <1>2. \A x \in S : (\A y \in S : x =< y) <=> x = m
    BY <1>1
  <1> QED
    BY <1>1, <1>2 DEF Min

LEMMA LastIndex ==
  ASSUME NEW n \in Nat, NEW S \in SUBSET (1 .. n), S # {}
  PROVE  Max(S) \in S /\ \A i \in S : i <= Max(S)
  <1> DEFINE Mirror == {n - i : i \in S}
  <1>1. PICK d \in Mirror : \A y \in Mirror : d <= y
    <2>1. Mirror \in SUBSET Nat /\ Mirror # {}
      <3>1. \A i \in S : n - i \in Nat
        OBVIOUS
      <3> QED
        BY <3>1
    <2> HIDE DEF Mirror
    <2> QED
      BY <2>1, Fold!LeastOfNats
  <1>2. PICK m \in S : d = n - m
    BY <1>1
  <1>3. \A y \in S : y <= m
    BY <1>1, <1>2
  <1>4. \A x \in S : (\A y \in S : x >= y) <=> x = m
    BY <1>2, <1>3
  <1> QED
    BY <1>2, <1>3, <1>4 DEF Max

\* The last and the first of some indices when n comes after them.
LEMMA OneMoreIndex ==
  ASSUME NEW n \in Nat, NEW S \in SUBSET (1 .. n - 1)
  PROVE  /\ Max(S \union {n}) = n
         /\ S = {} => Min(S \union {n}) = n
         /\ S # {} => Min(S) \in S /\ Min(S \union {n}) = Min(S)
  <1>1. n \in S \union {n} /\ \A x \in S \union {n} : (\A y \in S \union {n} : x >= y) <=> x = n
    OBVIOUS
  <1>2. Max(S \union {n}) = n
    BY <1>1 DEF Max
  <1>3. S = {} => Min(S \union {n}) = n
    <2>1. {n} = {} \union {n} /\ \A x \in {n} : (\A y \in {n} : x =< y) <=> x = n
      OBVIOUS
    <2> QED
      BY <2>1 DEF Min
  <1>4. ASSUME S # {}
        PROVE  Min(S) \in S /\ Min(S \union {n}) = Min(S)
    <2>1. PICK m \in S : \A y \in S : m <= y
      BY <1>4, Fold!LeastOfNats
    <2>2. \A x \in S : (\A y \in S : x =< y) <=> x = m
      BY <2>1
    <2>3. Min(S) = m
      BY <2>1, <2>2 DEF Min
    <2>4. m \in S \union {n} /\ \A x \in S \union {n} : (\A y \in S \union {n} : x =< y) <=> x = m
      BY <2>1
    <2>5. Min(S \union {n}) = m
      BY <2>4 DEF Min
    <2> QED
      BY <2>1, <2>3, <2>5
  <1> QED
    BY <1>2, <1>3, <1>4

-----------------------------------------------------------------------------
\* Names: what the record keeps of the history that foldNameHistory tells.

Naming(e) ==
  [channel |-> NameChange(e).channel, value |-> NameChange(e).value,
   source |-> NameChange(e).source, set_at |-> e.ts]
Namings == {Naming(e) : e \in EventSet}

\* The entry of a channel is the last of its namings, and counts them; a channel
\* without an entry means that the cap is reached.
Mirrors(names, history) ==
  /\ names = [c \in DOMAIN names |-> names[c]]
  /\ IsFiniteSet(DOMAIN names) /\ Cardinality(DOMAIN names) <= MaxChannels
  /\ DOMAIN names \subseteq DOMAIN history
  /\ DOMAIN names # DOMAIN history => Cardinality(DOMAIN names) = MaxChannels
  /\ \A c \in DOMAIN history : history[c] \in Seq(Namings) /\ history[c] # <<>>
  /\ \A c \in DOMAIN names : /\ IsSameNaming(names[c], Last(history[c]))
                             /\ names[c].set_count = Len(history[c])

\* What HistoryStep makes of the history of the event's session.
Told(history, e) ==
  LET c == NameChange(e)
      entries == IF c.channel \in DOMAIN history THEN history[c.channel] ELSE <<>>
  IN  IF entries # <<>> /\ IsSameNaming(Last(entries), c) THEN history
      ELSE Put(history, c.channel, Append(entries, Naming(e)))

LEMMA NamingIsSame ==
  ASSUME NEW e
  PROVE  IsSameNaming(Naming(e), NameChange(e))
  BY DEF Naming, IsSameNaming

LEMMA NameMirrors ==
  ASSUME NEW names, NEW history, Mirrors(names, history),
         NEW e \in EventSet
  PROVE  /\ Mirrors(ApplyName(names, NameChange(e)), Told(history, e))
         /\ DOMAIN Told(history, e) = DOMAIN history \union {NameChange(e).channel}
  <1> DEFINE c == NameChange(e)
             ch == c.channel
             after == ApplyName(names, c)
             told == Told(history, e)
             naming == Naming(e)
  <1>1. naming \in Namings /\ IsSameNaming(naming, c)
    BY NamingIsSame DEF Namings
  <1>2. CASE ch \in DOMAIN names /\ IsSameNaming(names[ch], c)
    <2>1. after = names
      BY <1>2 DEF ApplyName
    <2>2. IsSameNaming(Last(history[ch]), c) /\ history[ch] # <<>> /\ ch \in DOMAIN history
      BY <1>2 DEF Mirrors, IsSameNaming
    <2>3. told = history
      BY <2>2 DEF Told
    <2> QED
      BY <2>1, <2>2, <2>3
  <1>3. CASE ch \in DOMAIN names /\ ~IsSameNaming(names[ch], c)
    <2> DEFINE n == Entry(c, names[ch].set_count + 1)
               longer == Append(history[ch], naming)
    <2>1. after = [names EXCEPT ![ch] = n]
      BY <1>3 DEF ApplyName, Renamed
    <2>2. ~IsSameNaming(Last(history[ch]), c) /\ ch \in DOMAIN history
      BY <1>3 DEF Mirrors, IsSameNaming
    <2>3. told = Put(history, ch, longer)
      BY <2>2 DEF Told
    <2>4. history[ch] \in Seq(Namings) /\ names[ch].set_count = Len(history[ch])
      BY <1>3, <2>2 DEF Mirrors
    <2>5. /\ longer \in Seq(Namings) /\ longer # <<>> /\ Last(longer) = naming
          /\ Len(longer) = Len(history[ch]) + 1
      BY <1>1, <2>4, LastOfAppend
    <2>6. IsSameNaming(n, naming) /\ n.set_count = Len(longer)
      BY <1>1, <2>4, <2>5 DEF Entry, IsSameNaming
    <2> HIDE DEF n, longer, after, told, naming, c, ch
    <2>7. /\ DOMAIN after = DOMAIN names /\ after[ch] = n
          /\ after = [d \in DOMAIN after |-> after[d]]
          /\ \A d \in DOMAIN names \ {ch} : after[d] = names[d]
      BY <1>3, <2>1
    <2>8. /\ DOMAIN told = DOMAIN history /\ told[ch] = longer
          /\ \A d \in DOMAIN history \ {ch} : told[d] = history[d]
      BY <2>2, <2>3 DEF Put
    <2>9. Mirrors(after, told)
      BY <1>3, <2>5, <2>6, <2>7, <2>8 DEF Mirrors
    <2> QED
      BY <2>2, <2>8, <2>9 DEF after, told, c, ch
  <1>4. CASE ch \notin DOMAIN names
    <2> DEFINE entries == IF ch \in DOMAIN history THEN history[ch] ELSE <<>>
               longer == Append(entries, naming)
               n == Entry(c, 1)
    <2>1. entries \in Seq(Namings)
      BY DEF Mirrors
    <2>2. /\ longer \in Seq(Namings) /\ longer # <<>> /\ Last(longer) = naming
          /\ entries = <<>> => Len(longer) = 1
      <3> HIDE DEF entries, naming
      <3>1. Len(longer) = Len(entries) + 1 /\ longer \in Seq(Namings)
        BY <1>1, <2>1
      <3>2. longer # <<>> /\ Last(longer) = naming
        BY <2>1, LastOfAppend
      <3> QED
        BY <3>1, <3>2
    <2>3. (told = history /\ ch \in DOMAIN history) \/ told = Put(history, ch, longer)
      BY DEF Told
    <2>4. /\ DOMAIN told = DOMAIN history \union {ch}
          /\ \A d \in DOMAIN told : told[d] \in Seq(Namings) /\ told[d] # <<>>
          /\ \A d \in DOMAIN history \ {ch} : told[d] = history[d]
      BY <2>2, <2>3 DEF Put, Mirrors
    <2>5. ch \notin DOMAIN history => told[ch] = longer /\ Len(longer) = 1
      BY <2>2, <2>3 DEF Put
    <2>6. Cardinality(DOMAIN names) \in Nat /\ Cardinality(DOMAIN names) <= MaxChannels
      BY FS_CardinalityType DEF Mirrors
    <2>7. CASE Cardinality(DOMAIN names) >= MaxChannels
      <3>1. after = names
        BY <1>4, <2>7 DEF ApplyName
      <3>2. Cardinality(DOMAIN names) = MaxChannels
        BY <2>6, <2>7, CapsType
      <3> HIDE DEF told, after, longer, entries, naming, c, ch, n
      <3> QED
        BY <1>4, <2>4, <3>1, <3>2 DEF Mirrors, told, after, c, ch
    <2>8. CASE ~(Cardinality(DOMAIN names) >= MaxChannels)
      <3>1. after = Put(names, ch, n)
        BY <1>4, <2>8 DEF ApplyName
      <3>2. DOMAIN names = DOMAIN history
        BY <2>6, <2>8, CapsType DEF Mirrors
      <3>3. IsSameNaming(n, naming) /\ n.set_count = 1
        BY <1>1 DEF Entry, IsSameNaming
      <3>4. told[ch] = longer /\ Len(longer) = 1 /\ Last(longer) = naming
        BY <1>4, <2>2, <2>5, <3>2
      <3> HIDE DEF told, after, longer, entries, naming, c, ch, n
      <3>5. /\ DOMAIN after = DOMAIN names \union {ch} /\ after[ch] = n
            /\ after = [d \in DOMAIN after |-> after[d]]
            /\ \A d \in DOMAIN names : after[d] = names[d]
        BY <1>4, <3>1 DEF Put
      <3>6. /\ IsFiniteSet(DOMAIN after)
            /\ Cardinality(DOMAIN after) = Cardinality(DOMAIN names) + 1
        BY <1>4, <3>5, FS_AddElement DEF Mirrors
      <3>7. Cardinality(DOMAIN after) <= MaxChannels
        BY <2>6, <2>8, <3>6, CapsType
      <3>8. \A d \in DOMAIN after : /\ IsSameNaming(after[d], Last(told[d]))
                                    /\ after[d].set_count = Len(told[d])
        BY <1>4, <2>4, <3>2, <3>3, <3>4, <3>5 DEF Mirrors
      <3>9. DOMAIN after = DOMAIN told
        BY <2>4, <3>2, <3>5
      <3>10. Mirrors(after, told)
        BY <2>4, <3>5, <3>6, <3>7, <3>8, <3>9 DEF Mirrors
      <3> QED
        BY <2>4, <3>10 DEF told, after, c, ch
    <2> QED
      BY <2>7, <2>8
  <1> QED
    BY <1>2, <1>3, <1>4

\* The record of a session and its history: the entries, the two fields from
\* before there were entries, and what is displayed.
TellsHistory(s, history) ==
  /\ Mirrors(s.names, history)
  /\ "alias" \notin DOMAIN history => Cleaned(s.alias) = Null
  /\ "cc_ai_title" \notin DOMAIN history => Cleaned(s.ai_title) = Null

LEMMA HistoryStepIs ==
  ASSUME NEW out, NEW e, NEW sid
  PROVE  LET after == ByChannel(HistoryStep(out, e), sid) IN
         /\ e.sid # sid => after = ByChannel(out, sid)
         /\ e.sid = sid =>
              after = IF e.op = "session_prune" THEN EmptyFunction
                      ELSE IF SaysName(e) THEN Told(ByChannel(out, sid), e)
                      ELSE ByChannel(out, sid)
  <1>1. CASE e.op = "session_prune"
    BY <1>1 DEF HistoryStep, ByChannel, Restrict
  <1>2. CASE e.op # "session_prune" /\ ~SaysName(e)
    BY <1>2 DEF HistoryStep
  <1>3. CASE e.op # "session_prune" /\ SaysName(e)
    <2> DEFINE history == ByChannel(out, e.sid)
    <2>1. \/ HistoryStep(out, e) = Put(out, e.sid, Told(history, e))
          \/ HistoryStep(out, e) = out /\ Told(history, e) = history
      BY <1>3 DEF HistoryStep, Told, Naming
    <2> DEFINE told == Told(history, e)
    <2>2. ByChannel(Put(out, e.sid, told), sid) = IF e.sid = sid THEN told ELSE ByChannel(out, sid)
      <3> DEFINE put == Put(out, e.sid, told)
      <3> HIDE DEF told
      <3>1. /\ DOMAIN put = DOMAIN out \union {e.sid} /\ put[e.sid] = told
            /\ \A x \in DOMAIN out \ {e.sid} : put[x] = out[x]
        BY DEF Put
      <3> HIDE DEF put
      <3>2. ByChannel(put, sid) = IF e.sid = sid THEN told ELSE ByChannel(out, sid)
        BY <3>1 DEF ByChannel
      <3> QED
        BY <3>2 DEF put
    <2>3. CASE e.sid = sid
      <3>1. CASE HistoryStep(out, e) = Put(out, e.sid, told)
        BY <1>3, <2>2, <2>3, <3>1
      <3>2. CASE HistoryStep(out, e) = out /\ told = history
        BY <1>3, <2>3, <3>2
      <3> QED
        BY <2>1, <3>1, <3>2
    <2>4. CASE e.sid # sid
      BY <2>1, <2>2, <2>4
    <2> QED
      BY <2>3, <2>4
  <1> QED
    BY <1>1, <1>2, <1>3

-----------------------------------------------------------------------------
\* Of every session: there is a record as long as it has had events since its
\* last tombstone, with the tasks, the preview and the names that the events say.

\* What is on display is what the rest of the record gives.
ShowsItsName(s) ==
  s.display = ResolveDisplayName([c \in ToSet(Precedence) |-> NameValue(s, c)])

SaysOf(events, sid, s) ==
  /\ \A task : task \in s.tasks <=> IsLinked(events, sid, task)
  /\ s.preview = FirstPreview(events, sid)
  /\ TellsHistory(s, ByChannel(HistoriesOf(events), sid))

Follows(events, p) ==
  /\ IsProjection(p)
  /\ \A sid :
       /\ sid \in DOMAIN p.sessions <=> Since(events, sid) # {}
       /\ sid \in DOMAIN p.sessions => /\ SaysOf(events, sid, p.sessions[sid])
                                       /\ ShowsItsName(p.sessions[sid])
       /\ sid \notin DOMAIN p.sessions
            => ByChannel(HistoriesOf(events), sid) = EmptyFunction

Histories == INSTANCE Folding WITH Op <- HistoryStep, Rel <- LAMBDA events, out : TRUE
Records == INSTANCE Folding WITH Op <- ApplyEvent, Rel <- Follows

LEMMA HistoriesSame ==
  ASSUME NEW events
  PROVE  HistoriesOf(events) = Histories!FoldLeft(HistoryStep, EmptyFunction, events)
  BY DEF HistoriesOf, FoldLeft, Histories!FoldLeft, MapThenFoldSet,
         Histories!MapThenFoldSet, Max, Histories!Max

LEMMA RecordsSame ==
  ASSUME NEW events
  PROVE  RebuildFromEvents(events) = Records!FoldLeft(ApplyEvent, EmptyProjection, events)
  BY DEF RebuildFromEvents, FoldLeft, Records!FoldLeft, MapThenFoldSet,
         Records!MapThenFoldSet, Max, Records!Max

LEMMA HistoriesAppend ==
  ASSUME NEW events \in Seq(EventSet), NEW e \in EventSet
  PROVE  HistoriesOf(Append(events, e)) = HistoryStep(HistoriesOf(events), e)
  BY HistoriesSame, Histories!FoldAppend

LEMMA HistoriesEmpty == HistoriesOf(<<>>) = EmptyFunction
  BY HistoriesSame, Histories!FoldEmpty

LEMMA NoNamesMirror == Mirrors(EmptyFunction, EmptyFunction)
  <1>1. EmptyFunction = [c \in {} |-> EmptyFunction[c]] /\ DOMAIN EmptyFunction = {}
    BY DEF EmptyFunction
  <1>2. IsFiniteSet({}) /\ Cardinality({}) = 0
    BY FS_EmptySet
  <1> QED
    BY <1>1, <1>2, CapsType DEF Mirrors

\* A record that was just created says what no events say.
LEMMA NothingSaid ==
  ASSUME NEW events, NEW sid, NEW ts, Since(events, sid) = {},
         ByChannel(HistoriesOf(events), sid) = EmptyFunction
  PROVE  SaysOf(events, sid, EmptySession(ts))
  <1>1. \A task : Words(events, sid, task) = {}
    BY DEF Words
  <1>2. Previews(events, sid) = {}
    BY DEF Previews
  <1>3. TellsHistory(EmptySession(ts), EmptyFunction)
    BY NoNamesMirror DEF TellsHistory, EmptySession, Cleaned
  <1> QED
    BY <1>1, <1>2, <1>3 DEF SaysOf, IsLinked, FirstPreview, EmptySession

\* An event of another session says nothing.
LEMMA OthersSay ==
  ASSUME NEW events \in Seq(EventSet), NEW e \in EventSet, NEW sid, e.sid # sid
  PROVE  LET longer == Append(events, e) IN
         /\ Since(longer, sid) = Since(events, sid)
         /\ \A task : IsLinked(longer, sid, task) <=> IsLinked(events, sid, task)
         /\ FirstPreview(longer, sid) = FirstPreview(events, sid)
         /\ ByChannel(HistoriesOf(longer), sid) = ByChannel(HistoriesOf(events), sid)
  <1> DEFINE longer == Append(events, e)
             n == Len(events) + 1
  <1>0. /\ longer = Append(events, e)
        /\ SinceGrows(events, e, sid, longer, n)
    BY SinceAppend
  <1> HIDE DEF longer, n
  <1>1. /\ Since(longer, sid) = Since(events, sid)
        /\ Since(events, sid) \subseteq 1 .. n - 1 /\ n - 1 \in Nat
        /\ \A i \in Since(events, sid) : longer[i] = events[i]
    BY <1>0 DEF SinceGrows
  <1>2. HistoriesOf(longer) = HistoryStep(HistoriesOf(events), e)
    BY <1>0, HistoriesAppend
  <1>3. ByChannel(HistoriesOf(longer), sid) = ByChannel(HistoriesOf(events), sid)
    BY <1>2, HistoryStepIs
  <1>4. ASSUME NEW task
        PROVE  IsLinked(longer, sid, task) <=> IsLinked(events, sid, task)
    <2>1. Words(longer, sid, task) = Words(events, sid, task)
      BY <1>1 DEF Words
    <2>2. Words(events, sid, task) \subseteq Since(events, sid)
      BY DEF Words
    <2>3. Words(events, sid, task) # {} =>
            Max(Words(events, sid, task)) \in Words(events, sid, task)
      BY <1>1, <2>2, LastIndex
    <2> QED
      BY <1>1, <2>1, <2>2, <2>3 DEF IsLinked
  <1>5. FirstPreview(longer, sid) = FirstPreview(events, sid)
    <2>1. Previews(longer, sid) = Previews(events, sid)
      BY <1>1 DEF Previews
    <2>2. Previews(events, sid) \subseteq Since(events, sid)
      BY DEF Previews
    <2>3. Previews(events, sid) # {} =>
            Min(Previews(events, sid)) \in Previews(events, sid)
      BY <1>1, <2>2, FirstIndex
    <2> QED
      BY <1>1, <2>1, <2>2, <2>3 DEF FirstPreview
  <1> QED
    BY <1>1, <1>3, <1>4, <1>5 DEF longer

\* An event about a task is the last word on it.
LEMMA OneMoreWord ==
  ASSUME NEW events \in Seq(EventSet), NEW e \in EventSet, e.op # "session_prune", NEW task
  PROVE  IsLinked(Append(events, e), e.sid, task) <=>
           IF /\ \/ e.op = "session_link" /\ ~e.p.remove
                 \/ e.op = "session_unlink"
              /\ task \in e.p.tasks
           THEN e.op = "session_link" ELSE IsLinked(events, e.sid, task)
  <1> DEFINE sid == e.sid
             longer == Append(events, e)
             n == Len(events) + 1
             words == Words(events, sid, task)
             IsWord == /\ \/ e.op = "session_link" /\ ~e.p.remove
                          \/ e.op = "session_unlink"
                       /\ task \in e.p.tasks
  <1>0. /\ longer = Append(events, e)
        /\ SinceGrows(events, e, sid, longer, n)
    BY SinceAppend
  <1> HIDE DEF longer, n
  <1>1. /\ n \in Nat /\ n - 1 \in Nat
        /\ Since(events, sid) \subseteq 1 .. n - 1 /\ longer[n] = e
        /\ \A i \in Since(events, sid) : longer[i] = events[i]
        /\ Since(longer, sid) = Since(events, sid) \union {n}
    BY <1>0 DEF SinceGrows
  <1>2. words \subseteq Since(events, sid)
    BY DEF Words
  <1>3. Words(longer, sid, task) = IF IsWord THEN words \union {n} ELSE words
    BY <1>1 DEF Words
  <1>4. CASE IsWord
    <2>1. Max(words \union {n}) = n
      BY <1>1, <1>2, OneMoreIndex
    <2> QED
      BY <1>1, <1>3, <1>4, <2>1 DEF IsLinked, longer
  <1>5. CASE ~IsWord
    <2>1. words # {} => Max(words) \in words
      BY <1>1, <1>2, LastIndex
    <2> QED
      BY <1>1, <1>2, <1>3, <1>5, <2>1 DEF IsLinked, longer
  <1> QED
    BY <1>4, <1>5

\* A preview counts when it is the first.
LEMMA OneMorePreview ==
  ASSUME NEW events \in Seq(EventSet), NEW e \in EventSet, e.op # "session_prune"
  PROVE  FirstPreview(Append(events, e), e.sid) =
           IF e.op \in {"session_seen", "session_progress", "codex_session_seen"}
           THEN SetIfMissing(FirstPreview(events, e.sid), e.p.preview)
           ELSE FirstPreview(events, e.sid)
  <1> DEFINE sid == e.sid
             longer == Append(events, e)
             n == Len(events) + 1
             said == Previews(events, sid)
             IsPreview ==
               /\ e.op \in {"session_seen", "session_progress", "codex_session_seen"}
               /\ e.p.preview # Null
  <1>0. /\ longer = Append(events, e)
        /\ SinceGrows(events, e, sid, longer, n)
    BY SinceAppend
  <1> HIDE DEF longer, n
  <1>1. /\ n \in Nat /\ n - 1 \in Nat
        /\ Since(events, sid) \subseteq 1 .. n - 1 /\ longer[n] = e
        /\ \A i \in Since(events, sid) : longer[i] = events[i]
        /\ Since(longer, sid) = Since(events, sid) \union {n}
    BY <1>0 DEF SinceGrows
  <1>2. said \subseteq Since(events, sid) /\ said \subseteq 1 .. n - 1
    BY <1>1 DEF Previews
  <1>3. Previews(longer, sid) = IF IsPreview THEN said \union {n} ELSE said
    BY <1>1 DEF Previews
  <1>4. /\ said = {} => Min(said \union {n}) = n
        /\ said # {} => Min(said) \in said /\ Min(said \union {n}) = Min(said)
    BY <1>1, <1>2, OneMoreIndex
  <1>5. /\ said = {} => FirstPreview(events, sid) = Null
        /\ said # {} => /\ FirstPreview(events, sid) = events[Min(said)].p.preview
                        /\ FirstPreview(events, sid) # Null
                        /\ longer[Min(said)] = events[Min(said)]
    BY <1>1, <1>2, <1>4 DEF FirstPreview, Previews
  <1>6. FirstPreview(longer, sid) =
          IF Previews(longer, sid) = {} THEN Null
          ELSE longer[Min(Previews(longer, sid))].p.preview
    BY DEF FirstPreview
  <1> HIDE DEF said
  <1>7. CASE IsPreview
    BY <1>1, <1>3, <1>4, <1>5, <1>6, <1>7 DEF SetIfMissing, longer
  <1>8. CASE ~IsPreview
    BY <1>3, <1>4, <1>5, <1>6, <1>8 DEF SetIfMissing, longer
  <1> QED
    BY <1>7, <1>8

LEMMA ReducedTasks ==
  ASSUME NEW s, IsSession(s), NEW e \in EventSet, e.op # "session_prune", NEW task
  PROVE  task \in Reduce(s, e).tasks <=>
           IF /\ \/ e.op = "session_link" /\ ~e.p.remove
                 \/ e.op = "session_unlink"
              /\ task \in e.p.tasks
           THEN e.op = "session_link" ELSE task \in s.tasks
  <1>0. s = [f \in SessionFields |-> s[f]]
    BY DEF IsSession
  <1>1. CASE e.op = "session_link"
    <2>1. ReduceSessionLink(s, e).tasks =
            IF e.p.remove THEN s.tasks ELSE s.tasks \union e.p.tasks
      BY <1>0 DEF ReduceSessionLink, SessionFields
    <2> QED
      BY <1>1, <2>1, ReduceIs
  <1>2. CASE e.op = "session_unlink"
    <2>1. ReduceSessionUnlink(s, e).tasks = s.tasks \ e.p.tasks
      BY <1>0 DEF ReduceSessionUnlink, SessionFields
    <2> QED
      BY <1>2, <2>1, ReduceIs
  <1>3. CASE e.op \notin {"session_link", "session_unlink"}
    BY <1>3, ReduceLeaves
  <1> QED
    BY <1>1, <1>2, <1>3

LEMMA ReducedPreview ==
  ASSUME NEW s, IsSession(s), NEW e \in EventSet, e.op # "session_prune"
  PROVE  Reduce(s, e).preview =
           IF e.op \in {"session_seen", "session_progress", "codex_session_seen"}
           THEN SetIfMissing(s.preview, e.p.preview) ELSE s.preview
  <1>0. s = [f \in SessionFields |-> s[f]]
    BY DEF IsSession
  <1>1. ReduceSessionSeen(s, e).preview = SetIfMissing(s.preview, e.p.preview)
    BY <1>0 DEF ReduceSessionSeen, SessionFields
  <1>2. ReduceSessionProgress(s, e).preview = SetIfMissing(s.preview, e.p.preview)
    BY <1>0 DEF ReduceSessionProgress, SessionFields
  <1>3. ReduceCodexSessionSeen(s, e).preview = SetIfMissing(s.preview, e.p.preview)
    BY <1>0 DEF ReduceCodexSessionSeen, SessionFields
  <1> QED
    BY <1>1, <1>2, <1>3, ReduceIs, ReduceLeaves

\* A naming reaches the entries, and the old field of its channel.
LEMMA ReducedNames ==
  ASSUME NEW s, IsSession(s), NEW e \in EventSet, e.op # "session_prune"
  PROVE  LET t == Reduce(s, e)
             c == NameChange(e) IN
         /\ t.names = IF SaysName(e) THEN ApplyName(s.names, c) ELSE s.names
         /\ \/ Cleaned(t.alias) = Null
            \/ t.alias = s.alias
            \/ SaysName(e) /\ c.channel = "alias"
         /\ \/ Cleaned(t.ai_title) = Null
            \/ t.ai_title = s.ai_title
            \/ SaysName(e) /\ c.channel = "cc_ai_title"
  <1> DEFINE t == Reduce(s, e)
             c == NameChange(e)
             r == ReduceName(s, e)
  <1>1. CASE e.op \notin NameOps
    BY <1>1, ReduceLeaves DEF SaysName
  <1>2. /\ r = [f \in SessionFields |-> r[f]]
        /\ r.names = IF SaysName(e) THEN ApplyName(s.names, c) ELSE s.names
        /\ r.alias = s.alias /\ r.ai_title = s.ai_title
    <2>1. IsSession(r)
      BY NameSettles
    <2>2. s = [f \in SessionFields |-> s[f]]
      BY DEF IsSession
    <2>3. /\ r.names = IF SaysName(e) THEN ApplyName(s.names, c) ELSE s.names
          /\ r.alias = s.alias /\ r.ai_title = s.ai_title
      BY <2>2 DEF ReduceName, SessionFields
    <2> QED
      BY <2>1, <2>3 DEF IsSession
  <1>3. CASE e.op = "alias_set"
    <2>1. t = [r EXCEPT !.alias = e.p.value]
      BY <1>3, ReduceIs DEF ReduceAliasSet
    <2> HIDE DEF r, t, c
    <2>2. t.names = r.names /\ t.alias = e.p.value /\ t.ai_title = r.ai_title
      BY <1>2, <2>1 DEF SessionFields
    <2>3. ~SaysName(e) => Cleaned(e.p.value) = Null
      BY <1>3 DEF SaysName, Cleaned, NameOps
    <2>4. c.channel = "alias"
      BY <1>3 DEF NameChange, c
    <2> QED
      BY <1>2, <2>2, <2>3, <2>4 DEF t, c
  <1>4. CASE e.op = "ai_title_seen"
    <2>1. t = [r EXCEPT !.ai_title = e.p.value]
      BY <1>4, ReduceIs DEF ReduceAiTitleSeen
    <2> HIDE DEF r, t, c
    <2>2. t.names = r.names /\ t.ai_title = e.p.value /\ t.alias = r.alias
      BY <1>2, <2>1 DEF SessionFields
    <2>3. ~SaysName(e) => Cleaned(e.p.value) = Null
      BY <1>4 DEF SaysName, Cleaned, NameOps
    <2>4. c.channel = "cc_ai_title"
      BY <1>4 DEF NameChange, c
    <2> QED
      BY <1>2, <2>2, <2>3, <2>4 DEF t, c
  <1>5. CASE e.op = "name_set"
    <2>1. t = IF r.names = s.names THEN s ELSE MirrorDerivedField(r, c)
      BY <1>5, ReduceIs DEF ReduceNameSet
    <2> HIDE DEF r, t, c
    <2>2. LET m == MirrorDerivedField(r, c) IN
          /\ m.names = r.names
          /\ m.alias = r.alias \/ c.channel = "alias"
          /\ m.ai_title = r.ai_title \/ c.channel = "cc_ai_title"
      BY <1>2 DEF MirrorDerivedField, SessionFields
    <2>3. r.names # s.names => SaysName(e)
      BY <1>2
    <2> QED
      BY <1>2, <2>1, <2>2, <2>3 DEF t, c
  <1> QED
    BY <1>1, <1>3, <1>4, <1>5 DEF NameOps

LEMMA FoldedSays ==
  ASSUME NEW events \in Seq(EventSet), NEW e \in EventSet, e.op # "session_prune",
         NEW s, IsSession(s), SaysOf(events, e.sid, s)
  PROVE  SaysOf(Append(events, e), e.sid, Folded(s, e)) /\ ShowsItsName(Folded(s, e))
  <1> DEFINE y == Folded(s, e)
             t == Reduce(s, e)
             longer == Append(events, e)
             history == ByChannel(HistoriesOf(events), e.sid)
             told == ByChannel(HistoriesOf(longer), e.sid)
  <1>1. Alike(t, y) /\ IsSession(y)
    BY FoldedIs, FoldedSettles
  <1>2. ASSUME NEW task
        PROVE  task \in y.tasks <=> IsLinked(longer, e.sid, task)
    <2>1. y.tasks = t.tasks
      BY <1>1 DEF Alike
    <2>2. task \in s.tasks <=> IsLinked(events, e.sid, task)
      BY DEF SaysOf
    <2> HIDE DEF y, t, longer
    <2> QED
      BY <2>1, <2>2, ReducedTasks, OneMoreWord DEF t, longer
  <1>3. y.preview = FirstPreview(longer, e.sid)
    <2>1. y.preview = t.preview
      BY <1>1 DEF Alike
    <2>2. s.preview = FirstPreview(events, e.sid)
      BY DEF SaysOf
    <2> HIDE DEF y
    <2> QED
      BY <2>1, <2>2, ReducedPreview, OneMorePreview
  <1>4. TellsHistory(y, told)
    <2>1. told = IF SaysName(e) THEN Told(history, e) ELSE history
      BY HistoriesAppend, HistoryStepIs
    <2>2. TellsHistory(s, history)
      BY DEF SaysOf
    <2>3. y.names = t.names /\ y.alias = t.alias /\ y.ai_title = t.ai_title
      BY <1>1 DEF Alike
    <2>4. /\ t.names = IF SaysName(e) THEN ApplyName(s.names, NameChange(e)) ELSE s.names
          /\ \/ Cleaned(t.alias) = Null
             \/ t.alias = s.alias
             \/ SaysName(e) /\ NameChange(e).channel = "alias"
          /\ \/ Cleaned(t.ai_title) = Null
             \/ t.ai_title = s.ai_title
             \/ SaysName(e) /\ NameChange(e).channel = "cc_ai_title"
      BY ReducedNames
    <2> HIDE DEF y, t, told, history, longer
    <2>5. /\ Mirrors(s.names, history)
          /\ "alias" \notin DOMAIN history => Cleaned(s.alias) = Null
          /\ "cc_ai_title" \notin DOMAIN history => Cleaned(s.ai_title) = Null
      BY <2>2 DEF TellsHistory
    <2>6. /\ SaysName(e) => DOMAIN told = DOMAIN history \union {NameChange(e).channel}
          /\ ~SaysName(e) => told = history
          /\ Mirrors(y.names, told)
      <3>1. /\ Mirrors(ApplyName(s.names, NameChange(e)), Told(history, e))
            /\ DOMAIN Told(history, e) = DOMAIN history \union {NameChange(e).channel}
        BY <2>5, NameMirrors
      <3>2. CASE SaysName(e)
        BY <2>1, <2>3, <2>4, <3>1, <3>2
      <3>3. CASE ~SaysName(e)
        BY <2>1, <2>3, <2>4, <2>5, <3>3
      <3> QED
        BY <3>2, <3>3
    <2>7. "alias" \notin DOMAIN told => Cleaned(y.alias) = Null
      BY <2>3, <2>4, <2>5, <2>6
    <2>8. "cc_ai_title" \notin DOMAIN told => Cleaned(y.ai_title) = Null
      BY <2>3, <2>4, <2>5, <2>6
    <2> QED
      BY <2>6, <2>7, <2>8 DEF TellsHistory
  <1>5. ShowsItsName(y)
    <2> DEFINE b == Bump(t, e)
    <2>1. IsSession(b)
      BY ReduceSettles, BumpIs
    <2>2. y = RefreshDerivedNames(b)
      BY DEF Folded
    <2> HIDE DEF y, b, t
    <2>3. RefreshDerivedNames(y) = y
      BY <2>1, <2>2, RefreshTwice
    <2>4. IsSession(y)
      BY <2>1, <2>2, RefreshIs
    <2> QED
      BY <2>3, <2>4, RefreshIs DEF ShowsItsName
  <1> QED
    BY <1>2, <1>3, <1>4, <1>5 DEF SaysOf

LEMMA EventFollows ==
  ASSUME NEW events \in Seq(EventSet), NEW e \in EventSet, NEW p, Follows(events, p)
  PROVE  Follows(Append(events, e), ApplyEvent(p, e))
  <1> DEFINE q == ApplyEvent(p, e)
             longer == Append(events, e)
             s == SessionOrNew(p.sessions, e)
  <1>1. /\ IsProjection(p)
        /\ \A sid :
             /\ sid \in DOMAIN p.sessions <=> Since(events, sid) # {}
             /\ sid \in DOMAIN p.sessions => /\ SaysOf(events, sid, p.sessions[sid])
                                             /\ ShowsItsName(p.sessions[sid])
             /\ sid \notin DOMAIN p.sessions
                  => ByChannel(HistoriesOf(events), sid) = EmptyFunction
    BY DEF Follows
  <1>2. /\ IsProjection(q)
        /\ e.op = "session_prune" =>
             /\ DOMAIN q.sessions = DOMAIN p.sessions \ {e.sid}
             /\ \A sid \in DOMAIN q.sessions : q.sessions[sid] = p.sessions[sid]
        /\ e.op # "session_prune" =>
             /\ DOMAIN q.sessions = DOMAIN p.sessions \union {e.sid}
             /\ q.sessions[e.sid] = Folded(s, e)
             /\ \A sid \in DOMAIN q.sessions \ {e.sid} : q.sessions[sid] = p.sessions[sid]
    BY <1>1, ApplyEventIs
  <1> HIDE DEF q
  <1>3. ASSUME NEW sid, sid # e.sid
        PROVE  /\ sid \in DOMAIN q.sessions <=> Since(longer, sid) # {}
               /\ sid \in DOMAIN q.sessions => /\ SaysOf(longer, sid, q.sessions[sid])
                                               /\ ShowsItsName(q.sessions[sid])
               /\ sid \notin DOMAIN q.sessions
                    => ByChannel(HistoriesOf(longer), sid) = EmptyFunction
    <2>1. /\ sid \in DOMAIN q.sessions <=> sid \in DOMAIN p.sessions
          /\ sid \in DOMAIN q.sessions => q.sessions[sid] = p.sessions[sid]
      BY <1>2, <1>3
    <2>2. /\ Since(longer, sid) = Since(events, sid)
          /\ \A task : IsLinked(longer, sid, task) <=> IsLinked(events, sid, task)
          /\ FirstPreview(longer, sid) = FirstPreview(events, sid)
          /\ ByChannel(HistoriesOf(longer), sid) = ByChannel(HistoriesOf(events), sid)
      BY <1>3, OthersSay
    <2> HIDE DEF longer
    <2> QED
      BY <1>1, <2>1, <2>2 DEF SaysOf
  <1>4. CASE e.op = "session_prune"
    <2>1. e.sid \notin DOMAIN q.sessions
      BY <1>2, <1>4
    <2>2. Since(longer, e.sid) = {}
      BY <1>4, SinceAppend DEF SinceGrows
    <2>3. ByChannel(HistoriesOf(longer), e.sid) = EmptyFunction
      BY <1>4, HistoriesAppend, HistoryStepIs
    <2> HIDE DEF longer
    <2>4. Follows(longer, q)
      BY <1>2, <1>3, <2>1, <2>2, <2>3 DEF Follows
    <2> QED
      BY <2>4 DEF longer, q
  <1>5. CASE e.op # "session_prune"
    <2>1. SaysOf(events, e.sid, s)
      BY <1>1, NothingSaid DEF SessionOrNew
    <2>2. IsSession(s)
      BY <1>1, SessionOrNewIs
    <2> HIDE DEF s
    <2>3. SaysOf(longer, e.sid, Folded(s, e)) /\ ShowsItsName(Folded(s, e))
      BY <1>5, <2>1, <2>2, FoldedSays
    <2>4. e.sid \in DOMAIN q.sessions /\ q.sessions[e.sid] = Folded(s, e)
      BY <1>2, <1>5
    <2>5. Since(longer, e.sid) # {}
      BY <1>5, SinceAppend DEF SinceGrows
    <2> HIDE DEF longer
    <2>6. Follows(longer, q)
      BY <1>2, <1>3, <2>3, <2>4, <2>5 DEF Follows
    <2> QED
      BY <2>6 DEF longer, q
  <1> QED
    BY <1>4, <1>5

LEMMA RebuildFollows ==
  ASSUME NEW events \in Seq(EventSet)
  PROVE  Follows(events, RebuildFromEvents(events))
  <1>1. Follows(<<>>, EmptyProjection)
    <2>1. \A sid : Since(<<>>, sid) = {}
      BY DEF Since
    <2>2. \A sid : ByChannel(HistoriesOf(<<>>), sid) = EmptyFunction
      BY HistoriesEmpty DEF ByChannel, EmptyFunction
    <2>3. IsProjection(EmptyProjection) /\ DOMAIN EmptyProjection.sessions = {}
      BY DEF IsProjection, EmptyProjection, EmptyFunction
    <2> QED
      BY <2>1, <2>2, <2>3 DEF Follows
  <1>2. \A s \in Seq(EventSet), e \in EventSet :
          Follows(s, Records!FoldLeft(ApplyEvent, EmptyProjection, s)) =>
            Follows(Append(s, e),
                    ApplyEvent(Records!FoldLeft(ApplyEvent, EmptyProjection, s), e))
    BY EventFollows
  <1>3. Follows(events, Records!FoldLeft(ApplyEvent, EmptyProjection, events))
    BY <1>1, <1>2, Records!FoldKeeps
  <1> QED
    BY <1>3, RecordsSame

\* When the events were folded in the order of the log, a task is linked if and
\* only if the last word about it in the log links it (reduceSessionLink and
\* reduceSessionUnlink, projection.mjs).
THEOREM ProjectionLinksFollowLog == Spec => []LinksFollowLog
  <1>1. FoldInv => LinksFollowLog
    BY RebuildFollows DEF FoldInv, InOrder, LinksFollowLog, Follows, SaysOf
  <1> QED
    BY <1>1, ProjectionIsFold, PTL

\* The names in the record, the history that is read back from the log and the
\* name on display tell the same story (applyNameToSession, foldNameHistory and
\* refreshDerivedNames), for any number of channels, any cap and any chain.
THEOREM ProjectionNamesFollowLog == Spec => []NamesFollowLog
  <1>1. FoldInv => NamesFollowLog
    <2> SUFFICES ASSUME FoldInv, InOrder, NEW sid \in DOMAIN proj.sessions
                 PROVE
                   LET names == proj.sessions[sid].names
                       history == FoldNameHistory(sid)
                       preview == Cleaned(FirstPreview(log, sid))
                       said == [c \in ToSet(Precedence) |->
                                  IF c = "first_prompt" /\ preview # Null THEN preview
                                  ELSE IF c \in DOMAIN history THEN Last(history[c]).value
                                  ELSE Null]
                   IN  /\ DOMAIN names \subseteq DOMAIN history
                       /\ \A c \in DOMAIN names :
                            /\ IsSameNaming(names[c], Last(history[c]))
                            /\ names[c].set_count = Len(history[c])
                       /\ IF Refused(sid) = {}
                          THEN proj.sessions[sid].display = ResolveDisplayName(said)
                          ELSE Cardinality(DOMAIN names) = MaxChannels
      BY DEF NamesFollowLog
    <2> DEFINE s == proj.sessions[sid]
               history == FoldNameHistory(sid)
               preview == Cleaned(FirstPreview(log, sid))
               said == [c \in ToSet(Precedence) |->
                          IF c = "first_prompt" /\ preview # Null THEN preview
                          ELSE IF c \in DOMAIN history THEN Last(history[c]).value
                          ELSE Null]
    <2>1. SaysOf(log, sid, s) /\ ShowsItsName(s)
      BY RebuildFollows DEF FoldInv, InOrder, Follows
    <2>2. TellsHistory(s, history) /\ s.preview = FirstPreview(log, sid)
      BY <2>1 DEF SaysOf, FoldNameHistory
    <2>3. Refused(sid) = DOMAIN history \ DOMAIN s.names
      BY DEF Refused
    <2> HIDE DEF s, history
    <2>4. ASSUME DOMAIN history = DOMAIN s.names, NEW c \in ToSet(Precedence)
          PROVE  NameValue(s, c) = said[c]
      <3>1. CASE c = "first_prompt" /\ preview # Null
        BY <2>2, <3>1 DEF NameValue, Cleaned
      <3>2. CASE ~(c = "first_prompt" /\ preview # Null) /\ c \in DOMAIN history
        <4>1. s.names[c].value = Last(history[c]).value
          BY <2>2, <2>4, <3>2 DEF TellsHistory, Mirrors, IsSameNaming
        <4> QED
          BY <2>2, <2>4, <3>2, <4>1 DEF NameValue
      <3>3. CASE ~(c = "first_prompt" /\ preview # Null) /\ c \notin DOMAIN history
        <4>1. NameValue(s, c) = Null
          BY <2>2, <2>4, <3>3 DEF NameValue, TellsHistory
        <4> QED
          BY <3>3, <4>1
      <3> QED
        BY <3>1, <3>2, <3>3
    <2>5. DOMAIN history = DOMAIN s.names => s.display = ResolveDisplayName(said)
      <3>1. DOMAIN history = DOMAIN s.names =>
              said = [c \in ToSet(Precedence) |-> NameValue(s, c)]
        BY <2>4
      <3> QED
        BY <2>1, <3>1 DEF ShowsItsName
    <2>6. /\ DOMAIN s.names \subseteq DOMAIN history
          /\ \A c \in DOMAIN s.names : /\ IsSameNaming(s.names[c], Last(history[c]))
                                       /\ s.names[c].set_count = Len(history[c])
          /\ DOMAIN s.names # DOMAIN history => Cardinality(DOMAIN s.names) = MaxChannels
      BY <2>2 DEF TellsHistory, Mirrors
    <2>7. Refused(sid) = {} <=> DOMAIN history = DOMAIN s.names
      BY <2>3, <2>6
    <2>8. IF Refused(sid) = {} THEN s.display = ResolveDisplayName(said)
          ELSE Cardinality(DOMAIN s.names) = MaxChannels
      BY <2>5, <2>6, <2>7
    <2> HIDE DEF said
    <2> QED
      BY <2>6, <2>8 DEF s, history, said
  <1> QED
    BY <1>1, ProjectionIsFold, PTL
-----------------------------------------------------------------------------
\* Times: they do not depend on the order of folding.

IsLeast(v, S) == v \in S /\ \A x \in S : v <= x
IsGreatest(v, S) == v \in S /\ \A x \in S : x <= v

LEMMA ExtremesAre ==
  ASSUME NEW S \in SUBSET Nat, NEW v
  PROVE  /\ IsLeast(v, S) => Min(S) = v
         /\ IsGreatest(v, S) => Max(S) = v
  <1>1. ASSUME IsLeast(v, S)
        PROVE  Min(S) = v
    <2>1. v \in S /\ \A x \in S : (\A y \in S : x =< y) <=> x = v
      BY <1>1 DEF IsLeast
    <2> QED
      BY <2>1 DEF Min
  <1>2. ASSUME IsGreatest(v, S)
        PROVE  Max(S) = v
    <2>1. v \in S /\ \A x \in S : (\A y \in S : x >= y) <=> x = v
      BY <1>2 DEF IsGreatest
    <2> QED
      BY <2>1 DEF Max
  <1> QED
    BY <1>1, <1>2

\* One more time, which may be lacking.
LEMMA OneMoreTime ==
  ASSUME NEW S \in SUBSET Nat, NEW v \in Nat, NEW t \in Time
  PROVE  /\ S \union ({t} \ {Null}) \in SUBSET Nat
         /\ IsLeast(v, S) => IsLeast(Earlier(v, t), S \union ({t} \ {Null}))
         /\ IsGreatest(v, S) => IsGreatest(Later(v, t), S \union ({t} \ {Null}))
  <1>1. CASE t = Null
    BY <1>1 DEF Earlier, Later
  <1>2. CASE t \in Nat
    <2> DEFINE T == S \union ({t} \ {Null})
    <2>1. t # Null /\ T = S \union {t}
      BY <1>2, NullIsNoTime
    <2> HIDE DEF T
    <2>2. T \in SUBSET Nat
      BY <1>2, <2>1
    <2>3. IsLeast(v, S) => IsLeast(Earlier(v, t), T)
      BY <1>2, <2>1 DEF Earlier, IsLeast
    <2>4. IsGreatest(v, S) => IsGreatest(Later(v, t), T)
      BY <1>2, <2>1 DEF Later, IsGreatest
    <2> QED
      BY <2>2, <2>3, <2>4 DEF T
  <1> QED
    BY <1>1, <1>2 DEF Time

\* What a set of events says of the times of a session that was born at born.
Of(E, sid, ops) == {e \in {x \in E : x.sid = sid} : e.op \in ops}
Sighters == {"session_seen", "codex_session_seen"}
Activities == Ops \ (OBSERVATION_ONLY_OPS \union {"sweep"})
Sighted(E, sid) == {e.p.created_at : e \in Of(E, sid, Sighters)} \ {Null}
Active(E, sid) == {e.ts : e \in Of(E, sid, Activities)}
Swept(E, sid) == {e.p.effective : e \in Of(E, sid, {"sweep"})} \ {Null}
Observed(E, sid, key) ==
  {e.p.observed_at : e \in {x \in Of(E, sid, {"pr_link_seen"}) : PrKey(x) = key}}

LinksOf(E, sid, prs) ==
  /\ prs = [k \in DOMAIN prs |-> prs[k]] /\ IsFiniteSet(DOMAIN prs)
  /\ \A key \in DOMAIN prs : IsLeast(prs[key].first_seen_at, Observed(E, sid, key))
  /\ Cardinality(DOMAIN prs) < MaxPrLinks =>
       \A e \in Of(E, sid, {"pr_link_seen"}) : PrKey(e) \in DOMAIN prs
TimesOf(E, sid, born, s) ==
  /\ IsLeast(s.created_at, {born} \union Sighted(E, sid))
  /\ IsGreatest(s.last_progress_at, {born} \union Active(E, sid) \union Swept(E, sid))
  /\ LinksOf(E, sid, s.prs)

LEMMA AreTimes ==
  ASSUME NEW E \in SUBSET EventSet, NEW sid, NEW key
  PROVE  /\ Sighted(E, sid) \in SUBSET Nat /\ Active(E, sid) \in SUBSET Nat
         /\ Swept(E, sid) \in SUBSET Nat /\ Observed(E, sid, key) \in SUBSET Nat
  <1>1. \A e \in E : e \in EventSet
    OBVIOUS
  <1>2. Sighted(E, sid) \in SUBSET Nat
    BY <1>1, EventType DEF Sighted, Of, Sighters, Time
  <1>3. Active(E, sid) \in SUBSET Nat
    BY <1>1, EventType DEF Active, Of
  <1>4. Swept(E, sid) \in SUBSET Nat
    BY <1>1, EventType DEF Swept, Of, Time
  <1>5. Observed(E, sid, key) \in SUBSET Nat
    BY <1>1, EventType DEF Observed, Of
  <1> QED
    BY <1>2, <1>3, <1>4, <1>5

\* One more event of the session.
OneMore(A, B, e, ops) ==
  /\ e.op \in ops => B = A \union {e}
  /\ e.op \notin ops => B = A
LEMMA OneMoreOf ==
  ASSUME NEW E, NEW e, NEW ops
  PROVE  OneMore(Of(E, e.sid, ops), Of(E \union {e}, e.sid, ops), e, ops)
  BY DEF OneMore, Of

LEMMA OneMoreSaid ==
  ASSUME NEW E, NEW e
  PROVE  /\ Sighted(E \union {e}, e.sid) =
              IF e.op \in Sighters THEN Sighted(E, e.sid) \union ({e.p.created_at} \ {Null})
              ELSE Sighted(E, e.sid)
         /\ Active(E \union {e}, e.sid) =
              IF e.op \in Activities THEN Active(E, e.sid) \union {e.ts}
              ELSE Active(E, e.sid)
         /\ Swept(E \union {e}, e.sid) =
              IF e.op = "sweep" THEN Swept(E, e.sid) \union ({e.p.effective} \ {Null})
              ELSE Swept(E, e.sid)
         /\ \A key : Observed(E \union {e}, e.sid, key) =
              IF e.op = "pr_link_seen" /\ PrKey(e) = key
              THEN Observed(E, e.sid, key) \union {e.p.observed_at}
              ELSE Observed(E, e.sid, key)
  <1>1. Sighted(E \union {e}, e.sid) =
          IF e.op \in Sighters THEN Sighted(E, e.sid) \union ({e.p.created_at} \ {Null})
          ELSE Sighted(E, e.sid)
    <2> DEFINE A == Of(E, e.sid, Sighters)
               B == Of(E \union {e}, e.sid, Sighters)
    <2>1. OneMore(A, B, e, Sighters)
      BY OneMoreOf
    <2>2. Sighted(E, e.sid) = {x.p.created_at : x \in A} \ {Null} /\ Sighted(E \union {e}, e.sid) = {x.p.created_at : x \in B} \ {Null}
      BY DEF Sighted
    <2> HIDE DEF A, B
    <2> QED
      BY <2>1, <2>2 DEF OneMore
  <1>2. Active(E \union {e}, e.sid) =
          IF e.op \in Activities THEN Active(E, e.sid) \union {e.ts} ELSE Active(E, e.sid)
    <2> DEFINE A == Of(E, e.sid, Activities)
               B == Of(E \union {e}, e.sid, Activities)
    <2>1. OneMore(A, B, e, Activities)
      BY OneMoreOf
    <2>2. Active(E, e.sid) = {x.ts : x \in A} /\ Active(E \union {e}, e.sid) = {x.ts : x \in B}
      BY DEF Active
    <2> HIDE DEF A, B
    <2> QED
      BY <2>1, <2>2 DEF OneMore
  <1>3. Swept(E \union {e}, e.sid) =
          IF e.op = "sweep" THEN Swept(E, e.sid) \union ({e.p.effective} \ {Null})
          ELSE Swept(E, e.sid)
    <2> DEFINE A == Of(E, e.sid, {"sweep"})
               B == Of(E \union {e}, e.sid, {"sweep"})
    <2>1. OneMore(A, B, e, {"sweep"})
      BY OneMoreOf
    <2>2. Swept(E, e.sid) = {x.p.effective : x \in A} \ {Null} /\ Swept(E \union {e}, e.sid) = {x.p.effective : x \in B} \ {Null}
      BY DEF Swept
    <2> HIDE DEF A, B
    <2> QED
      BY <2>1, <2>2 DEF OneMore
  <1>4. ASSUME NEW key
        PROVE  Observed(E \union {e}, e.sid, key) =
                 IF e.op = "pr_link_seen" /\ PrKey(e) = key
                 THEN Observed(E, e.sid, key) \union {e.p.observed_at}
                 ELSE Observed(E, e.sid, key)
    <2> DEFINE Those(A) == {x \in A : PrKey(x) = key}
               A == Of(E, e.sid, {"pr_link_seen"})
               B == Of(E \union {e}, e.sid, {"pr_link_seen"})
    <2>1. OneMore(A, B, e, {"pr_link_seen"})
      BY OneMoreOf
    <2>2. /\ Observed(E, e.sid, key) = {x.p.observed_at : x \in Those(A)}
          /\ Observed(E \union {e}, e.sid, key) = {x.p.observed_at : x \in Those(B)}
      BY DEF Observed
    <2> HIDE DEF A, B
    <2>3. CASE e.op = "pr_link_seen" /\ PrKey(e) = key
      <3>1. Those(B) = Those(A) \union {e}
        BY <2>1, <2>3 DEF OneMore
      <3> QED
        BY <2>2, <2>3, <3>1
    <2>4. CASE ~(e.op = "pr_link_seen" /\ PrKey(e) = key)
      <3>1. Those(B) = Those(A)
        BY <2>1, <2>4 DEF OneMore
      <3> QED
        BY <2>2, <2>4, <3>1
    <2> QED
      BY <2>3, <2>4
  <1> QED
    BY <1>1, <1>2, <1>3, <1>4

LEMMA OthersObserveNothing ==
  ASSUME NEW E, NEW e, e.op # "pr_link_seen", NEW key
  PROVE  Observed(E \union {e}, e.sid, key) = Observed(E, e.sid, key)
  <1> DEFINE A == Of(E, e.sid, {"pr_link_seen"})
             B == Of(E \union {e}, e.sid, {"pr_link_seen"})
  <1>1. B = A
    BY DEF Of
  <1> QED
    BY <1>1 DEF Observed

\* An event of another session says nothing of this one.
LEMMA OthersSayNoTime ==
  ASSUME NEW E, NEW e, NEW sid, e.sid # sid, NEW born, NEW s, TimesOf(E, sid, born, s)
  PROVE  TimesOf(E \union {e}, sid, born, s)
  <1>1. \A ops : Of(E \union {e}, sid, ops) = Of(E, sid, ops)
    BY DEF Of
  <1>2. /\ Sighted(E \union {e}, sid) = Sighted(E, sid)
        /\ Active(E \union {e}, sid) = Active(E, sid)
        /\ Swept(E \union {e}, sid) = Swept(E, sid)
        /\ \A key : Observed(E \union {e}, sid, key) = Observed(E, sid, key)
    BY <1>1 DEF Sighted, Active, Swept, Observed
  <1> QED
    BY <1>1, <1>2 DEF TimesOf, LinksOf

\* The times that a fold gives to the record.
LEMMA FoldedTimes ==
  ASSUME NEW s, IsSession(s), NEW e \in EventSet, e.op # "session_prune"
  PROVE  LET y == Folded(s, e) IN
         /\ y.created_at = IF e.op \in Sighters THEN Earlier(s.created_at, e.p.created_at)
                           ELSE s.created_at
         /\ y.last_progress_at =
              IF e.op = "sweep" THEN Later(s.last_progress_at, e.p.effective)
              ELSE IF e.op \in Activities THEN Later(s.last_progress_at, e.ts)
              ELSE s.last_progress_at
         /\ y.prs = IF e.op = "pr_link_seen" THEN ApplyPrLink(s.prs, e) ELSE s.prs
  <1> DEFINE y == Folded(s, e)
             t == Reduce(s, e)
             b == Bump(t, e)
  <1>0. s = [f \in SessionFields |-> s[f]] /\ e.op \in Ops
    BY EventType DEF IsSession
  <1>1. t.created_at = IF e.op \in Sighters THEN Earlier(s.created_at, e.p.created_at)
                       ELSE s.created_at
    <2>1. ReduceSessionSeen(s, e).created_at = Earlier(s.created_at, e.p.created_at)
      BY <1>0 DEF ReduceSessionSeen, SessionFields
    <2>2. ReduceCodexSessionSeen(s, e).created_at = Earlier(s.created_at, e.p.created_at)
      BY <1>0 DEF ReduceCodexSessionSeen, SessionFields
    <2> QED
      BY <2>1, <2>2, ReduceIs, ReduceLeaves DEF Sighters
  <1>2. t.last_progress_at = IF e.op = "sweep" THEN Later(s.last_progress_at, e.p.effective)
                             ELSE s.last_progress_at
    <2>1. ReduceSweep(s, e).last_progress_at = Later(s.last_progress_at, e.p.effective)
      BY <1>0 DEF ReduceSweep, SessionFields
    <2> QED
      BY <2>1, ReduceIs, ReduceLeaves
  <1>3. t.prs = IF e.op = "pr_link_seen" THEN ApplyPrLink(s.prs, e) ELSE s.prs
    <2>1. ReducePrLinkSeen(s, e).prs = ApplyPrLink(s.prs, e)
      BY <1>0 DEF ReducePrLinkSeen, SessionFields
    <2> QED
      BY <2>1, ReduceIs, ReduceLeaves
  <1>4. IsSession(t)
    BY ReduceSettles
  <1>5. /\ Alike(t, b)
        /\ b.last_progress_at = IF e.op \in OBSERVATION_ONLY_OPS \union {"sweep"}
                                THEN t.last_progress_at
                                ELSE Later(t.last_progress_at, e.ts)
    BY <1>4, BumpIs
  <1>6. SameButDisplay(b, y)
    BY FoldedSettles
  <1> HIDE DEF y, t, b
  <1>7. /\ y.created_at = t.created_at /\ y.prs = t.prs
        /\ y.last_progress_at = b.last_progress_at
    BY <1>5, <1>6 DEF SameButDisplay, Alike
  <1> QED
    BY <1>0, <1>1, <1>2, <1>3, <1>5, <1>7 DEF Activities, y

\* A sighting of a merge request: the links stay those of the events.
LEMMA OneMoreLink ==
  ASSUME NEW E \in SUBSET EventSet, NEW e \in EventSet, e.op = "pr_link_seen", NEW prs,
         LinksOf(E, e.sid, prs)
  PROVE  LinksOf(E \union {e}, e.sid, ApplyPrLink(prs, e))
  <1> DEFINE after == ApplyPrLink(prs, e)
             key == PrKey(e)
             at == e.p.observed_at
             Before(k) == Observed(E, e.sid, k)
             Now(k) == Observed(E \union {e}, e.sid, k)
             links == Of(E, e.sid, {"pr_link_seen"})
             more == Of(E \union {e}, e.sid, {"pr_link_seen"})
  <1>1. /\ prs = [k \in DOMAIN prs |-> prs[k]] /\ IsFiniteSet(DOMAIN prs)
        /\ \A k \in DOMAIN prs : IsLeast(prs[k].first_seen_at, Before(k))
        /\ Cardinality(DOMAIN prs) < MaxPrLinks => \A x \in links : PrKey(x) \in DOMAIN prs
    BY DEF LinksOf
  <1>2. /\ at \in Nat /\ at # Null /\ at \in Time
        /\ \A k : Before(k) \in SUBSET Nat
    BY EventType, AreTimes, NullIsNoTime DEF Time
  <1>3. /\ more = links \union {e}
        /\ Now(key) = Before(key) \union {at}
        /\ \A k : k # key => Now(k) = Before(k)
    <2>1. more = links \union {e}
      <3>1. OneMore(links, more, e, {"pr_link_seen"})
        BY OneMoreOf
      <3> HIDE DEF links, more
      <3> QED
        BY <3>1 DEF OneMore
    <2>2. ASSUME NEW k
          PROVE  Now(k) = IF k = key THEN Before(k) \union {at} ELSE Before(k)
      BY OneMoreSaid
    <2> QED
      BY <2>1, <2>2
  <1>4. \A x \in links : at \in Nat /\ x.p.observed_at \in Before(PrKey(x))
    BY <1>2 DEF Observed
  <1>a. SUFFICES /\ after = [k \in DOMAIN after |-> after[k]] /\ IsFiniteSet(DOMAIN after)
                 /\ \A k \in DOMAIN after : IsLeast(after[k].first_seen_at, Now(k))
                 /\ Cardinality(DOMAIN after) < MaxPrLinks =>
                      \A x \in more : PrKey(x) \in DOMAIN after
    BY DEF LinksOf
  <1>5. CASE key \in DOMAIN prs
    <2> DEFINE link == PrLinkAgain(prs[key], e)
    <2>1. after = [prs EXCEPT ![key] = link]
      BY <1>5 DEF ApplyPrLink
    <2>2. link.first_seen_at = Earlier(prs[key].first_seen_at, at)
      BY DEF PrLinkAgain
    <2>3. IsLeast(Earlier(prs[key].first_seen_at, at), Before(key) \union ({at} \ {Null}))
      <3>1. IsLeast(prs[key].first_seen_at, Before(key)) /\ prs[key].first_seen_at \in Nat
        BY <1>1, <1>2, <1>5 DEF IsLeast
      <3> HIDE DEF Before, at
      <3> QED
        BY <1>2, <3>1, OneMoreTime
    <2>4. Before(key) \union ({at} \ {Null}) = Now(key)
      BY <1>2, <1>3
    <2> HIDE DEF after, link, key, at, Before, Now, links, more
    <2>5. /\ DOMAIN after = DOMAIN prs /\ after[key] = link
          /\ \A k \in DOMAIN after \ {key} : after[k] = prs[k]
          /\ after = [k \in DOMAIN after |-> after[k]]
      BY <1>1, <1>5, <2>1
    <2>6. \A k \in DOMAIN after : IsLeast(after[k].first_seen_at, Now(k))
      BY <1>1, <1>3, <2>2, <2>3, <2>4, <2>5
    <2> QED
      BY <1>1, <1>3, <1>5, <2>5, <2>6 DEF key
  <1>6. CASE key \notin DOMAIN prs /\ Cardinality(DOMAIN prs) >= MaxPrLinks
    <2>1. after = prs
      BY <1>6 DEF ApplyPrLink
    <2>2. Cardinality(DOMAIN prs) \in Nat /\ MaxPrLinks \in Nat
      BY <1>1, FS_CardinalityType, CapsType
    <2> HIDE DEF after, key, Before, Now, links, more
    <2> QED
      BY <1>1, <1>3, <1>6, <2>1, <2>2
  <1>7. CASE key \notin DOMAIN prs /\ ~(Cardinality(DOMAIN prs) >= MaxPrLinks)
    <2>1. after = Put(prs, key, PrLink(e))
      BY <1>7 DEF ApplyPrLink
    <2>2. PrLink(e).first_seen_at = at
      BY DEF PrLink
    <2>3. Cardinality(DOMAIN prs) \in Nat /\ MaxPrLinks \in Nat
      BY <1>1, FS_CardinalityType, CapsType
    <2>4. \A x \in links : PrKey(x) \in DOMAIN prs
      BY <1>1, <1>7, <2>3
    <2>5. Before(key) = {}
      BY <1>7, <2>4 DEF Observed
    <2> HIDE DEF after, key, at, Before, Now, links, more
    <2>6. /\ DOMAIN after = DOMAIN prs \union {key} /\ after[key] = PrLink(e)
          /\ \A k \in DOMAIN prs : after[k] = prs[k]
          /\ after = [k \in DOMAIN after |-> after[k]]
      BY <1>7, <2>1 DEF Put
    <2>7. IsFiniteSet(DOMAIN after)
      BY <1>1, <2>6, FS_AddElement
    <2>8. IsLeast(at, Now(key))
      BY <1>2, <1>3, <2>5 DEF IsLeast
    <2>9. \A k \in DOMAIN after : IsLeast(after[k].first_seen_at, Now(k))
      BY <1>1, <1>3, <1>7, <2>2, <2>6, <2>8
    <2> QED
      BY <1>3, <2>4, <2>6, <2>7, <2>9 DEF key
  <1> QED
    BY <1>5, <1>6, <1>7

LEMMA FoldedKeepsTimes ==
  ASSUME NEW E \in SUBSET EventSet, NEW e \in EventSet, e.op # "session_prune",
         NEW s, IsSession(s), NEW born \in Nat, TimesOf(E, e.sid, born, s)
  PROVE  TimesOf(E \union {e}, e.sid, born, Folded(s, e))
  <1> DEFINE y == Folded(s, e)
             sighted == Sighted(E, e.sid)
             active == Active(E, e.sid)
             swept == Swept(E, e.sid)
  <1>1. /\ s.created_at \in Nat /\ s.last_progress_at \in Nat
        /\ IsLeast(s.created_at, {born} \union sighted)
        /\ IsGreatest(s.last_progress_at, {born} \union active \union swept)
        /\ LinksOf(E, e.sid, s.prs)
    BY DEF IsSession, TimesOf
  <1>2. /\ {born} \union sighted \in SUBSET Nat
        /\ {born} \union active \union swept \in SUBSET Nat
    BY AreTimes
  <1>3. /\ e.ts \in Nat /\ e.ts \in Time /\ {e.ts} \ {Null} = {e.ts}
        /\ e.op \in Sighters => e.p.created_at \in Time
        /\ e.op = "sweep" => e.p.effective \in Time
    BY EventType, NullIsNoTime DEF Time, Sighters
  <1>4. /\ y.created_at = IF e.op \in Sighters THEN Earlier(s.created_at, e.p.created_at)
                          ELSE s.created_at
        /\ y.last_progress_at =
             IF e.op = "sweep" THEN Later(s.last_progress_at, e.p.effective)
             ELSE IF e.op \in Activities THEN Later(s.last_progress_at, e.ts)
             ELSE s.last_progress_at
        /\ y.prs = IF e.op = "pr_link_seen" THEN ApplyPrLink(s.prs, e) ELSE s.prs
    BY FoldedTimes
  <1> HIDE DEF y
  <1>5. IsLeast(y.created_at, {born} \union Sighted(E \union {e}, e.sid))
    <2>1. CASE e.op \in Sighters
      <3>1. {born} \union Sighted(E \union {e}, e.sid)
              = ({born} \union sighted) \union ({e.p.created_at} \ {Null})
        BY <2>1, OneMoreSaid
      <3> DEFINE S == {born} \union sighted
      <3> HIDE DEF S
      <3>2. S \in SUBSET Nat /\ IsLeast(s.created_at, S)
        BY <1>1, <1>2 DEF S
      <3>3. IsLeast(Earlier(s.created_at, e.p.created_at), S \union ({e.p.created_at} \ {Null}))
        BY <1>1, <1>3, <2>1, <3>2, OneMoreTime
      <3> QED
        BY <1>4, <2>1, <3>1, <3>3 DEF S
    <2>2. CASE e.op \notin Sighters
      <3>1. Sighted(E \union {e}, e.sid) = sighted
        BY <2>2, OneMoreSaid
      <3> QED
        BY <1>1, <1>4, <2>2, <3>1
    <2> QED
      BY <2>1, <2>2
  <1>6. IsGreatest(y.last_progress_at,
                   {born} \union Active(E \union {e}, e.sid) \union Swept(E \union {e}, e.sid))
    <2> DEFINE S == {born} \union active \union swept
               S2 == {born} \union Active(E \union {e}, e.sid) \union Swept(E \union {e}, e.sid)
    <2>1. CASE e.op = "sweep"
      <3>1. S2 = S \union ({e.p.effective} \ {Null})
        <4>1. /\ Active(E \union {e}, e.sid) = active
              /\ Swept(E \union {e}, e.sid) = swept \union ({e.p.effective} \ {Null})
          BY <2>1, OneMoreSaid DEF Activities
        <4> QED
          BY <4>1
      <3>2. IsGreatest(Later(s.last_progress_at, e.p.effective), S \union ({e.p.effective} \ {Null}))
        <4> HIDE DEF S
        <4> QED
          BY <1>1, <1>2, <1>3, <2>1, OneMoreTime DEF S
      <3> QED
        BY <1>4, <2>1, <3>1, <3>2
    <2>2. CASE e.op \in Activities
      <3>1. S2 = S \union ({e.ts} \ {Null}) /\ e.op # "sweep"
        BY <1>3, <2>2, OneMoreSaid DEF Activities
      <3>2. IsGreatest(Later(s.last_progress_at, e.ts), S \union ({e.ts} \ {Null}))
        BY <1>1, <1>2, <1>3, OneMoreTime
      <3> QED
        BY <1>4, <2>2, <3>1, <3>2
    <2>3. CASE e.op # "sweep" /\ e.op \notin Activities
      <3>1. S2 = S
        BY <2>3, OneMoreSaid
      <3> QED
        BY <1>1, <1>4, <2>3, <3>1
    <2> QED
      BY <2>1, <2>2, <2>3
  <1>7. LinksOf(E \union {e}, e.sid, y.prs)
    <2>1. CASE e.op = "pr_link_seen"
      BY <1>1, <1>4, <2>1, OneMoreLink
    <2>2. CASE e.op # "pr_link_seen"
      <3>1. /\ \A key : Observed(E \union {e}, e.sid, key) = Observed(E, e.sid, key)
            /\ Of(E \union {e}, e.sid, {"pr_link_seen"}) = Of(E, e.sid, {"pr_link_seen"})
        <4>1. ASSUME NEW key
              PROVE  Observed(E \union {e}, e.sid, key) = Observed(E, e.sid, key)
          BY <2>2, OthersObserveNothing
        <4> DEFINE A == Of(E, e.sid, {"pr_link_seen"})
                   B == Of(E \union {e}, e.sid, {"pr_link_seen"})
        <4>2. OneMore(A, B, e, {"pr_link_seen"})
          BY OneMoreOf
        <4> HIDE DEF A, B
        <4>3. B = A
          BY <2>2, <4>2 DEF OneMore
        <4> QED
          BY <4>1, <4>3 DEF A, B
      <3> QED
        BY <1>1, <1>4, <2>2, <3>1 DEF LinksOf
    <2> QED
      BY <2>1, <2>2
  <1> QED
    BY <1>5, <1>6, <1>7 DEF TimesOf, y

\* A record that the event e is about to create.
LEMMA BornNow ==
  ASSUME NEW E, NEW e \in EventSet, \A x \in E : x.sid # e.sid
  PROVE  TimesOf(E, e.sid, e.ts, EmptySession(e.ts))
  <1> DEFINE s == EmptySession(e.ts)
  <1>1. \A ops : Of(E, e.sid, ops) = {}
    BY DEF Of
  <1>2. /\ Sighted(E, e.sid) = {} /\ Active(E, e.sid) = {} /\ Swept(E, e.sid) = {}
    BY <1>1 DEF Sighted, Active, Swept
  <1>3. s.created_at = e.ts /\ s.last_progress_at = e.ts /\ s.prs = EmptyFunction
    BY DEF EmptySession
  <1> HIDE DEF s
  <1>4. LinksOf(E, e.sid, s.prs)
    BY <1>1, <1>3, FS_EmptySet DEF LinksOf, EmptyFunction
  <1>5. e.ts \in Nat
    BY EventType
  <1> QED
    BY <1>2, <1>3, <1>4, <1>5 DEF TimesOf, IsLeast, IsGreatest, s

\* The fold of some events has the times that they say, of the sessions that
\* they do not remove.
Unpruned(E, sid) == Of(E, sid, {"session_prune"}) = {}
Born(events, sid) == events[Min(Since(events, sid))].ts
TimesFollow(events, p) ==
  /\ IsProjection(p)
  /\ \A sid :
       /\ sid \in DOMAIN p.sessions <=> Since(events, sid) # {}
       /\ sid \in DOMAIN p.sessions /\ Unpruned(ToSet(events), sid)
            => TimesOf(ToSet(events), sid, Born(events, sid), p.sessions[sid])

Times == INSTANCE Folding WITH Op <- ApplyEvent, Rel <- TimesFollow

LEMMA TimesSame ==
  ASSUME NEW events
  PROVE  RebuildFromEvents(events) = Times!FoldLeft(ApplyEvent, EmptyProjection, events)
  BY DEF RebuildFromEvents, FoldLeft, Times!FoldLeft, MapThenFoldSet,
         Times!MapThenFoldSet, Max, Times!Max

LEMMA WholeLife ==
  ASSUME NEW events \in Seq(EventSet), NEW sid, Unpruned(ToSet(events), sid)
  PROVE  Since(events, sid) = {i \in DOMAIN events : events[i].sid = sid}
  <1>1. \A j \in DOMAIN events : events[j] \in ToSet(events)
    BY DEF ToSet
  <1>2. \A j \in DOMAIN events : ~IsTombstone(events[j], sid)
    BY <1>1 DEF Unpruned, Of, IsTombstone
  <1> QED
    BY <1>2 DEF Since

LEMMA EventKeepsTimes ==
  ASSUME NEW events \in Seq(EventSet), NEW e \in EventSet, NEW p, TimesFollow(events, p)
  PROVE  TimesFollow(Append(events, e), ApplyEvent(p, e))
  <1> DEFINE q == ApplyEvent(p, e)
             longer == Append(events, e)
             s == SessionOrNew(p.sessions, e)
             E == ToSet(events)
             n == Len(events) + 1
  <1>1. /\ IsProjection(p)
        /\ \A sid :
             /\ sid \in DOMAIN p.sessions <=> Since(events, sid) # {}
             /\ sid \in DOMAIN p.sessions /\ Unpruned(E, sid)
                  => TimesOf(E, sid, Born(events, sid), p.sessions[sid])
    BY DEF TimesFollow
  <1>2. /\ IsProjection(q)
        /\ e.op = "session_prune" =>
             /\ DOMAIN q.sessions = DOMAIN p.sessions \ {e.sid}
             /\ \A sid \in DOMAIN q.sessions : q.sessions[sid] = p.sessions[sid]
        /\ e.op # "session_prune" =>
             /\ DOMAIN q.sessions = DOMAIN p.sessions \union {e.sid}
             /\ q.sessions[e.sid] = Folded(s, e)
             /\ \A sid \in DOMAIN q.sessions \ {e.sid} : q.sessions[sid] = p.sessions[sid]
    BY <1>1, ApplyEventIs
  <1>3. ToSet(longer) = E \union {e} /\ E \in SUBSET EventSet
    <2>1. /\ DOMAIN longer = DOMAIN events \union {n} /\ longer[n] = e
          /\ \A i \in DOMAIN events : longer[i] = events[i] /\ events[i] \in EventSet
      OBVIOUS
    <2> HIDE DEF longer, n
    <2> QED
      BY <2>1 DEF ToSet
  <1>4. \A sid : SinceGrows(events, e, sid, longer, n)
    BY SinceAppend
  <1>5. \A i \in DOMAIN events : events[i].ts \in Nat
    BY EventType
  <1>6. \A sid : Since(events, sid) \subseteq DOMAIN events
    BY DEF Since
  <1>7. ASSUME NEW sid, Unpruned(E \union {e}, sid)
        PROVE  Unpruned(E, sid)
    BY <1>7 DEF Unpruned, Of
  <1>8. ASSUME NEW sid, Unpruned(E, sid), Since(events, sid) = {}
        PROVE  \A x \in E : x.sid # sid
    BY <1>8, WholeLife DEF ToSet
  <1> HIDE DEF q, longer, E, n
  <1>9. ASSUME NEW sid, sid # e.sid
        PROVE  /\ sid \in DOMAIN q.sessions <=> Since(longer, sid) # {}
               /\ sid \in DOMAIN q.sessions /\ Unpruned(ToSet(longer), sid)
                    => TimesOf(ToSet(longer), sid, Born(longer, sid), q.sessions[sid])
    <2>1. /\ sid \in DOMAIN q.sessions <=> sid \in DOMAIN p.sessions
          /\ sid \in DOMAIN q.sessions => q.sessions[sid] = p.sessions[sid]
      BY <1>2, <1>9
    <2>2. /\ Since(longer, sid) = Since(events, sid)
          /\ n - 1 \in Nat /\ Since(events, sid) \subseteq 1 .. n - 1
          /\ \A i \in Since(events, sid) : longer[i] = events[i]
      BY <1>4, <1>9 DEF SinceGrows
    <2>3. Since(events, sid) # {} => Born(longer, sid) = Born(events, sid)
      <3>1. Since(events, sid) # {} => Min(Since(events, sid)) \in Since(events, sid)
        BY <2>2, FirstIndex
      <3> QED
        BY <2>2, <3>1 DEF Born
    <2>4. ASSUME sid \in DOMAIN q.sessions, Unpruned(ToSet(longer), sid)
          PROVE  TimesOf(ToSet(longer), sid, Born(longer, sid), q.sessions[sid])
      <3>1. TimesOf(E, sid, Born(events, sid), p.sessions[sid])
        BY <1>1, <1>3, <1>7, <2>1, <2>4
      <3>2. TimesOf(E \union {e}, sid, Born(events, sid), p.sessions[sid])
        BY <1>9, <3>1, OthersSayNoTime
      <3> QED
        BY <1>1, <1>3, <2>1, <2>3, <2>4, <3>2
    <2> QED
      BY <1>1, <2>1, <2>2, <2>4
  <1>10. CASE e.op = "session_prune"
    <2>1. e.sid \notin DOMAIN q.sessions /\ Since(longer, e.sid) = {}
      BY <1>2, <1>4, <1>10 DEF SinceGrows
    <2>2. TimesFollow(longer, q)
      BY <1>2, <1>9, <2>1 DEF TimesFollow
    <2> QED
      BY <2>2 DEF longer, q
  <1>11. CASE e.op # "session_prune"
    <2>1. /\ Since(longer, e.sid) = Since(events, e.sid) \union {n}
          /\ n \in Nat /\ Since(events, e.sid) \subseteq 1 .. n - 1 /\ longer[n] = e
          /\ \A i \in Since(events, e.sid) : longer[i] = events[i]
      BY <1>4, <1>11 DEF SinceGrows
    <2>2. /\ Since(events, e.sid) = {} => Born(longer, e.sid) = e.ts
          /\ Since(events, e.sid) # {} => Born(longer, e.sid) = Born(events, e.sid)
                                          /\ Born(events, e.sid) \in Nat
      <3>1. /\ Since(events, e.sid) = {} => Min(Since(longer, e.sid)) = n
            /\ Since(events, e.sid) # {} =>
                 /\ Min(Since(events, e.sid)) \in Since(events, e.sid)
                 /\ Min(Since(longer, e.sid)) = Min(Since(events, e.sid))
        <4> DEFINE S == Since(events, e.sid)
        <4>1. S \in SUBSET (1 .. n - 1) /\ n \in Nat
          BY <2>1
        <4> HIDE DEF S
        <4>2. /\ S = {} => Min(S \union {n}) = n
              /\ S # {} => Min(S) \in S /\ Min(S \union {n}) = Min(S)
          BY <4>1, OneMoreIndex
        <4> QED
          BY <2>1, <4>2 DEF S
      <3> QED
        BY <1>5, <1>6, <2>1, <3>1 DEF Born
    <2>3. ASSUME Unpruned(ToSet(longer), e.sid)
          PROVE  TimesOf(ToSet(longer), e.sid, Born(longer, e.sid), q.sessions[e.sid])
      <3>1. Unpruned(E, e.sid)
        BY <1>3, <1>7, <2>3
      <3>2. TimesOf(E, e.sid, Born(longer, e.sid), s) /\ Born(longer, e.sid) \in Nat
        <4>1. CASE Since(events, e.sid) = {}
          <5>1. s = EmptySession(e.ts)
            BY <1>1, <4>1 DEF SessionOrNew
          <5> HIDE DEF s
          <5>2. TimesOf(E, e.sid, e.ts, s) /\ e.ts \in Nat
            BY <1>8, <3>1, <4>1, <5>1, BornNow, EventType
          <5> QED
            BY <2>2, <4>1, <5>2
        <4>2. CASE Since(events, e.sid) # {}
          <5>1. s = p.sessions[e.sid] /\ e.sid \in DOMAIN p.sessions
            BY <1>1, <4>2 DEF SessionOrNew
          <5> HIDE DEF s
          <5> QED
            BY <1>1, <2>2, <3>1, <4>2, <5>1
        <4> QED
          BY <4>1, <4>2
      <3>3. IsSession(s)
        BY <1>1, SessionOrNewIs
      <3> HIDE DEF s
      <3>4. TimesOf(E \union {e}, e.sid, Born(longer, e.sid), Folded(s, e))
        BY <1>3, <1>11, <3>2, <3>3, FoldedKeepsTimes
      <3> QED
        BY <1>2, <1>3, <1>11, <3>4
    <2>4. e.sid \in DOMAIN q.sessions /\ Since(longer, e.sid) # {}
      BY <1>2, <1>11, <2>1
    <2>5. TimesFollow(longer, q)
      BY <1>2, <1>9, <2>3, <2>4 DEF TimesFollow
    <2> QED
      BY <2>5 DEF longer, q
  <1> QED
    BY <1>10, <1>11

LEMMA RebuildTimes ==
  ASSUME NEW events \in Seq(EventSet)
  PROVE  TimesFollow(events, RebuildFromEvents(events))
  <1>1. TimesFollow(<<>>, EmptyProjection)
    <2>1. \A sid : Since(<<>>, sid) = {}
      BY DEF Since
    <2>2. IsProjection(EmptyProjection) /\ DOMAIN EmptyProjection.sessions = {}
      BY DEF IsProjection, EmptyProjection, EmptyFunction
    <2> QED
      BY <2>1, <2>2 DEF TimesFollow
  <1>2. \A s \in Seq(EventSet), e \in EventSet :
          TimesFollow(s, Times!FoldLeft(ApplyEvent, EmptyProjection, s)) =>
            TimesFollow(Append(s, e),
                        ApplyEvent(Times!FoldLeft(ApplyEvent, EmptyProjection, s), e))
    BY EventKeepsTimes
  <1>3. TimesFollow(events, Times!FoldLeft(ApplyEvent, EmptyProjection, events))
    BY <1>1, <1>2, Times!FoldKeeps
  <1> QED
    BY <1>3, TimesSame

-----------------------------------------------------------------------------
\* A session's first event is folded first.

IsFirst(events, i) ==
  i \in DOMAIN events /\ \A k \in DOMAIN events : k < i => events[k].sid # events[i].sid
HasFirsts(events, logged) ==
  \A i \in DOMAIN logged : IsFirst(logged, i) =>
    \E j \in DOMAIN events : events[j] = logged[i] /\ IsFirst(events, j)
FirstsInv == FoldInv /\ HasFirsts(folded, log)

LEMMA OneMoreFolded ==
  ASSUME NEW events \in Seq(EventSet), NEW e, NEW logged, HasFirsts(events, logged)
  PROVE  HasFirsts(Append(events, e), logged)
  <1> DEFINE more == Append(events, e)
  <1>1. /\ Len(events) \in Nat /\ DOMAIN events = 1 .. Len(events)
        /\ DOMAIN more = 1 .. Len(events) + 1
        /\ \A k \in DOMAIN events : more[k] = events[k]
    OBVIOUS
  <1> HIDE DEF more
  <1>2. ASSUME NEW j \in DOMAIN events, IsFirst(events, j)
        PROVE  j \in DOMAIN more /\ more[j] = events[j] /\ IsFirst(more, j)
    <2>1. \A k \in DOMAIN more : k < j => k \in DOMAIN events
      BY <1>1
    <2> QED
      BY <1>1, <1>2, <2>1 DEF IsFirst
  <1>3. HasFirsts(more, logged)
    BY <1>2 DEF HasFirsts
  <1> QED
    BY <1>3 DEF more

\* A first event of the longer log is one of the log, or the new one.
LEMMA FirstOfAppend ==
  ASSUME NEW logged \in Seq(EventSet), NEW e, NEW i, IsFirst(Append(logged, e), i)
  PROVE  \/ i \in DOMAIN logged /\ IsFirst(logged, i) /\ Append(logged, e)[i] = logged[i]
         \/ Append(logged, e)[i] = e /\ \A x \in ToSet(logged) : x.sid # e.sid
  <1> DEFINE more == Append(logged, e)
             n == Len(logged) + 1
  <1>1. /\ n \in Nat /\ DOMAIN logged = 1 .. n - 1 /\ DOMAIN more = 1 .. n
        /\ more[n] = e /\ \A k \in DOMAIN logged : more[k] = logged[k]
    OBVIOUS
  <1> HIDE DEF more, n
  <1>2. i \in DOMAIN more /\ \A k \in DOMAIN more : k < i => more[k].sid # more[i].sid
    BY DEF IsFirst, more
  <1>3. CASE i \in DOMAIN logged
    <2>1. DOMAIN logged \subseteq DOMAIN more
      BY <1>1
    <2>2. \A k \in DOMAIN logged : k < i => logged[k].sid # logged[i].sid
      BY <1>1, <1>2, <1>3, <2>1
    <2> QED
      BY <1>1, <1>3, <2>2 DEF IsFirst, more
  <1>4. CASE i \notin DOMAIN logged
    <2>1. i = n
      BY <1>1, <1>2, <1>4
    <2>2. \A k \in DOMAIN logged : logged[k].sid # e.sid
      BY <1>1, <1>2, <2>1
    <2> QED
      BY <1>1, <2>1, <2>2 DEF ToSet, more
  <1> QED
    BY <1>3, <1>4

LEMMA OneMoreTransaction ==
  ASSUME NEW events \in Seq(EventSet), NEW logged \in Seq(EventSet), NEW e,
         HasFirsts(events, logged), \A i \in DOMAIN events : events[i] \in ToSet(logged)
  PROVE  HasFirsts(Append(events, e), Append(logged, e))
  <1> DEFINE more == Append(events, e)
             longer == Append(logged, e)
             n == Len(events) + 1
  <1> SUFFICES ASSUME NEW i \in DOMAIN longer, IsFirst(longer, i)
               PROVE  \E j \in DOMAIN more : more[j] = longer[i] /\ IsFirst(more, j)
    BY DEF HasFirsts
  <1>1. CASE i \in DOMAIN logged /\ IsFirst(logged, i) /\ longer[i] = logged[i]
    <2>1. HasFirsts(more, logged)
      BY OneMoreFolded
    <2> HIDE DEF more, longer
    <2> QED
      BY <1>1, <2>1 DEF HasFirsts
  <1>2. CASE longer[i] = e /\ \A x \in ToSet(logged) : x.sid # e.sid
    <2>1. /\ n \in DOMAIN more /\ more[n] = e
          /\ \A k \in DOMAIN more : k < n => k \in DOMAIN events /\ more[k] = events[k]
      OBVIOUS
    <2> HIDE DEF more, longer, n
    <2>2. IsFirst(more, n)
      BY <1>2, <2>1 DEF IsFirst
    <2> QED
      BY <1>2, <2>1, <2>2
  <1> QED
    BY <1>1, <1>2, FirstOfAppend

LEMMA LoadableHasFirsts ==
  ASSUME FirstsInv, NEW loaded \in Loadable
  PROVE  HasFirsts(loaded.events, log)
  <1>1. HasFirsts(log, log)
    BY DEF HasFirsts
  <1> QED
    BY <1>1 DEF FirstsInv, Loadable

\* A new event is appended, and folded into what was loaded.
LEMMA TransactionKeepsFirsts ==
  ASSUME FirstsInv, NEW loaded \in Loadable, NEW t \in templates,
         Transaction(loaded, NewEvent(t))
  PROVE  HasFirsts(folded, log)'
  <1> DEFINE e == NewEvent(t)
             events == loaded.events
  <1>0. FoldInv
    BY DEF FirstsInv
  <1>1. e \in EventSet /\ e.id = Len(log) + 1
    BY <1>0, NewEventIs
  <1> HIDE DEF e
  <1>2. log' = Append(log, e) /\ FoldInto(loaded, e)
    BY DEF Transaction, e
  <1>3. \A x \in ToSet(log) : x.id # e.id
    BY <1>0, <1>1, <1>2, LogGrows
  <1>4. /\ events \in Seq(EventSet) /\ loaded.proj = RebuildFromEvents(events)
        /\ \A i \in DOMAIN events : events[i] \in ToSet(log)
    BY <1>0, LoadableIs
  <1>5. HasFirsts(events, log)
    BY LoadableHasFirsts
  <1>6. loaded.proj.last_event_id # e.id
    <2>1. RecordsOf(events, loaded.proj)
      BY <1>4, RebuildIs
    <2>2. CASE events = <<>>
      BY <1>1, <2>1, <2>2, EventType, NullIsNoTime DEF RecordsOf
    <2>3. CASE events # <<>>
      <3>1. Len(events) \in DOMAIN events
        BY <1>4, <2>3
      <3>2. Last(events) \in ToSet(log)
        BY <1>4, <3>1 DEF Last
      <3> QED
        BY <1>3, <2>1, <2>3, <3>2 DEF RecordsOf
    <2> QED
      BY <2>2, <2>3
  <1>7. folded' = Append(events, e)
    BY <1>2, <1>6 DEF FoldInto
  <1>8. log \in Seq(EventSet)
    BY <1>0 DEF FoldInv
  <1> HIDE DEF events
  <1>9. HasFirsts(folded', log')
    BY <1>2, <1>4, <1>5, <1>7, <1>8, OneMoreTransaction
  <1> QED
    BY <1>9 DEF HasFirsts, IsFirst

LEMMA StepFirstsInv == FirstsInv /\ [Next]_vars => FirstsInv'
  <1> SUFFICES ASSUME FirstsInv, [Next]_vars
               PROVE  HasFirsts(folded, log)'
    BY StepFoldInv DEF FirstsInv
  <1>0. FoldInv /\ log \in Seq(EventSet) /\ HasFirsts(folded, log)
    BY DEF FirstsInv, FoldInv
  <1>1. CASE RecordObservation
    BY <1>1, TransactionKeepsFirsts DEF RecordObservation
  <1>2. CASE RecordThreadName
    BY <1>2, TransactionKeepsFirsts DEF RecordThreadName
  <1>3. CASE Prune
    BY <1>3, TransactionKeepsFirsts DEF Prune
  <1>4. CASE AppendUpdate
    <2>1. PICK loaded \in Loadable, t \in templates :
            /\ t.sid \in DOMAIN loaded.proj.sessions
            /\ log' = Append(log, NewEvent(t))
            /\ UNCHANGED folded
      BY <1>4 DEF AppendUpdate
    <2> DEFINE e == NewEvent(t)
               events == loaded.events
    <2>2. /\ events \in Seq(EventSet) /\ loaded.proj = RebuildFromEvents(events)
          /\ \A i \in DOMAIN events : events[i] \in ToSet(log)
      BY <1>0, LoadableIs
    <2>3. e.sid = t.sid
      BY DEF NewEvent
    <2> HIDE DEF e, events
    <2>4. Since(events, t.sid) # {}
      BY <2>1, <2>2, RebuildTimes DEF TimesFollow
    <2>5. \E x \in ToSet(log) : x.sid = e.sid
      BY <2>2, <2>3, <2>4 DEF Since
    <2>6. log' = Append(log, e) /\ folded' = folded
      BY <2>1 DEF e
    <2>7. ASSUME NEW i \in DOMAIN log', IsFirst(log', i)
          PROVE  \E j \in DOMAIN folded : folded[j] = log'[i] /\ IsFirst(folded, j)
      <3>1. i \in DOMAIN log /\ IsFirst(log, i) /\ log'[i] = log[i]
        BY <1>0, <2>5, <2>6, <2>7, FirstOfAppend
      <3> QED
        BY <1>0, <3>1 DEF HasFirsts
    <2>8. HasFirsts(folded', log')
      BY <2>6, <2>7 DEF HasFirsts
    <2> QED
      BY <2>8 DEF HasFirsts, IsFirst
  <1>5. CASE FoldUpdate
    <2>1. PICK loaded \in Loadable, e \in unfolded : FoldInto(loaded, e) /\ log' = log
      BY <1>5 DEF FoldUpdate
    <2>2. loaded.events \in Seq(EventSet)
      BY <1>0, LoadableIs
    <2>3. HasFirsts(loaded.events, log)
      BY LoadableHasFirsts
    <2>4. folded' = loaded.events \/ folded' = Append(loaded.events, e)
      BY <2>1 DEF FoldInto
    <2>5. HasFirsts(folded', log')
      BY <2>1, <2>2, <2>3, <2>4, OneMoreFolded
    <2> QED
      BY <2>5 DEF HasFirsts, IsFirst
  <1>6. CASE UNCHANGED vars
    BY <1>0, <1>6 DEF vars, HasFirsts, IsFirst
  <1> QED
    BY <1>1, <1>2, <1>3, <1>4, <1>5, <1>6 DEF Next

LEMMA SameBirth ==
  ASSUME FirstsInv, ToSet(folded) = ToSet(log), NEW sid, Unpruned(ToSet(log), sid),
         Since(folded, sid) # {}
  PROVE  Born(folded, sid) = Born(log, sid) /\ Since(log, sid) # {}
  <1> DEFINE ours == Since(folded, sid)
             theirs == Since(log, sid)
  <1>1. /\ folded \in Seq(EventSet) /\ log \in Seq(EventSet)
        /\ HasFirsts(folded, log)
    BY DEF FirstsInv, FoldInv
  <1>2. /\ ours = {i \in DOMAIN folded : folded[i].sid = sid}
        /\ theirs = {i \in DOMAIN log : log[i].sid = sid}
    BY <1>1, WholeLife
  <1>3. DOMAIN folded = 1 .. Len(folded) /\ DOMAIN log = 1 .. Len(log)
    BY <1>1
  <1> HIDE DEF ours, theirs
  <1>4. theirs # {}
    <2>1. PICK k \in DOMAIN folded : folded[k].sid = sid
      BY <1>2 DEF ours
    <2>2. folded[k] \in ToSet(log)
      BY <2>1 DEF ToSet
    <2> QED
      BY <1>2, <2>1, <2>2 DEF ToSet
  <1>5. Min(theirs) \in theirs /\ \A i \in theirs : Min(theirs) <= i
    <2>1. theirs \in SUBSET (1 .. Len(log))
      BY <1>2, <1>3
    <2> QED
      BY <1>4, <2>1, FirstIndex
  <1>6. Min(ours) \in ours /\ \A i \in ours : Min(ours) <= i
    <2>1. ours \in SUBSET (1 .. Len(folded)) /\ ours # {}
      BY <1>2, <1>3 DEF ours
    <2> QED
      BY <2>1, FirstIndex
  <1> DEFINE i == Min(theirs)
             m == Min(ours)
  <1> HIDE DEF i, m
  <1>7. i \in DOMAIN log /\ log[i].sid = sid /\ IsFirst(log, i)
    <2>1. i \in theirs /\ \A k \in theirs : i <= k
      BY <1>5 DEF i
    <2>2. \A k \in DOMAIN log : k \in Nat /\ i \in Nat
      BY <1>2, <1>3, <2>1
    <2>3. \A k \in DOMAIN log : k < i => k \notin theirs
      BY <2>1, <2>2
    <2> QED
      BY <1>2, <2>1, <2>3 DEF IsFirst
  <1>8. PICK j \in DOMAIN folded : folded[j] = log[i] /\ IsFirst(folded, j)
    BY <1>1, <1>7 DEF HasFirsts
  <1>9. m = j
    <2>1. m \in ours /\ j \in ours /\ m <= j
      BY <1>2, <1>6, <1>7, <1>8 DEF m
    <2>2. m \in Nat /\ j \in Nat
      BY <1>2, <1>3, <2>1
    <2>3. ~(m < j)
      BY <1>2, <1>7, <1>8, <2>1 DEF IsFirst
    <2> QED
      BY <2>1, <2>2, <2>3
  <1> QED
    BY <1>4, <1>8, <1>9 DEF Born, i, m, ours, theirs

\* Times do not depend on who folds first: once all of the log is folded, in
\* whatever order and however often, a session was created at the earliest
\* sighting, has progressed at the latest activity, and each merge request was
\* first seen when it was (reduceSessionSeen, reduceSweep, applyPrLinkToSession
\* and the bump in applyEvent).  What it needs is that a session's first event,
\* which creates the record, is folded first (HasFirsts).
THEOREM ProjectionTimesConverge == Spec => []TimesConverge
  <1>1. Init => FirstsInv
    BY InitFoldInv DEF Init, FirstsInv, HasFirsts
  <1>2. FirstsInv => TimesConverge
    <2> SUFFICES ASSUME FirstsInv, ToSet(folded) = ToSet(log),
                        NEW sid \in DOMAIN proj.sessions, Unpruned(ToSet(log), sid)
                 PROVE  LET s == proj.sessions[sid]
                            E == ToSet(log)
                            prs == Of(E, sid, {"pr_link_seen"}) IN
                        /\ s.created_at = Min({Born(log, sid)} \union Sighted(E, sid))
                        /\ s.last_progress_at =
                             Max({Born(log, sid)} \union Active(E, sid) \union Swept(E, sid))
                        /\ \A key \in DOMAIN s.prs :
                             s.prs[key].first_seen_at = Min(Observed(E, sid, key))
                        /\ Cardinality(DOMAIN s.prs) < MaxPrLinks =>
                             \A e \in prs : PrKey(e) \in DOMAIN s.prs
      BY DEF TimesConverge, Unpruned, Of, Born, Sighted, Active, Swept, Observed,
             Sighters, Activities
    <2> DEFINE s == proj.sessions[sid]
               E == ToSet(log)
               born == Born(log, sid)
    <2>1. /\ folded \in Seq(EventSet) /\ log \in Seq(EventSet)
          /\ proj = RebuildFromEvents(folded)
      BY DEF FirstsInv, FoldInv
    <2>2. Since(folded, sid) # {} /\ TimesOf(E, sid, Born(folded, sid), s)
      BY <2>1, RebuildTimes DEF TimesFollow
    <2>3. Born(folded, sid) = born /\ Since(log, sid) # {}
      BY <2>2, SameBirth
    <2>4. born \in Nat
      <3>1. Since(log, sid) \in SUBSET (1 .. Len(log))
        BY <2>1 DEF Since
      <3>2. Min(Since(log, sid)) \in 1 .. Len(log)
        BY <2>3, <3>1, FirstIndex
      <3> QED
        BY <2>1, <3>2, EventType DEF Born
    <2>5. E \in SUBSET EventSet
      BY <2>1 DEF ToSet
    <2> HIDE DEF s, E, born
    <2>6. TimesOf(E, sid, born, s)
      BY <2>2, <2>3
    <2>7. /\ {born} \union Sighted(E, sid) \in SUBSET Nat
          /\ {born} \union Active(E, sid) \union Swept(E, sid) \in SUBSET Nat
          /\ \A key : Observed(E, sid, key) \in SUBSET Nat
      BY <2>4, <2>5, AreTimes
    <2>8. s.created_at = Min({born} \union Sighted(E, sid))
      BY <2>6, <2>7, ExtremesAre DEF TimesOf
    <2>9. s.last_progress_at = Max({born} \union Active(E, sid) \union Swept(E, sid))
      BY <2>6, <2>7, ExtremesAre DEF TimesOf
    <2>10. \A key \in DOMAIN s.prs : s.prs[key].first_seen_at = Min(Observed(E, sid, key))
      BY <2>6, <2>7, ExtremesAre DEF TimesOf, LinksOf
    <2> QED
      BY <2>6, <2>8, <2>9, <2>10 DEF TimesOf, LinksOf, s, E, born
  <1> QED
    BY <1>1, <1>2, StepFirstsInv, PTL DEF Spec
=============================================================================
