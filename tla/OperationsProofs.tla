--------------------------- MODULE OperationsProofs ---------------------------
(***************************************************************************)
(* What modules Operations and Listing say of calls that interleave and of *)
(* what is listed meanwhile, proved for any sessions, processes, workloads,*)
(* threads, thresholds and bounds.                                         *)
(***************************************************************************)
EXTENDS Listing, FiniteSetTheorems, SequenceTheorems, TLAPS

-----------------------------------------------------------------------------
\* One event and one record.

SessionFields ==
  {"source", "csids", "codexIds", "names", "alias", "ai_title", "display", "prs",
   "tasks", "parent", "preview", "branch", "activity", "outcome", "closed_at",
   "created_at", "last_progress_at"}
LEMMA FieldsAre == DOMAIN EmptySession(0) = SessionFields
  BY DEF EmptySession, SessionFields

\* What matters here of the record t that the event e makes of s: which threads
\* it is of, its parent, and the name its thread has, if there is room for it.
Threaded == "codex_thread_name"
NamesThread(e) == e.op \in NameOps /\ NameChange(e).channel = Threaded
IsFull(names) == Threaded \notin DOMAIN names /\ Cardinality(DOMAIN names) = MaxChannels
Effect(s, e, t) ==
  /\ IsRecord(t)
  /\ t.codexIds = IF e.op = "codex_session_seen" THEN s.codexIds \union {e.p.codexId}
                  ELSE s.codexIds
  /\ t.parent = IF e.op = "parent_set" THEN e.p.parent ELSE s.parent
  /\ \/ ThreadName(t) = ThreadName(s)
     \/ NamesThread(e) /\ ThreadName(t) = NameChange(e).value
  /\ NamesThread(e) /\ SaysName(e) => IsFull(t.names) \/ ThreadName(t) = NameChange(e).value
  /\ IsFull(s.names) => IsFull(t.names)

LEMMA NewRecord ==
  ASSUME NEW ts \in Nat
  PROVE  /\ IsRecord(EmptySession(ts)) /\ EmptySession(ts).codexIds = {}
         /\ EmptySession(ts).parent = Null /\ ThreadName(EmptySession(ts)) = 0
  <1>1. IsFiniteSet({}) /\ Cardinality({}) = 0
    BY FS_EmptySet
  <1>2. \A most \in Nat : IsMap(EmptyFunction, most)
    BY <1>1 DEF IsMap, EmptyFunction
  <1> QED
    BY <1>2, FieldsAre, CapsType, NullType
    DEF IsRecord, EmptySession, EmptyFunction, ThreadName, SessionFields

\* A change of the other fields is none that matters.
Alike(s, t) ==
  /\ t.codexIds = s.codexIds /\ t.source = s.source /\ t.parent = s.parent
  /\ t.names = s.names /\ t.prs = s.prs /\ t.alias = s.alias

\* A map is still one when an entry of it changes, or is added below the cap.
LEMMA MapGrows ==
  ASSUME NEW most \in Nat, NEW map, IsMap(map, most), NEW key, NEW value
  PROVE  /\ key \in DOMAIN map => IsMap([map EXCEPT ![key] = value], most)
         /\ ~(Cardinality(DOMAIN map) >= most) => IsMap(Put(map, key, value), most)
  <1>1. IsFiniteSet(DOMAIN map) /\ Cardinality(DOMAIN map) \in Nat
    BY FS_CardinalityType DEF IsMap
  <1>2. key \in DOMAIN map => IsMap([map EXCEPT ![key] = value], most)
    <2> DEFINE after == [map EXCEPT ![key] = value]
    <2>1. after = [k \in DOMAIN after |-> after[k]] /\ DOMAIN after = DOMAIN map
      BY DEF IsMap
    <2> HIDE DEF after
    <2> QED
      BY <2>1 DEF IsMap, after
  <1>3. ASSUME ~(Cardinality(DOMAIN map) >= most)
        PROVE  IsMap(Put(map, key, value), most)
    <2> DEFINE after == Put(map, key, value)
    <2>1. after = [k \in DOMAIN after |-> after[k]] /\ DOMAIN after = DOMAIN map \union {key}
      BY DEF Put
    <2> HIDE DEF after
    <2> DEFINE D == DOMAIN map
    <2> HIDE DEF D
    <2>2. /\ IsFiniteSet(D \union {key})
          /\ Cardinality(D \union {key}) = IF key \in D THEN Cardinality(D) ELSE Cardinality(D) + 1
      BY <1>1, FS_AddElement DEF D
    <2>3. Cardinality(D \union {key}) <= most
      BY <1>1, <1>3, <2>2 DEF D
    <2> QED
      BY <2>1, <2>2, <2>3 DEF IsMap, after, D
  <1> QED
    BY <1>2, <1>3

\* The times of an event are times, and an alias is a text.
IsEvent(e) ==
  /\ e.ts \in Nat
  /\ e.op = "pr_link_seen" => e.p.observed_at \in Nat
  /\ e.op = "sweep" => e.p.effective \in Nat
  /\ e.op = "alias_set" => e.p.value # Junk

LEMMA LinkingEffect ==
  ASSUME NEW prs, IsMap(prs, MaxPrLinks), \A key \in DOMAIN prs : prs[key].first_seen_at \in Nat,
         NEW e, e.p.observed_at \in Nat
  PROVE  LET after == ApplyPrLink(prs, e) IN
         /\ IsMap(after, MaxPrLinks)
         /\ \A key \in DOMAIN after : after[key].first_seen_at \in Nat
  <1> DEFINE after == ApplyPrLink(prs, e)
             key == PrKey(e)
  <1>0. prs = [k \in DOMAIN prs |-> prs[k]]
    BY DEF IsMap
  <1>1. CASE key \in DOMAIN prs
    <2> DEFINE link == PrLinkAgain(prs[key], e)
    <2>1. link.first_seen_at \in Nat
      BY <1>1 DEF PrLinkAgain, Earlier
    <2>2. after = [prs EXCEPT ![key] = link]
      BY <1>1 DEF ApplyPrLink
    <2> HIDE DEF link, after, key
    <2>3. \A k \in DOMAIN after : after[k] = IF k = key THEN link ELSE prs[k]
      BY <1>0, <2>2
    <2>4. IsMap(after, MaxPrLinks)
      BY <1>1, <2>2, MapGrows, CapsType DEF key
    <2>5. \A k \in DOMAIN after : after[k].first_seen_at \in Nat
      BY <1>0, <2>1, <2>2, <2>3
    <2> QED
      BY <2>4, <2>5 DEF after
  <1>2. CASE key \notin DOMAIN prs /\ Cardinality(DOMAIN prs) >= MaxPrLinks
    BY <1>2 DEF ApplyPrLink
  <1>3. CASE key \notin DOMAIN prs /\ ~(Cardinality(DOMAIN prs) >= MaxPrLinks)
    <2> DEFINE link == PrLink(e)
    <2>1. link.first_seen_at \in Nat
      BY DEF PrLink
    <2>2. after = Put(prs, key, link)
      BY <1>3 DEF ApplyPrLink
    <2> HIDE DEF link, after, key
    <2>3. \A k \in DOMAIN after : after[k] = (IF k = key THEN link ELSE prs[k]) /\ (k = key \/ k \in DOMAIN prs)
      BY <2>2 DEF Put
    <2>4. IsMap(after, MaxPrLinks)
      BY <1>3, <2>2, MapGrows, CapsType
    <2>5. \A k \in DOMAIN after : after[k].first_seen_at \in Nat
      BY <2>1, <2>3
    <2> QED
      BY <2>4, <2>5 DEF after
  <1> QED
    BY <1>1, <1>2, <1>3

LEMMA NamelessEffect ==
  ASSUME NEW s, IsRecord(s), NEW e,
         e.op \in NamelessOps \ {"session_prune"}, IsEvent(e)
  PROVE  Effect(s, e, Reduce(s, e))
  <1>0. s = [f \in SessionFields |-> s[f]]
    BY FieldsAre DEF IsRecord
  <1>b. s.last_progress_at \in Nat /\ ~NamesThread(e)
    BY DEF IsRecord, NamesThread, NamelessOps, NameOps
  <1>a. ASSUME NEW t, t = [f \in SessionFields |-> t[f]], t.names = s.names, t.prs = s.prs,
               t.alias = s.alias, t.last_progress_at \in Nat,
               t.source = "codex" \/ (t.codexIds = s.codexIds /\ t.source = s.source)
        PROVE  /\ IsRecord(t) /\ ThreadName(t) = ThreadName(s)
               /\ ~NamesThread(e) /\ (IsFull(s.names) => IsFull(t.names))
    BY <1>a, <1>b, FieldsAre DEF IsRecord, ThreadName
  <1>1. CASE e.op = "session_seen"
    <2> DEFINE t == ReduceSessionSeen(s, e)
    <2>1. t = [f \in SessionFields |-> t[f]] /\ Alike(s, t) /\ t.last_progress_at \in Nat
      BY <1>0, <1>b DEF ReduceSessionSeen, SessionFields, Alike
    <2>2. Reduce(s, e) = t
      BY <1>1 DEF Reduce
    <2> QED
      BY <1>1, <1>a, <2>1, <2>2 DEF Effect, Alike
  <1>2. CASE e.op = "session_progress"
    <2> DEFINE t == ReduceSessionProgress(s, e)
    <2>1. t = [f \in SessionFields |-> t[f]] /\ Alike(s, t) /\ t.last_progress_at \in Nat
      BY <1>0, <1>b DEF ReduceSessionProgress, SessionFields, Alike
    <2>2. Reduce(s, e) = t
      BY <1>2 DEF Reduce
    <2> QED
      BY <1>2, <1>a, <2>1, <2>2 DEF Effect, Alike
  <1>3. CASE e.op = "session_link"
    <2> DEFINE t == ReduceSessionLink(s, e)
    <2>1. t = [f \in SessionFields |-> t[f]] /\ Alike(s, t) /\ t.last_progress_at \in Nat
      BY <1>0, <1>b DEF ReduceSessionLink, SessionFields, Alike
    <2>2. Reduce(s, e) = t
      BY <1>3 DEF Reduce
    <2> QED
      BY <1>3, <1>a, <2>1, <2>2 DEF Effect, Alike
  <1>4. CASE e.op = "session_unlink"
    <2> DEFINE t == ReduceSessionUnlink(s, e)
    <2>1. t = [f \in SessionFields |-> t[f]] /\ Alike(s, t) /\ t.last_progress_at \in Nat
      BY <1>0, <1>b DEF ReduceSessionUnlink, SessionFields, Alike
    <2>2. Reduce(s, e) = t
      BY <1>4 DEF Reduce
    <2> QED
      BY <1>4, <1>a, <2>1, <2>2 DEF Effect, Alike
  <1>5. CASE e.op = "parent_set"
    <2> DEFINE t == ReduceParentSet(s, e)
    <2>1. /\ t = [f \in SessionFields |-> t[f]] /\ t.names = s.names /\ t.prs = s.prs
          /\ t.codexIds = s.codexIds /\ t.source = s.source /\ t.parent = e.p.parent
          /\ t.alias = s.alias /\ t.last_progress_at \in Nat
      BY <1>0, <1>b DEF ReduceParentSet, SessionFields
    <2>2. Reduce(s, e) = t
      BY <1>5 DEF Reduce
    <2> QED
      BY <1>5, <1>a, <2>1, <2>2 DEF Effect
  <1>6. CASE e.op = "close"
    <2> DEFINE t == ReduceClose(s, e)
    <2>1. t = [f \in SessionFields |-> t[f]] /\ Alike(s, t) /\ t.last_progress_at \in Nat
      BY <1>0, <1>b DEF ReduceClose, SessionFields, Alike
    <2>2. Reduce(s, e) = t
      BY <1>6 DEF Reduce
    <2> QED
      BY <1>6, <1>a, <2>1, <2>2 DEF Effect, Alike
  <1>7. CASE e.op = "sweep"
    <2> DEFINE t == ReduceSweep(s, e)
    <2>1. t = [f \in SessionFields |-> t[f]] /\ Alike(s, t) /\ t.last_progress_at \in Nat
      BY <1>0, <1>b, <1>7 DEF ReduceSweep, SessionFields, Alike, Later, IsEvent
    <2>2. Reduce(s, e) = t
      BY <1>7 DEF Reduce
    <2> QED
      BY <1>7, <1>a, <2>1, <2>2 DEF Effect, Alike
  <1>8. CASE e.op = "codex_session_seen"
    <2> DEFINE t == ReduceCodexSessionSeen(s, e)
    <2>1. /\ t = [f \in SessionFields |-> t[f]] /\ t.names = s.names /\ t.prs = s.prs
          /\ t.codexIds = s.codexIds \union {e.p.codexId} /\ t.source = "codex"
          /\ t.parent = s.parent
          /\ t.alias = s.alias /\ t.last_progress_at \in Nat
      BY <1>0, <1>b DEF ReduceCodexSessionSeen, SessionFields
    <2>2. Reduce(s, e) = t
      BY <1>8 DEF Reduce
    <2> QED
      BY <1>8, <1>a, <2>1, <2>2 DEF Effect
  <1>9. CASE e.op = "pr_link_seen"
    <2> DEFINE t == ReducePrLinkSeen(s, e)
    <2>1. /\ t = [f \in SessionFields |-> t[f]] /\ t.names = s.names
          /\ t.codexIds = s.codexIds /\ t.source = s.source /\ t.parent = s.parent
          /\ t.prs = ApplyPrLink(s.prs, e)
          /\ t.alias = s.alias /\ t.last_progress_at \in Nat
      BY <1>0, <1>b DEF ReducePrLinkSeen, SessionFields
    <2>2. Reduce(s, e) = t
      BY <1>9 DEF Reduce
    <2> HIDE DEF t
    <2>3. IsMap(t.prs, MaxPrLinks) /\ \A key \in DOMAIN t.prs : t.prs[key].first_seen_at \in Nat
      BY <1>9, <2>1, LinkingEffect DEF IsRecord, IsEvent
    <2>4. IsRecord(t) /\ ThreadName(t) = ThreadName(s)
      BY <2>1, <2>3, FieldsAre DEF IsRecord, ThreadName
    <2> QED
      BY <1>9, <1>b, <2>1, <2>2, <2>4 DEF Effect
  <1> QED
    BY <1>1, <1>2, <1>3, <1>4, <1>5, <1>6, <1>7, <1>8, <1>9 DEF NamelessOps

\* A naming touches the entry of its own channel only.
Touches(names, c, after) ==
  /\ after = [d \in DOMAIN after |-> after[d]]
  /\ \A d : d # c.channel =>
       /\ d \in DOMAIN after <=> d \in DOMAIN names
       /\ d \in DOMAIN names => after[d] = names[d]
  /\ after # names => c.channel \in DOMAIN after
  /\ c.channel \in DOMAIN after => after[c.channel].value = c.value

LEMMA NamingEffect ==
  ASSUME NEW names, names = [d \in DOMAIN names |-> names[d]], NEW c
  PROVE  Touches(names, c, ApplyName(names, c))
  <1> DEFINE after == ApplyName(names, c)
             ch == c.channel
  <1>1. \/ after = names /\ (ch \in DOMAIN names => names[ch].value = c.value)
        \/ \E n : n.value = c.value /\
             \/ ch \in DOMAIN names /\ after = [names EXCEPT ![ch] = n]
             \/ after = Put(names, ch, n)
    <2>1. \A n : Entry(c, n).value = c.value
      BY DEF Entry
    <2>2. ch \in DOMAIN names =>
            Renamed(names, c) = [names EXCEPT ![ch] = Entry(c, names[ch].set_count + 1)]
      BY DEF Renamed
    <2> QED
      BY <2>1, <2>2 DEF ApplyName, IsSameNaming
  <1>2. ASSUME after = names, ch \in DOMAIN names => names[ch].value = c.value
        PROVE  Touches(names, c, after)
    <2> HIDE DEF after
    <2> QED
      BY <1>2 DEF Touches
  <1>3. ASSUME NEW n, n.value = c.value, ch \in DOMAIN names,
               after = [names EXCEPT ![ch] = n]
        PROVE  Touches(names, c, after)
    <2> HIDE DEF after
    <2> QED
      BY <1>3 DEF Touches
  <1>4. ASSUME NEW n, n.value = c.value, after = Put(names, ch, n)
        PROVE  Touches(names, c, after)
    <2> HIDE DEF after
    <2> QED
      BY <1>4 DEF Put, Touches
  <1> QED
    BY <1>1, <1>2, <1>3, <1>4

\* And leaves a map of them.
LEMMA NamesStayMap ==
  ASSUME NEW names, IsMap(names, MaxChannels), NEW c
  PROVE  IsMap(ApplyName(names, c), MaxChannels)
  <1>1. c.channel \in DOMAIN names => IsMap(Renamed(names, c), MaxChannels)
    BY MapGrows, CapsType DEF Renamed
  <1> QED
    BY <1>1, MapGrows, CapsType DEF ApplyName

\* There is no more room for the name of a thread than there was, and a name that
\* is given is there, unless there is none.
LEMMA RoomForNames ==
  ASSUME NEW names, IsMap(names, MaxChannels), NEW c
  PROVE  LET after == ApplyName(names, c) IN
         /\ IsFull(names) => IsFull(after)
         /\ c.channel = Threaded => IsFull(after) \/ Threaded \in DOMAIN after
  <1> DEFINE after == ApplyName(names, c)
             n == Cardinality(DOMAIN names)
  <1>1. n \in Nat /\ n <= MaxChannels
    BY FS_CardinalityType DEF IsMap
  <1>2. CASE c.channel \in DOMAIN names
    <2>1. DOMAIN after = DOMAIN names
      BY <1>2 DEF ApplyName, Renamed
    <2> QED
      BY <1>2, <2>1 DEF IsFull
  <1>3. CASE c.channel \notin DOMAIN names /\ n >= MaxChannels
    <2>1. after = names /\ n = MaxChannels
      BY <1>1, <1>3, CapsType DEF ApplyName
    <2> QED
      BY <1>3, <2>1 DEF IsFull
  <1>4. CASE c.channel \notin DOMAIN names /\ ~(n >= MaxChannels)
    <2>1. after = Put(names, c.channel, Entry(c, 1))
      BY <1>4 DEF ApplyName
    <2>2. c.channel \in DOMAIN after /\ n # MaxChannels
      BY <1>1, <1>4, <2>1, CapsType DEF Put
    <2> QED
      BY <2>2 DEF IsFull
  <1> QED
    BY <1>2, <1>3, <1>4

\* The two copies of the alias stay the same.
AliasKept(names, alias) ==
  alias # Junk /\ ("alias" \in DOMAIN names => names["alias"].value = alias)

LEMMA AliasStays ==
  ASSUME NEW s, IsRecord(s), NEW e, e.op \in NameOps, IsEvent(e)
  PROVE  /\ AliasKept(Reduce(s, e).names, Reduce(s, e).alias)
         /\ Reduce(s, e).last_progress_at \in Nat
  <1> DEFINE c == NameChange(e)
             r == ReduceName(s, e)
             after == ApplyName(s.names, c)
  <1>1. /\ s = [f \in SessionFields |-> s[f]] /\ s.names = [d \in DOMAIN s.names |-> s.names[d]]
        /\ AliasKept(s.names, s.alias) /\ s.last_progress_at \in Nat
    BY FieldsAre DEF IsRecord, IsMap, AliasKept
  <1>2. Touches(s.names, c, after)
    BY <1>1, NamingEffect
  <1>3. c.channel = "alias" \/ AliasKept(after, s.alias)
    BY <1>1, <1>2 DEF Touches, AliasKept
  <1>4. \A value : c.channel = "alias" /\ c.value = value /\ value # Junk => AliasKept(after, value)
    BY <1>2 DEF Touches, AliasKept
  <1>5. /\ r = [f \in SessionFields |-> r[f]] /\ r.last_progress_at = s.last_progress_at
        /\ r.alias = s.alias
        /\ r.names = IF SaysName(e) THEN after ELSE s.names
    <2> HIDE DEF after
    <2>1. CASE SaysName(e)
      <3>1. r = [s EXCEPT !.names = after]
        BY <2>1 DEF ReduceName, after
      <3> QED
        BY <1>1, <2>1, <3>1 DEF SessionFields
    <2>2. CASE ~SaysName(e)
      BY <1>1, <2>2 DEF ReduceName
    <2> QED
      BY <2>1, <2>2
  <1> HIDE DEF r, after
  <1>6. CASE e.op = "alias_set"
    <2>1. /\ SaysName(e) /\ c.channel = "alias" /\ c.value = e.p.value /\ e.p.value # Junk
      BY <1>6 DEF IsEvent, SaysName, NameChange
    <2>2. Reduce(s, e) = [r EXCEPT !.alias = e.p.value]
      BY <1>6 DEF Reduce, ReduceAliasSet, r
    <2>3. /\ Reduce(s, e).names = r.names /\ Reduce(s, e).alias = e.p.value
          /\ Reduce(s, e).last_progress_at = r.last_progress_at
      BY <1>5, <2>2 DEF SessionFields
    <2> QED
      BY <1>1, <1>4, <1>5, <2>1, <2>3
  <1>7. CASE e.op = "ai_title_seen"
    <2>1. c.channel # "alias"
      BY <1>7 DEF NameChange
    <2>2. Reduce(s, e) = [r EXCEPT !.ai_title = e.p.value]
      BY <1>7 DEF Reduce, ReduceAiTitleSeen, r
    <2>3. /\ Reduce(s, e).names = r.names /\ Reduce(s, e).alias = r.alias
          /\ Reduce(s, e).last_progress_at = r.last_progress_at
      BY <1>5, <2>2 DEF SessionFields
    <2> QED
      BY <1>1, <1>3, <1>5, <2>1, <2>3
  <1>8. CASE e.op = "name_set"
    <2>1. Reduce(s, e) = IF r.names = s.names THEN s ELSE MirrorDerivedField(r, c)
      BY <1>8 DEF Reduce, ReduceNameSet, r
    <2>2. CASE r.names = s.names
      BY <1>1, <2>1, <2>2
    <2>3. CASE r.names # s.names
      <3> DEFINE t == MirrorDerivedField(r, c)
      <3>1. SaysName(e) /\ r.names = after
        BY <1>5, <2>3
      <3>2. c.value # Junk
        BY <1>8, <3>1 DEF SaysName, NameChange
      <3>3. /\ t.names = r.names /\ t.last_progress_at = r.last_progress_at
            /\ t.alias = IF c.channel = "alias" THEN c.value ELSE r.alias
        <4> HIDE DEF c
        <4> QED
          BY <1>5 DEF MirrorDerivedField, SessionFields
      <3> QED
        BY <1>1, <1>3, <1>4, <1>5, <2>1, <2>3, <3>1, <3>2, <3>3
    <2> QED
      BY <2>2, <2>3
  <1> QED
    BY <1>6, <1>7, <1>8 DEF NameOps

LEMMA NameEffect ==
  ASSUME NEW s, IsRecord(s), NEW e, e.op \in NameOps, IsEvent(e)
  PROVE  Effect(s, e, Reduce(s, e))
  <1> DEFINE c == NameChange(e)
             r == ReduceName(s, e)
             Fine(t) == /\ t = [f \in SessionFields |-> t[f]] /\ t.names = r.names
                        /\ t.codexIds = s.codexIds /\ t.source = s.source
                        /\ t.parent = s.parent /\ t.prs = s.prs
  <1>0. /\ s = [f \in SessionFields |-> s[f]] /\ s.names = [d \in DOMAIN s.names |-> s.names[d]]
        /\ IsMap(s.names, MaxChannels)
    BY FieldsAre DEF IsRecord, IsMap
  <1>1. /\ Fine(r) /\ IsMap(r.names, MaxChannels)
        /\ r.names = s.names \/ r.names = ApplyName(s.names, c)
        /\ SaysName(e) => r.names = ApplyName(s.names, c)
    <2>1. CASE SaysName(e)
      <3>1. r = [s EXCEPT !.names = ApplyName(s.names, c)]
        BY <2>1 DEF ReduceName
      <3> HIDE DEF r, c
      <3>2. /\ r = [f \in SessionFields |-> r[f]] /\ r.names = ApplyName(s.names, c)
            /\ r.codexIds = s.codexIds /\ r.source = s.source /\ r.parent = s.parent
            /\ r.prs = s.prs
        BY <1>0, <3>1 DEF SessionFields
      <3>3. IsMap(r.names, MaxChannels)
        BY <1>0, <3>2, NamesStayMap
      <3> QED
        BY <3>2, <3>3
    <2>2. CASE ~SaysName(e)
      BY <1>0, <2>2 DEF ReduceName
    <2> QED
      BY <2>1, <2>2
  <1>a. /\ IsFull(s.names) => IsFull(r.names)
        /\ c.channel = Threaded /\ SaysName(e) => IsFull(r.names) \/ ThreadName(r) = c.value
    <2> DEFINE before == s.names
               after == ApplyName(before, c)
    <2>1. Touches(before, c, after)
      BY <1>0, NamingEffect
    <2>2. /\ IsFull(before) => IsFull(after)
          /\ c.channel = Threaded => IsFull(after) \/ Threaded \in DOMAIN after
      BY <1>0, RoomForNames
    <2>3. /\ r.names = before \/ r.names = after
          /\ SaysName(e) => r.names = after
      BY <1>1
    <2> HIDE DEF after, r, c
    <2> QED
      BY <2>1, <2>2, <2>3 DEF Touches, ThreadName, Threaded
  <1>2. \/ ThreadName(r) = ThreadName(s)
        \/ c.channel = Threaded /\ ThreadName(r) = c.value
    <2>1. CASE r.names = s.names
      BY <2>1 DEF ThreadName
    <2>2. CASE r.names # s.names
      <3> DEFINE before == s.names
                 after == ApplyName(before, c)
      <3>1. r.names = after
        BY <1>1, <2>2
      <3>2. Touches(before, c, after)
        BY <1>0, NamingEffect
      <3> HIDE DEF after, c
      <3>3. CASE c.channel = Threaded
        BY <2>2, <3>1, <3>2, <3>3 DEF ThreadName, Threaded, Touches
      <3>4. CASE c.channel # Threaded
        BY <3>1, <3>2, <3>4 DEF ThreadName, Threaded, Touches
      <3> QED
        BY <3>3, <3>4
    <2> QED
      BY <2>1, <2>2
  <1> HIDE DEF r, c
  <1>3. /\ Fine([r EXCEPT !.alias = e.p.value]) /\ Fine([r EXCEPT !.ai_title = e.p.value])
        /\ Fine([r EXCEPT !.alias = c.value]) /\ Fine([r EXCEPT !.ai_title = c.value])
    BY <1>1 DEF SessionFields
  <1>4. Fine(MirrorDerivedField(r, c))
    BY <1>1, <1>3 DEF MirrorDerivedField
  <1>5. r.names = s.names => Fine(s)
    BY <1>0
  <1>6. Fine(Reduce(s, e))
    <2>1. CASE e.op = "alias_set"
      BY <1>3, <2>1 DEF Reduce, ReduceAliasSet, r
    <2>2. CASE e.op = "ai_title_seen"
      BY <1>3, <2>2 DEF Reduce, ReduceAiTitleSeen, r
    <2>3. CASE e.op = "name_set"
      <3>1. Reduce(s, e) = ReduceNameSet(s, e)
        BY <2>3 DEF Reduce
      <3>2. ReduceNameSet(s, e) = IF r.names = s.names THEN s ELSE MirrorDerivedField(r, c)
        BY DEF ReduceNameSet, r, c
      <3> HIDE DEF Fine
      <3> QED
        BY <1>4, <1>5, <3>1, <3>2
    <2> QED
      BY <2>1, <2>2, <2>3 DEF NameOps
  <1>7. ASSUME NEW t, Fine(t), AliasKept(t.names, t.alias), t.last_progress_at \in Nat
        PROVE  IsRecord(t) /\ ThreadName(t) = ThreadName(r)
    <2>1. s.codexIds # {} => s.source = "codex"
      BY DEF IsRecord
    <2> QED
      BY <1>1, <1>7, <2>1, FieldsAre DEF IsRecord, ThreadName, AliasKept
  <1>8. e.op \notin {"codex_session_seen", "parent_set"}
    BY DEF NameOps
  <1> QED
    BY <1>2, <1>6, <1>7, <1>8, <1>a, AliasStays DEF Effect, NamesThread, c

\* The whole fold of one event into one record.
LEMMA FoldEffect ==
  ASSUME NEW s, IsRecord(s), NEW e, e.op \in Ops \ {"session_prune"}, IsEvent(e)
  PROVE  Effect(s, e, RefreshDerivedNames(Bump(Reduce(s, e), e)))
  <1> DEFINE r == Reduce(s, e)
             b == Bump(r, e)
             t == RefreshDerivedNames(b)
  <1>1. Effect(s, e, r)
    BY NamelessEffect, NameEffect DEF Ops
  <1> HIDE DEF r
  <1>2. r = [f \in SessionFields |-> r[f]]
    BY <1>1, FieldsAre DEF Effect, IsRecord
  <1>3. b = [f \in SessionFields |-> b[f]] /\ Alike(r, b) /\ b.last_progress_at \in Nat
    <2>1. r.last_progress_at \in Nat /\ e.ts \in Nat
      BY <1>1 DEF Effect, IsRecord, IsEvent
    <2> QED
      BY <1>2, <2>1 DEF Bump, Later, SessionFields, Alike
  <1> HIDE DEF b
  <1>4. /\ t = [f \in SessionFields |-> t[f]] /\ Alike(b, t)
        /\ t.last_progress_at = b.last_progress_at
    BY <1>3 DEF RefreshDerivedNames, SessionFields, Alike
  <1> HIDE DEF t
  <1>5. /\ t.names = r.names /\ t.codexIds = r.codexIds /\ t.parent = r.parent
        /\ t.source = r.source /\ t.prs = r.prs /\ t.alias = r.alias /\ t.last_progress_at \in Nat
    BY <1>3, <1>4 DEF Alike
  <1>6. IsRecord(t) /\ ThreadName(t) = ThreadName(r)
    BY <1>1, <1>4, <1>5, FieldsAre DEF Effect, IsRecord, ThreadName
  <1>7. Effect(s, e, t)
    BY <1>1, <1>5, <1>6 DEF Effect
  <1> QED
    BY <1>7 DEF t, b, r

-----------------------------------------------------------------------------
\* The inductive invariant.

\* Sessions and what their records are.
AreSessions(ss) ==
  /\ ss = [x \in DOMAIN ss |-> ss[x]] /\ DOMAIN ss \subseteq Sids
  /\ \A x \in DOMAIN ss : IsRecord(ss[x])

\* A session is of one Codex thread at most; and no two are of the same.
OneThread(ss) == \A x \in DOMAIN ss : \A t, u \in ss[x].codexIds : t = u
Apart(ss) ==
  \A x \in DOMAIN ss : \A y \in DOMAIN ss \ {x} : ss[x].codexIds \intersect ss[y].codexIds = {}

\* The last row of the index that names the thread, and that no session has
\* the name of a later row.
RowOf(index, thread) == Max({0} \union {row \in DOMAIN index : index[row] = thread})
NamedByIndex(ss, index) ==
  \A x \in DOMAIN ss :
    LET name == ThreadName(ss[x]) IN
    /\ name \in Nat
    /\ name = 0 \/ \E t \in ss[x].codexIds : name <= RowOf(index, t)

\* No cycle that setParent would find.
NoCycle(ss) == \A x \in DOMAIN ss, d \in 1 .. MaxChain : Up(ss, x)[d] # x
\* What setParent looks at before it logs the event.
NoLoop(ss, child, parent) ==
  parent # Null => \A d \in 0 .. MaxChain - 1 : Up(ss, parent)[d] # child

\* What a record says, of a session that has none too.
IdsOf(ss, x) == IF x \in DOMAIN ss THEN ss[x].codexIds ELSE {}
NameOf(ss, x) == IF x \in DOMAIN ss THEN ThreadName(ss[x]) ELSE 0
ParentOf(ss, x) == IF x \in DOMAIN ss THEN ss[x].parent ELSE Null

\* Two sets of sessions whose parents are the same, or gone.
Orphans(ss, tt) == \A x : ParentOf(tt, x) = ParentOf(ss, x) \/ ParentOf(tt, x) = Null
\* The same, but for one child.
OrphansBut(ss, tt, child) ==
  \A x : x # child => ParentOf(tt, x) = ParentOf(ss, x) \/ ParentOf(tt, x) = Null

\* What a rebuild would make, ll, of the sessions ss, when events of the ops `ops`
\* are in the log only: no parent and no thread that ss does not know, unless such
\* an event says so; every thread that ss knows; no earlier name, unless there is
\* no room for it; and nothing removed that somebody has touched.
Trails(ss, ll, ops) ==
  /\ "parent_set" \notin ops => Orphans(ss, ll)
  /\ \A x : IdsOf(ss, x) # {} => IdsOf(ll, x) = IdsOf(ss, x)
  /\ "codex_session_seen" \notin ops => \A x : IdsOf(ll, x) \subseteq IdsOf(ss, x)
  /\ \A x \in DOMAIN ss \intersect DOMAIN ll :
       ThreadName(ss[x]) <= ThreadName(ll[x]) \/ IsFull(ll[x].names)
  /\ \A x \in DOMAIN ss \ DOMAIN ll : IsUntouched(ss[x])
Paired(ss, ll, ops, index) ==
  /\ AreSessions(ss) /\ OneThread(ss) /\ NamedByIndex(ss, index)
  /\ AreSessions(ll) /\ OneThread(ll) /\ NamedByIndex(ll, index)
  /\ Trails(ss, ll, ops)

\* What may wait to be committed: anything but the removal of a session and the
\* observation of a thread or of its name.
Planned(e) ==
  /\ e.op \in Ops \ {"session_prune", "codex_session_seen"}
  /\ e.sid \in Sids
  /\ ~NamesThread(e) /\ IsEvent(e)
IsPlan(plan) == plan \in Seq(ToSet(plan)) /\ \A e \in ToSet(plan) : Planned(e)

\* A prune that needs a trusted scan.
IsCautious(c) == c.kind = "prune" /\ c.step = "run" /\ ~c.opts

\* What holds of a call c whatever happens, and what holds as long as nobody
\* has interfered.
CallFields == DOMAIN Idle
IsCall(c) ==
  /\ c = [f \in CallFields |-> c[f]]
  /\ IsPlan(c.plan)
  /\ c.kind \in {"codex", "hook"} => c.plan = <<>>
  /\ c.kind = "harvest" => c.todo \subseteq Sids
  /\ IsCautious(c) => c.scan.files > 0
OnDiskNow(tr) == {x \in Sids : tr[x].where # "none"}
IsCurrent(c, ss, tr) ==
  /\ \A e \in ToSet(c.plan) :
       e.op = "parent_set" => Len(c.plan) = 1 /\ NoLoop(ss, e.sid, e.p.parent)
  /\ IsCautious(c) => c.scan.seen = OnDiskNow(tr)

AreTranscripts(tr) ==
  /\ tr = [x \in Sids |-> tr[x]]
  /\ \A x \in Sids : /\ tr[x] = [where |-> tr[x].where, records |-> tr[x].records]
                     /\ tr[x].where \in {"none", "home", "elsewhere"}
                     /\ tr[x].records \in Seq(ToSet(tr[x].records))
                     /\ tr[x].where = "none" => tr[x].records = <<>>
                     /\ \A i \in DOMAIN tr[x].records : tr[x].records[i].at = i - 1

\* The clock and the times of the files.
AreTimes(now, times) == now \in Nat /\ times \in [Sids -> Nat]

OperationsInv ==
  /\ Paired(sessions, logged, unfolded, threadIndex)
  /\ "codex_session_seen" \notin late => Apart(sessions)
  /\ threadIndex \in Seq(Threads)
  /\ AreTimes(day, indexed)
  /\ AreTranscripts(transcript)
  /\ call = [p \in Procs |-> call[p]] /\ \A p \in Procs : IsCall(call[p])
  /\ alone \in [Procs -> BOOLEAN]
  /\ \A p \in Procs : alone[p] => IsCurrent(call[p], sessions, transcript)
  /\ crossed \in BOOLEAN
  /\ ~crossed /\ "parent_set" \notin late => NoCycle(sessions)

-----------------------------------------------------------------------------
\* Folds of several events into the sessions.

\* What prune and the sync of names log, which keep the lock from their first read
\* to the save: the removal of what nobody has touched, the name of a thread.
Upkeep(e) ==
  /\ e.sid \in DOMAIN sessions /\ IsEvent(e)
  /\ \/ e.op = "session_prune" /\ IsUntouched(sessions[e.sid])
     \/ /\ e.op = "name_set" /\ NamesThread(e) /\ SaysName(e)
        /\ \E t \in sessions[e.sid].codexIds : NameChange(e).value = RowOf(threadIndex, t)

\* The names of a session's threads, before and after a step.
NamesAdvance(ss, tt) ==
  \A x \in DOMAIN ss \intersect DOMAIN tt : ThreadName(ss[x]) <= ThreadName(tt[x])

\* The sessions tt after events that were decided on the sessions ss.
Follows(ss, tt) ==
  /\ Apart(ss) => Apart(tt)
  /\ NamesAdvance(ss, tt)
  /\ \A x \in DOMAIN ss \ DOMAIN tt : IsUntouched(ss[x])

\* The events are folded into both, or into what a rebuild would make only.
StoredBoth(events, out) ==
  LET tt == FoldLeft(FoldSession, sessions, events) IN
  /\ Paired(tt, out, unfolded, threadIndex) /\ Follows(sessions, tt) /\ Orphans(sessions, tt)
  /\ \A x \in DOMAIN tt :
       /\ x \in DOMAIN sessions /\ tt[x].codexIds = sessions[x].codexIds
       /\ IsUntouched(sessions[x]) => tt[x] = sessions[x]
  /\ \A x \in DOMAIN sessions \ DOMAIN tt :
       \E i \in DOMAIN events : events[i].op = "session_prune" /\ events[i].sid = x
OpsOf(events) == {events[i].op : i \in DOMAIN events}
LoggedOnly(events, out) ==
  Paired(sessions, out, unfolded \union OpsOf(events), threadIndex)

Storing == INSTANCE Folding WITH Op <- FoldSession, Rel <- StoredBoth
Logging == INSTANCE Folding WITH Op <- FoldSession, Rel <- LoggedOnly

LEMMA FoldLeftSame ==
  ASSUME NEW ss, NEW events
  PROVE  /\ FoldLeft(FoldSession, ss, events) = Storing!FoldLeft(FoldSession, ss, events)
         /\ FoldLeft(FoldSession, ss, events) = Logging!FoldLeft(FoldSession, ss, events)
  BY DEF FoldLeft, Storing!FoldLeft, Logging!FoldLeft, MapThenFoldSet,
         Storing!MapThenFoldSet, Logging!MapThenFoldSet, Max, Storing!Max, Logging!Max

\* One more event is folded; and none, one.
LEMMA FoldOneMore ==
  ASSUME NEW S, NEW seq \in Seq(S), NEW e \in S, NEW ss
  PROVE  FoldLeft(FoldSession, ss, Append(seq, e))
           = FoldSession(FoldLeft(FoldSession, ss, seq), e)
  <1>1. Storing!FoldLeft(FoldSession, ss, Append(seq, e))
          = FoldSession(Storing!FoldLeft(FoldSession, ss, seq), e)
    BY Storing!FoldAppend
  <1> QED
    BY <1>1, FoldLeftSame

LEMMA FoldFew ==
  ASSUME NEW ss, NEW a
  PROVE  /\ FoldLeft(FoldSession, ss, <<>>) = ss
         /\ FoldLeft(FoldSession, ss, <<a>>) = FoldSession(ss, a)
  <1>1. FoldLeft(FoldSession, ss, <<>>) = ss
    BY FoldLeftSame, Storing!FoldEmpty
  <1>2. <<>> \in Seq({a}) /\ Append(<<>>, a) = <<a>>
    OBVIOUS
  <1>3. FoldLeft(FoldSession, ss, Append(<<>>, a)) = FoldSession(FoldLeft(FoldSession, ss, <<>>), a)
    BY <1>2, FoldOneMore
  <1> QED
    BY <1>1, <1>2, <1>3

\* Sequences of one event and of two.
LEMMA OneOrTwo ==
  ASSUME NEW a, NEW b
  PROVE  /\ <<a>> \o <<>> = <<a>> /\ <<a>> \o <<b>> = <<a, b>>
         /\ SubSeq(<<a>>, 1, 1) = <<a>>
         /\ SubSeq(<<a, b>>, 1, 1) = <<a>> /\ SubSeq(<<a, b>>, 1, 2) = <<a, b>>
         /\ Append(<<a>>, b) = <<a, b>>
  <1>1. /\ \A q \in Seq({a, b}) : Len(q) = 1 /\ q[1] = a => q = <<a>>
        /\ \A q \in Seq({a, b}) : Len(q) = 2 /\ q[1] = a /\ q[2] = b => q = <<a, b>>
    OBVIOUS
  <1> DEFINE s == <<a>>
             t == <<b>>
             u == <<a, b>>
  <1>2. /\ s \in Seq({a, b}) /\ Len(s) = 1 /\ s[1] = a
        /\ t \in Seq({a, b}) /\ Len(t) = 1 /\ t[1] = b
        /\ u \in Seq({a, b}) /\ Len(u) = 2 /\ u[1] = a /\ u[2] = b
    OBVIOUS
  <1> HIDE DEF s, t, u
  <1>3. s \o <<>> = s
    BY <1>2
  <1>4. s \o t \in Seq({a, b}) /\ Len(s \o t) = 2 /\ (s \o t)[1] = a /\ (s \o t)[2] = b
    <2>1. s \o t \in Seq({a, b}) /\ Len(s \o t) = Len(s) + Len(t)
      BY <1>2, ConcatProperties
    <2>2. (s \o t)[1] = s[1] /\ (s \o t)[2] = t[1]
      BY <1>2, ConcatProperties
    <2> QED
      BY <1>2, <2>1, <2>2
  <1>5. /\ SubSeq(s, 1, 1) \in Seq({a, b}) /\ Len(SubSeq(s, 1, 1)) = 1 /\ SubSeq(s, 1, 1)[1] = a
        /\ SubSeq(u, 1, 1) \in Seq({a, b}) /\ Len(SubSeq(u, 1, 1)) = 1 /\ SubSeq(u, 1, 1)[1] = a
    BY <1>2
  <1>6. /\ SubSeq(u, 1, 2) \in Seq({a, b}) /\ Len(SubSeq(u, 1, 2)) = 2
        /\ SubSeq(u, 1, 2)[1] = a /\ SubSeq(u, 1, 2)[2] = b
    BY <1>2
  <1>8. Append(s, b) \in Seq({a, b}) /\ Len(Append(s, b)) = 2
        /\ Append(s, b)[1] = a /\ Append(s, b)[2] = b
    <2>1. s \in Seq({a, b}) /\ b \in {a, b}
      BY <1>2
    <2>2. /\ Append(s, b) \in Seq({a, b}) /\ Len(Append(s, b)) = Len(s) + 1
          /\ \A i \in 1 .. Len(s) : Append(s, b)[i] = s[i]
          /\ Append(s, b)[Len(s) + 1] = b
      BY <2>1, AppendProperties
    <2> QED
      BY <1>2, <2>2
  <1>9. Append(s, b) = u
    BY <1>1, <1>8 DEF u
  <1>7. s \o t = u /\ SubSeq(s, 1, 1) = s /\ SubSeq(u, 1, 1) = s /\ SubSeq(u, 1, 2) = u
    BY <1>1, <1>4, <1>5, <1>6 DEF s, u
  <1> QED
    BY <1>3, <1>7, <1>9 DEF s, t, u

-----------------------------------------------------------------------------
\* Finite sets as sequences, and the greatest of some rows.

LEMMA SetToSeqIs ==
  ASSUME NEW S, IsFiniteSet(S)
  PROVE  SetToSeq(S) \in Seq(S)
  <1>1. Cardinality(S) \in Nat /\ ExistsBijection(1 .. Cardinality(S), S)
    BY FS_CardinalityType
  <1>2. \E f \in [1 .. Cardinality(S) -> S] : IsInjective(f)
    BY <1>1 DEF ExistsBijection, Bijection, Injection
  <1>3. SetToSeq(S) \in [1 .. Cardinality(S) -> S]
    BY <1>2 DEF SetToSeq
  <1> QED
    BY <1>1, <1>3

\* Every element, once.
LEMMA SetToSeqOnce ==
  ASSUME NEW S, IsFiniteSet(S)
  PROVE  LET q == SetToSeq(S) IN
         /\ q \in Seq(S) /\ ToSet(q) = S
         /\ \A i, j \in DOMAIN q : q[i] = q[j] => i = j
  <1> DEFINE n == Cardinality(S)
             q == SetToSeq(S)
  <1>1. n \in Nat /\ ExistsBijection(1 .. n, S)
    BY FS_CardinalityType
  <1>2. \E f \in [1 .. n -> S] : IsInjective(f)
    BY <1>1 DEF ExistsBijection, Bijection, Injection
  <1>3. q \in [1 .. n -> S] /\ IsInjective(q)
    BY <1>2 DEF SetToSeq
  <1> HIDE DEF q
  <1>4. q \in Injection(1 .. n, S)
    BY <1>3 DEF Injection, IsInjective
  <1>5. Cardinality(1 .. n) = n
    <2>1. 1 \in Int /\ n \in Int
      BY <1>1
    <2> HIDE DEF n
    <2> QED
      BY <1>1, <2>1, FS_Interval
  <1>6. q \in Surjection(1 .. n, S)
    BY <1>4, <1>5, FS_Injection
  <1> HIDE DEF n
  <1>7. ToSet(q) = S /\ q \in Seq(S)
    BY <1>1, <1>3, <1>6 DEF Surjection, ToSet
  <1>8. \A i, j \in DOMAIN q : q[i] = q[j] => i = j
    BY <1>3, <1>4 DEF Injection, IsInjective
  <1> QED
    BY <1>7, <1>8 DEF q

LEMMA ImageIsFinite ==
  ASSUME NEW S, IsFiniteSet(S), NEW f
  PROVE  IsFiniteSet({f[x] : x \in S})
  <1> DEFINE T == {f[x] : x \in S}
             g == [x \in S |-> f[x]]
  <1>1. g \in Surjection(S, T)
    BY DEF Surjection
  <1> QED
    BY <1>1, FS_Surjection

\* A sequence is one of its own elements.
LEMMA SeqOfItself ==
  ASSUME NEW S, NEW q \in Seq(S)
  PROVE  q \in Seq(ToSet(q)) /\ ToSet(q) \subseteq S
  <1>1. \A i \in 1 .. Len(q) : q[i] \in S /\ DOMAIN q = 1 .. Len(q)
    OBVIOUS
  <1>2. \A i \in 1 .. Len(q) : q[i] \in ToSet(q)
    BY DEF ToSet
  <1>3. ToSet(q) \subseteq S
    BY <1>1 DEF ToSet
  <1>4. q \in Seq(ToSet(q))
    BY <1>2
  <1> QED
    BY <1>3, <1>4

\* What a plan is made of.
LEMMA PlanOf ==
  ASSUME NEW S, NEW plan \in Seq(S), \A e \in S : Planned(e)
  PROVE  IsPlan(plan) /\ ToSet(plan) \subseteq S
  BY SeqOfItself DEF IsPlan

LEMMA PlanHeadTail ==
  ASSUME NEW plan, IsPlan(plan), plan # <<>>
  PROVE  /\ Head(plan) \in ToSet(plan) /\ Planned(Head(plan))
         /\ IsPlan(Tail(plan)) /\ ToSet(Tail(plan)) \subseteq ToSet(plan)
         /\ Len(plan) = 1 => Tail(plan) = <<>>
         /\ Len(plan) \in Nat /\ Len(Tail(plan)) = Len(plan) - 1
  <1> DEFINE S == ToSet(plan)
  <1>1. plan \in Seq(S) /\ \A e \in S : Planned(e)
    BY DEF IsPlan
  <1> HIDE DEF S
  <1>2. Head(plan) \in S /\ Tail(plan) \in Seq(S)
    BY <1>1
  <1>3. IsPlan(Tail(plan)) /\ ToSet(Tail(plan)) \subseteq S
    BY <1>1, <1>2, PlanOf
  <1>4. /\ Len(plan) \in Nat /\ Len(Tail(plan)) = Len(plan) - 1
        /\ Len(plan) = 1 => Tail(plan) = <<>>
    <2>1. Len(plan) \in Nat /\ Len(Tail(plan)) = Len(plan) - 1
      BY <1>1, HeadTailProperties
    <2> QED
      BY <1>2, <2>1, EmptySeq
  <1> QED
    BY <1>1, <1>2, <1>3, <1>4 DEF S

\* A plan of one event, and of none.
LEMMA ShortPlans ==
  /\ IsPlan(<<>>) /\ ToSet(<<>>) = {} /\ Len(<<>>) = 0
  /\ \A e : /\ Planned(e) => IsPlan(<<e>>)
            /\ ToSet(<<e>>) = {e} /\ Len(<<e>>) = 1
  <1>1. ToSet(<<>>) = {} /\ <<>> \in Seq({}) /\ Len(<<>>) = 0
    BY DEF ToSet
  <1>2. \A e : ToSet(<<e>>) = {e} /\ <<e>> \in Seq({e}) /\ Len(<<e>>) = 1
    BY DEF ToSet
  <1> QED
    BY <1>1, <1>2 DEF IsPlan

\* The greatest element of a bounded set of naturals.
LEMMA MaxIs ==
  ASSUME NEW S \in SUBSET Nat, S # {}, NEW n \in Nat, \A m \in S : m <= n
  PROVE  Max(S) \in S /\ \A m \in S : m <= Max(S)
  <1> DEFINE D == {n - m : m \in S}
  <1>1. D \in SUBSET Nat /\ D # {}
    <2>1. \A m \in S : m \in Nat /\ n - m \in Nat
      OBVIOUS
    <2> QED
      BY <2>1
  <1>2. PICK d \in D : \A k \in D : d <= k
    BY <1>1, Storing!LeastOfNats
  <1>3. PICK m \in S : d = n - m
    BY <1>2
  <1>4. \A k \in S : m >= k
    <2>1. ASSUME NEW k \in S
          PROVE  m >= k
      <3>1. n - k \in D /\ k \in Nat /\ m \in Nat
        OBVIOUS
      <3>2. n - m <= n - k
        BY <1>2, <1>3, <3>1
      <3> QED
        BY <3>1, <3>2
    <2> QED
      BY <2>1
  <1>5. Max(S) \in S /\ \A k \in S : Max(S) >= k
    BY <1>3, <1>4 DEF Max
  <1> QED
    BY <1>5

\* The index only grows: the row of a thread is one, and never an earlier one.
LEMMA RowIs ==
  ASSUME NEW index \in Seq(Threads), NEW thread
  PROVE  /\ RowOf(index, thread) \in Nat
         /\ \A t \in Threads : RowOf(index, thread) <= RowOf(Append(index, t), thread)
  <1> DEFINE Rows(i) == {0} \union {row \in DOMAIN i : i[row] = thread}
  <1>1. ASSUME NEW i \in Seq(Threads)
        PROVE  RowOf(i, thread) \in Rows(i) /\ \A row \in Rows(i) : row <= RowOf(i, thread)
    <2>1. Rows(i) \in SUBSET Nat /\ Rows(i) # {} /\ Len(i) \in Nat
          /\ \A row \in Rows(i) : row <= Len(i)
      OBVIOUS
    <2> DEFINE R == Rows(i)
    <2>2. RowOf(i, thread) = Max(R)
      BY DEF RowOf
    <2> HIDE DEF R
    <2>3. Max(R) \in R /\ \A m \in R : m <= Max(R)
      BY <2>1, MaxIs DEF R
    <2> QED
      BY <2>2, <2>3 DEF R
  <1>2. Rows(index) \subseteq Nat
    OBVIOUS
  <1>3. ASSUME NEW t \in Threads
        PROVE  Rows(index) \subseteq Rows(Append(index, t)) /\ Append(index, t) \in Seq(Threads)
    OBVIOUS
  <1> HIDE DEF Rows
  <1> QED
    BY <1>1, <1>2, <1>3

-----------------------------------------------------------------------------
\* Chains of parents.

Hops == 0 .. Cardinality(Sids) + MaxChain

LEMMA HopsAre ==
  /\ Cardinality(Sids) \in Nat /\ MaxChain \in Nat
  /\ 0 \in Hops /\ \A n \in Hops : n \in Nat /\ \A k \in 0 .. n : k \in Hops
  /\ 0 .. MaxChain \subseteq Hops
  <1>1. Cardinality(Sids) \in Nat
    BY FS_CardinalityType, SidsType
  <1>2. MaxChain \in Nat
    BY BoundsType
  <1> DEFINE c == Cardinality(Sids)
  <1> HIDE DEF c
  <1>3. c \in Nat => /\ 0 \in 0 .. c + MaxChain
                     /\ \A n \in 0 .. c + MaxChain : n \in Nat /\ \A k \in 0 .. n : k \in 0 .. c + MaxChain
                     /\ 0 .. MaxChain \subseteq 0 .. c + MaxChain
    BY <1>2
  <1> QED
    BY <1>1, <1>2, <1>3 DEF Hops, c

\* The equation of Up, and that it has a solution.
Climbs(f, ss, x, n) ==
  f = [d \in 0 .. n |-> IF d = 0 THEN x ELSE ParentOf(ss, f[d - 1])]

LEMMA ClimbExists ==
  ASSUME NEW ss, NEW x, NEW n \in Nat
  PROVE  \E f : Climbs(f, ss, x, n)
  <1> DEFINE Bad == {m \in Nat : ~ \E f : Climbs(f, ss, x, m)}
  <1> SUFFICES ASSUME Bad # {}
               PROVE  FALSE
    OBVIOUS
  <1>1. PICK m \in Bad : \A k \in Bad : m <= k
    <2>1. Bad \in SUBSET Nat
      OBVIOUS
    <2> HIDE DEF Bad
    <2> QED
      BY <2>1, Storing!LeastOfNats
  <1>2. CASE m = 0
    <2> DEFINE f == [d \in 0 .. 0 |-> x]
    <2>1. f = [d \in 0 .. 0 |-> IF d = 0 THEN x ELSE ParentOf(ss, f[d - 1])]
      OBVIOUS
    <2> QED
      BY <1>2, <2>1 DEF Climbs
  <1>3. CASE m # 0
    <2>1. m - 1 \in Nat /\ m - 1 \notin Bad
      BY <1>1, <1>3
    <2>2. PICK f : Climbs(f, ss, x, m - 1)
      BY <2>1
    <2> DEFINE g == [d \in 0 .. m |-> IF d = m THEN ParentOf(ss, f[m - 1]) ELSE f[d]]
    <2>3. ASSUME NEW d \in 0 .. m
          PROVE  g[d] = IF d = 0 THEN x ELSE ParentOf(ss, g[d - 1])
      <3>1. CASE d = m
        BY <1>3, <2>1, <3>1
      <3>2. CASE d # m
        <4>1. d \in 0 .. m - 1 /\ (d # 0 => d - 1 \in 0 .. m - 1 /\ d - 1 \in 0 .. m /\ d - 1 # m)
          BY <2>1, <3>2
        <4>2. f[d] = IF d = 0 THEN x ELSE ParentOf(ss, f[d - 1])
          BY <2>2, <4>1 DEF Climbs
        <4> QED
          BY <3>2, <4>1, <4>2
      <3> QED
        BY <3>1, <3>2
    <2>4. g = [d \in 0 .. m |-> IF d = 0 THEN x ELSE ParentOf(ss, g[d - 1])]
      BY <2>3
    <2> HIDE DEF g
    <2> QED
      BY <2>4 DEF Climbs
  <1> QED
    BY <1>2, <1>3

LEMMA UpIs ==
  ASSUME NEW ss, NEW x
  PROVE  /\ Up(ss, x)[0] = x
         /\ \A d \in Hops : d # 0 => Up(ss, x)[d] = ParentOf(ss, Up(ss, x)[d - 1])
  <1> DEFINE n == Cardinality(Sids) + MaxChain
             f == CHOOSE f : Climbs(f, ss, x, n)
  <1>1. n \in Nat
    BY HopsAre
  <1>2. Up(ss, x) = f
    BY DEF Up, Climbs, ParentOf
  <1>3. Climbs(f, ss, x, n)
    BY <1>1, ClimbExists
  <1> HIDE DEF f
  <1>4. \A d \in Hops : f[d] = IF d = 0 THEN x ELSE ParentOf(ss, f[d - 1])
    BY <1>3 DEF Climbs, Hops
  <1> QED
    BY <1>2, <1>4, HopsAre

\* A climb goes on where another one ends.
LEMMA UpAgain ==
  ASSUME NEW ss, NEW x, NEW a \in Hops, NEW b \in Nat, a + b \in Hops
  PROVE  Up(ss, x)[a + b] = Up(ss, Up(ss, x)[a])[b]
  <1> DEFINE y == Up(ss, x)[a]
             Bad == {k \in Nat : a + k \in Hops /\ Up(ss, x)[a + k] # Up(ss, y)[k]}
  <1> SUFFICES ASSUME Bad # {}
               PROVE  FALSE
    OBVIOUS
  <1>0. a \in Nat
    BY HopsAre
  <1>1. PICK m \in Bad : \A k \in Bad : m <= k
    <2>1. Bad \in SUBSET Nat
      OBVIOUS
    <2> HIDE DEF Bad
    <2> QED
      BY <2>1, Storing!LeastOfNats
  <1>2. m # 0
    BY <1>0, <1>1, UpIs
  <1>3. /\ m - 1 \in Nat /\ a + (m - 1) \in Hops /\ m \in Hops /\ a + m \in Hops
        /\ a + m # 0 /\ a + (m - 1) = (a + m) - 1
    <2>1. m \in Nat /\ a + m \in Hops
      BY <1>1
    <2>2. m - 1 \in Nat /\ m \in 0 .. a + m /\ a + (m - 1) \in 0 .. a + m
      BY <1>0, <1>2, <2>1
    <2> QED
      BY <1>0, <1>2, <2>1, <2>2, HopsAre
  <1>4. Up(ss, x)[a + (m - 1)] = Up(ss, y)[m - 1]
    <2>1. m - 1 \notin Bad
      BY <1>1, <1>3
    <2> QED
      BY <1>3, <2>1
  <1>5. /\ Up(ss, x)[a + m] = ParentOf(ss, Up(ss, x)[a + (m - 1)])
        /\ Up(ss, y)[m] = ParentOf(ss, Up(ss, y)[m - 1])
    BY <1>2, <1>3, UpIs
  <1> QED
    BY <1>1, <1>4, <1>5

\* Nobody is above Null.
LEMMA UpOfNull ==
  ASSUME NEW ss, AreSessions(ss), NEW n \in Hops
  PROVE  Up(ss, Null)[n] = Null
  <1> DEFINE Bad == {k \in 0 .. n : Up(ss, Null)[k] # Null}
  <1>0. n \in Nat
    BY HopsAre
  <1> SUFFICES ASSUME Bad # {}
               PROVE  FALSE
    BY <1>0
  <1>1. PICK m \in Bad : \A k \in Bad : m <= k
    <2>1. Bad \in SUBSET Nat
      BY <1>0
    <2> HIDE DEF Bad
    <2> QED
      BY <2>1, Storing!LeastOfNats
  <1>2. m \in 0 .. n /\ m # 0
    BY <1>1, UpIs
  <1>3. m - 1 \in 0 .. n /\ ~(m <= m - 1)
    BY <1>0, <1>2
  <1>4. Up(ss, Null)[m - 1] = Null
    BY <1>1, <1>3
  <1>5. m \in Hops
    BY <1>2, HopsAre
  <1>6. Up(ss, Null)[m] = ParentOf(ss, Null)
    BY <1>2, <1>4, <1>5, UpIs
  <1> QED
    BY <1>1, <1>6, SidsType DEF AreSessions, ParentOf

\* A climb that does not pass the child is the climb from before, as long as it
\* is one.
LEMMA SameClimb ==
  ASSUME NEW ss, NEW tt, AreSessions(ss), AreSessions(tt), NEW child, OrphansBut(ss, tt, child),
         NEW x, NEW n \in Hops, \A k \in 0 .. n - 1 : Up(tt, x)[k] # child
  PROVE  Up(tt, x)[n] = Up(ss, x)[n] \/ Up(tt, x)[n] = Null
  <1> DEFINE Bad == {k \in 0 .. n : ~(Up(tt, x)[k] = Up(ss, x)[k] \/ Up(tt, x)[k] = Null)}
  <1>0. n \in Nat
    BY HopsAre
  <1> SUFFICES ASSUME Bad # {}
               PROVE  FALSE
    BY <1>0
  <1>1. PICK m \in Bad : \A k \in Bad : m <= k
    <2>1. Bad \in SUBSET Nat
      BY <1>0
    <2> HIDE DEF Bad
    <2> QED
      BY <2>1, Storing!LeastOfNats
  <1>2. m # 0
    BY <1>1, UpIs
  <1>3. m - 1 \in 0 .. n /\ m - 1 \in 0 .. n - 1 /\ m - 1 \notin Bad /\ m \in Hops
    <2>1. m \in 0 .. n
      BY <1>1
    <2>2. m - 1 \in 0 .. n /\ m - 1 \in 0 .. n - 1 /\ ~(m <= m - 1)
      BY <1>0, <1>2, <2>1
    <2> QED
      BY <1>1, <2>1, <2>2, HopsAre
  <1> DEFINE y == Up(tt, x)[m - 1]
             z == Up(ss, x)[m - 1]
  <1>4. (y = z \/ y = Null) /\ y # child
    BY <1>3
  <1>5. Up(tt, x)[m] = ParentOf(tt, y) /\ Up(ss, x)[m] = ParentOf(ss, z)
    BY <1>2, <1>3, UpIs
  <1>6. ~(Up(tt, x)[m] = Up(ss, x)[m] \/ Up(tt, x)[m] = Null)
    BY <1>1
  <1> HIDE DEF Bad, y, z
  <1>7. ParentOf(tt, y) = ParentOf(ss, y) \/ ParentOf(tt, y) = Null
    BY <1>4 DEF OrphansBut
  <1>8. y = Null => ParentOf(tt, y) = Null
    BY SidsType DEF AreSessions, ParentOf
  <1> QED
    BY <1>4, <1>5, <1>6, <1>7, <1>8

\* A new parent that setParent found to be no descendant closes no cycle.
LEMMA NoNewCycle ==
  ASSUME NEW ss, NEW tt, AreSessions(ss), AreSessions(tt), NoCycle(ss),
         NEW child \in Sids, NEW parent, OrphansBut(ss, tt, child),
         ParentOf(tt, child) = parent, NoLoop(ss, child, parent)
  PROVE  NoCycle(tt)
  <1> SUFFICES ASSUME NEW x \in DOMAIN tt, NEW d \in 1 .. MaxChain, Up(tt, x)[d] = x
               PROVE  FALSE
    BY DEF NoCycle
  <1>0. d \in Nat /\ d \in Hops /\ d # 0 /\ d <= MaxChain /\ MaxChain \in Nat
    <2>1. d \in 0 .. MaxChain /\ d \in Nat /\ d # 0 /\ d <= MaxChain
      BY HopsAre
    <2> QED
      BY <2>1, HopsAre
  <1>x. x \in Sids /\ x # Null
    BY SidsType DEF AreSessions
  <1> DEFINE At == {k \in 0 .. d - 1 : Up(tt, x)[k] = child}
  <1>1. CASE At = {}
    <2>1. \A k \in 0 .. d - 1 : Up(tt, x)[k] # child
      BY <1>1
    <2>2. Up(ss, x)[d] = x
      BY <1>0, <1>x, <2>1, SameClimb
    <2>3. x \notin DOMAIN ss
      BY <2>2 DEF NoCycle
    <2>4. 1 \in Hops /\ d - 1 \in Nat /\ d - 1 \in Hops /\ 1 + (d - 1) = d
      <3>1. 1 \in 0 .. d /\ d - 1 \in 0 .. d /\ d - 1 \in Nat /\ 1 + (d - 1) = d
        BY <1>0
      <3> QED
        BY <1>0, <3>1, HopsAre
    <2>5. Up(ss, x)[1] = Null
      <3>1. Up(ss, x)[0] = x /\ Up(ss, x)[1] = ParentOf(ss, Up(ss, x)[1 - 1])
        BY <2>4, UpIs
      <3> QED
        BY <2>3, <3>1 DEF ParentOf
    <2>6. Up(ss, x)[1 + (d - 1)] = Up(ss, Up(ss, x)[1])[d - 1]
      BY <1>0, <2>4, UpAgain
    <2> QED
      BY <1>x, <2>2, <2>4, <2>5, <2>6, UpOfNull
  <1>2. CASE At # {}
    <2>1. At \in SUBSET Nat /\ \A k \in At : k <= d
      BY <1>0
    <2> DEFINE j == Max(At)
    <2>2. j \in At /\ \A k \in At : k <= j
      <3> HIDE DEF At
      <3> QED
        BY <1>0, <1>2, <2>1, MaxIs
    <2>3. PICK i \in At : \A k \in At : i <= k
      <3> HIDE DEF At
      <3> QED
        BY <1>2, <2>1, Storing!LeastOfNats
    <2> HIDE DEF j
    <2> DEFINE a == j + 1
               b == d - a
    <2>4. /\ j \in Nat /\ i \in Nat /\ i <= j /\ b \in Nat /\ a <= d /\ j <= d - 1 /\ a \in Nat
          /\ a + b = d /\ b + i \in 0 .. MaxChain - 1
      BY <1>0, <2>2, <2>3
    <2>5. /\ i \in Hops /\ b \in Hops /\ b + i \in Hops /\ a \in Hops
          /\ a # 0 /\ a - 1 = j
      <3>1. {i, b, a} \subseteq 0 .. d /\ b + i \in 0 .. MaxChain /\ a # 0 /\ a - 1 = j
        BY <1>0, <2>4
      <3> QED
        BY <1>0, <3>1, HopsAre
    <2> HIDE DEF a, b, At
    <2>6. Up(tt, x)[j] = child /\ Up(tt, x)[i] = child
      BY <2>2, <2>3 DEF At
    <2>7. Up(tt, x)[a] = parent
      <3>1. Up(tt, x)[a] = ParentOf(tt, Up(tt, x)[a - 1])
        BY <2>5, UpIs
      <3> QED
        BY <2>5, <2>6, <3>1
    <2>8. \A k \in 0 .. b : Up(tt, parent)[k] = Up(tt, x)[a + k]
      <3>1. ASSUME NEW k \in 0 .. b
            PROVE  a + k \in Hops /\ k \in Nat
        <4>1. a + k \in 0 .. d /\ k \in Nat
          BY <1>0, <2>4
        <4> QED
          BY <1>0, <4>1, HopsAre
      <3>2. \A k \in 0 .. b : Up(tt, x)[a + k] = Up(tt, Up(tt, x)[a])[k]
        BY <2>5, <3>1, UpAgain
      <3> QED
        BY <2>7, <3>2
    <2>9. Up(ss, parent)[b] = x
      <3>1. Up(tt, parent)[b] = x
        BY <2>4, <2>8
      <3>2. ASSUME NEW k \in 0 .. b - 1
            PROVE  Up(tt, parent)[k] # child
        <4>1. k \in 0 .. b /\ a + k \in 0 .. d - 1 /\ ~(a + k <= j)
          BY <1>0, <2>4 DEF a
        <4>2. a + k \notin At
          BY <2>2, <4>1
        <4> QED
          BY <2>8, <4>1, <4>2 DEF At
      <3> QED
        BY <1>x, <2>5, <3>1, <3>2, SameClimb
    <2>10. Up(ss, x)[i] = child
      <3>1. ASSUME NEW k \in 0 .. i - 1
            PROVE  Up(tt, x)[k] # child
        <4>1. k \in 0 .. d - 1 /\ ~(i <= k)
          BY <1>0, <2>4
        <4> QED
          BY <2>3, <4>1 DEF At
      <3>2. child # Null
        BY SidsType
      <3> QED
        BY <2>5, <2>6, <3>1, <3>2, SameClimb
    <2>11. Up(ss, parent)[b + i] = child
      BY <2>4, <2>5, <2>9, <2>10, UpAgain
    <2>12. parent # Null
      BY <1>x, <2>5, <2>9, UpOfNull
    <2> QED
      BY <2>4, <2>11, <2>12 DEF NoLoop
  <1> QED
    BY <1>1, <1>2

\* Without a new parent there is no new cycle either.
LEMMA NoNewParent ==
  ASSUME NEW ss, NEW tt, AreSessions(ss), AreSessions(tt), NoCycle(ss), Orphans(ss, tt)
  PROVE  NoCycle(tt)
  <1> SUFFICES ASSUME NEW x \in DOMAIN tt
               PROVE  NoCycle(tt)
    BY DEF NoCycle
  <1> DEFINE parent == ParentOf(tt, x)
  <1>1. x \in Sids
    BY DEF AreSessions
  <1>2. NoLoop(ss, x, parent)
    <2> SUFFICES ASSUME parent # Null, NEW d \in 0 .. MaxChain - 1, Up(ss, parent)[d] = x
                 PROVE  FALSE
      BY DEF NoLoop
    <2>1. ParentOf(ss, x) = parent
      BY DEF Orphans
    <2>2. x \in DOMAIN ss
      BY <2>1 DEF ParentOf
    <2>3. /\ d \in Nat /\ 1 + d \in 1 .. MaxChain /\ 1 \in Hops /\ 1 + d \in Hops
      <3>1. d \in Nat /\ 1 + d \in 1 .. MaxChain /\ 1 + d \in 0 .. MaxChain /\ 1 \in 0 .. MaxChain
        BY HopsAre
      <3> QED
        BY <3>1, HopsAre
    <2>4. Up(ss, x)[1] = parent
      <3>1. Up(ss, x)[0] = x /\ Up(ss, x)[1] = ParentOf(ss, Up(ss, x)[1 - 1])
        BY <2>3, UpIs
      <3> QED
        BY <2>1, <3>1
    <2>5. Up(ss, x)[1 + d] = Up(ss, Up(ss, x)[1])[d]
      BY <2>3, UpAgain
    <2> QED
      BY <2>2, <2>3, <2>4, <2>5 DEF NoCycle
  <1>3. OrphansBut(ss, tt, x)
    BY DEF Orphans, OrphansBut
  <1> QED
    BY <1>1, <1>2, <1>3, NoNewCycle

-----------------------------------------------------------------------------
\* One event and the sessions.

Folds(ss, e, tt) ==
  /\ AreSessions(tt) /\ DOMAIN tt = DOMAIN ss \union {e.sid}
  /\ \A x \in DOMAIN ss : x # e.sid => tt[x] = ss[x]
  /\ Effect(SessionOrNew(ss, e), e, tt[e.sid])

LEMMA FoldSessionIs ==
  ASSUME NEW ss, AreSessions(ss), NEW e, e.op \in Ops \ {"session_prune"}, e.sid \in Sids,
         IsEvent(e)
  PROVE  Folds(ss, e, FoldSession(ss, e))
  <1> DEFINE s == SessionOrNew(ss, e)
             t == RefreshDerivedNames(Bump(Reduce(s, e), e))
             tt == FoldSession(ss, e)
  <1>1. IsRecord(s)
    BY NewRecord DEF SessionOrNew, AreSessions, IsEvent
  <1>2. tt = Put(ss, e.sid, t)
    BY DEF FoldSession
  <1> HIDE DEF s
  <1>3. Effect(s, e, t)
    BY <1>1, FoldEffect
  <1> HIDE DEF t, tt
  <1>4. /\ tt = [x \in DOMAIN tt |-> tt[x]] /\ DOMAIN tt = DOMAIN ss \union {e.sid}
        /\ \A x \in DOMAIN ss : x # e.sid => tt[x] = ss[x]
        /\ tt[e.sid] = t
    BY <1>2 DEF Put
  <1>5. IsRecord(t)
    BY <1>3 DEF Effect
  <1>6. AreSessions(tt)
    BY <1>4, <1>5 DEF AreSessions
  <1> QED
    BY <1>3, <1>4, <1>6 DEF Folds, s, tt

\* What any event leaves of a session's threads, their name and its parent.
Kept(ss, tt, x) ==
  /\ x \in DOMAIN tt <=> x \in DOMAIN ss
  /\ x \in DOMAIN ss => tt[x] = ss[x]
After(ss, e, tt) ==
  /\ AreSessions(tt) /\ \A x : x # e.sid => Kept(ss, tt, x)
  /\ e.op = "session_prune" => e.sid \notin DOMAIN tt
  /\ e.op # "session_prune" =>
       /\ e.sid \in DOMAIN tt
       /\ IdsOf(tt, e.sid) = IF e.op = "codex_session_seen"
                             THEN IdsOf(ss, e.sid) \union {e.p.codexId}
                             ELSE IdsOf(ss, e.sid)
       /\ ParentOf(tt, e.sid) = IF e.op = "parent_set" THEN e.p.parent
                                ELSE ParentOf(ss, e.sid)
       /\ \/ NameOf(tt, e.sid) = NameOf(ss, e.sid)
          \/ NamesThread(e) /\ NameOf(tt, e.sid) = NameChange(e).value
       /\ NamesThread(e) /\ SaysName(e) =>
            IsFull(tt[e.sid].names) \/ NameOf(tt, e.sid) = NameChange(e).value
       /\ e.sid \in DOMAIN ss /\ IsFull(ss[e.sid].names) => IsFull(tt[e.sid].names)

LEMMA AfterFold ==
  ASSUME NEW ss, AreSessions(ss), NEW e, e.op \in Ops, e.sid \in Sids, IsEvent(e)
  PROVE  After(ss, e, FoldSession(ss, e))
  <1> DEFINE tt == FoldSession(ss, e)
             s == SessionOrNew(ss, e)
  <1>1. CASE e.op = "session_prune"
    <2>1. tt = [x \in DOMAIN ss \ {e.sid} |-> ss[x]]
      BY <1>1 DEF FoldSession, Restrict
    <2> HIDE DEF tt
    <2>2. AreSessions(tt) /\ e.sid \notin DOMAIN tt /\ \A x : x # e.sid => Kept(ss, tt, x)
      BY <2>1 DEF AreSessions, Kept
    <2> QED
      BY <1>1, <2>2 DEF After, tt
  <1>2. CASE e.op # "session_prune"
    <2>1. Folds(ss, e, tt)
      BY <1>2, FoldSessionIs
    <2> HIDE DEF tt
    <2>2. /\ AreSessions(tt) /\ e.sid \in DOMAIN tt /\ \A x : x # e.sid => Kept(ss, tt, x)
          /\ Effect(s, e, tt[e.sid])
      BY <2>1 DEF Folds, Kept
    <2>3. s = IF e.sid \in DOMAIN ss THEN ss[e.sid] ELSE EmptySession(e.ts)
      BY DEF SessionOrNew
    <2>4. /\ EmptySession(e.ts).codexIds = {} /\ EmptySession(e.ts).parent = Null
          /\ ThreadName(EmptySession(e.ts)) = 0
      BY NewRecord DEF IsEvent
    <2>5. /\ IdsOf(ss, e.sid) = s.codexIds /\ ParentOf(ss, e.sid) = s.parent
          /\ NameOf(ss, e.sid) = ThreadName(s)
          /\ e.sid \in DOMAIN ss => s = ss[e.sid]
      BY <2>3, <2>4 DEF IdsOf, ParentOf, NameOf
    <2> DEFINE t == tt[e.sid]
    <2>6. /\ IdsOf(tt, e.sid) = t.codexIds /\ ParentOf(tt, e.sid) = t.parent
          /\ NameOf(tt, e.sid) = ThreadName(t)
      BY <2>2 DEF IdsOf, ParentOf, NameOf
    <2> HIDE DEF s, t
    <2>7. /\ t.codexIds = IF e.op = "codex_session_seen" THEN s.codexIds \union {e.p.codexId}
                          ELSE s.codexIds
          /\ t.parent = IF e.op = "parent_set" THEN e.p.parent ELSE s.parent
          /\ \/ ThreadName(t) = ThreadName(s)
             \/ NamesThread(e) /\ ThreadName(t) = NameChange(e).value
          /\ NamesThread(e) /\ SaysName(e) => IsFull(t.names) \/ ThreadName(t) = NameChange(e).value
          /\ IsFull(s.names) => IsFull(t.names)
      BY <2>2 DEF Effect, t
    <2>8. /\ IdsOf(tt, e.sid) = IF e.op = "codex_session_seen"
                                THEN IdsOf(ss, e.sid) \union {e.p.codexId}
                                ELSE IdsOf(ss, e.sid)
          /\ ParentOf(tt, e.sid) = IF e.op = "parent_set" THEN e.p.parent
                                   ELSE ParentOf(ss, e.sid)
      BY <2>5, <2>6, <2>7
    <2>9. /\ \/ NameOf(tt, e.sid) = NameOf(ss, e.sid)
             \/ NamesThread(e) /\ NameOf(tt, e.sid) = NameChange(e).value
          /\ NamesThread(e) /\ SaysName(e) =>
               IsFull(t.names) \/ NameOf(tt, e.sid) = NameChange(e).value
          /\ e.sid \in DOMAIN ss /\ IsFull(ss[e.sid].names) => IsFull(t.names)
      BY <2>5, <2>6, <2>7
    <2>10. After(ss, e, tt)
      BY <1>2, <2>2, <2>8, <2>9 DEF After, t
    <2> QED
      BY <2>10 DEF tt
  <1> QED
    BY <1>1, <1>2

\* The name of a session of one thread is its thread's, at most.
LEMMA NameBelowRow ==
  ASSUME NEW ss, NEW index \in Seq(Threads), OneThread(ss), NamedByIndex(ss, index),
         NEW x \in DOMAIN ss, NEW thread \in ss[x].codexIds
  PROVE  ThreadName(ss[x]) \in Nat /\ ThreadName(ss[x]) <= RowOf(index, thread)
  <1>1. RowOf(index, thread) \in Nat
    BY RowIs
  <1>2. \A t \in ss[x].codexIds : t = thread
    BY DEF OneThread
  <1> QED
    BY <1>1, <1>2 DEF NamedByIndex

\* A session of one thread stays one; its name stays at most its thread's, and
\* never becomes an earlier one.
OneSide(ss, e, index) ==
  /\ e.op = "codex_session_seen" => IdsOf(ss, e.sid) \subseteq {e.p.codexId}
  /\ NamesThread(e) =>
       e.sid \in DOMAIN ss /\ \E t \in ss[e.sid].codexIds : NameChange(e).value = RowOf(index, t)
LEMMA SideStays ==
  ASSUME NEW ss, NEW index \in Seq(Threads), OneThread(ss), NamedByIndex(ss, index),
         NEW e, NEW tt, After(ss, e, tt), OneSide(ss, e, index)
  PROVE  OneThread(tt) /\ NamedByIndex(tt, index) /\ NamesAdvance(ss, tt)
  <1> DEFINE x == e.sid
  <1>1. \A y : y # x => Kept(ss, tt, y)
    BY DEF After
  <1>2. CASE e.op = "session_prune"
    <2>1. x \notin DOMAIN tt
      BY <1>2 DEF After
    <2>2. \A y \in DOMAIN tt : y \in DOMAIN ss /\ tt[y] = ss[y]
      BY <1>1, <2>1 DEF Kept
    <2> QED
      BY <2>2 DEF OneThread, NamedByIndex, NamesAdvance
  <1>3. CASE e.op # "session_prune"
    <2>1. /\ x \in DOMAIN tt
          /\ IdsOf(tt, x) = IF e.op = "codex_session_seen" THEN IdsOf(ss, x) \union {e.p.codexId}
                            ELSE IdsOf(ss, x)
          /\ \/ NameOf(tt, x) = NameOf(ss, x)
             \/ NamesThread(e) /\ NameOf(tt, x) = NameChange(e).value
      BY <1>3 DEF After
    <2>2. \A t, u \in IdsOf(ss, x) : t = u
      BY DEF IdsOf, OneThread
    <2>3. \A t, u \in IdsOf(tt, x) : t = u
      BY <2>1, <2>2 DEF OneSide
    <2>4. OneThread(tt)
      BY <1>1, <2>1, <2>3 DEF OneThread, IdsOf, Kept
    <2> DEFINE old == NameOf(ss, x)
               new == NameOf(tt, x)
    <2>5. old \in Nat /\ (old = 0 \/ \E t \in IdsOf(ss, x) : old <= RowOf(index, t))
      BY DEF NameOf, IdsOf, NamedByIndex
    <2>6. NamesThread(e) =>
            \E t \in IdsOf(ss, x) : /\ NameChange(e).value = RowOf(index, t)
                                    /\ RowOf(index, t) \in Nat /\ old <= RowOf(index, t)
      BY NameBelowRow, RowIs DEF OneSide, IdsOf, NameOf
    <2>7. new \in Nat /\ old <= new /\ (new = 0 \/ \E t \in IdsOf(tt, x) : new <= RowOf(index, t))
      <3> HIDE DEF old, new
      <3>1. CASE new = old
        BY <2>1, <2>5, <3>1
      <3>2. CASE NamesThread(e) /\ new = NameChange(e).value
        <4>1. PICK t \in IdsOf(ss, x) : new = RowOf(index, t) /\ new \in Nat /\ old <= new
          BY <2>6, <3>2
        <4>2. t \in IdsOf(tt, x) /\ new <= RowOf(index, t)
          BY <2>1, <4>1
        <4> QED
          BY <4>1, <4>2
      <3> QED
        BY <2>1, <3>1, <3>2 DEF old, new
    <2>8. new = ThreadName(tt[x]) /\ IdsOf(tt, x) = tt[x].codexIds
          /\ (x \in DOMAIN ss => old = ThreadName(ss[x]))
      BY <2>1 DEF NameOf, IdsOf
    <2>9. NamedByIndex(tt, index)
      <3> HIDE DEF new, old
      <3>1. ASSUME NEW y \in DOMAIN tt
            PROVE  /\ ThreadName(tt[y]) \in Nat
                   /\ ThreadName(tt[y]) = 0 \/ \E t \in tt[y].codexIds : ThreadName(tt[y]) <= RowOf(index, t)
        <4>1. CASE y = x
          BY <2>7, <2>8, <4>1
        <4>2. CASE y # x
          BY <1>1, <4>2 DEF Kept, NamedByIndex
        <4> QED
          BY <4>1, <4>2
      <3> QED
        BY <3>1 DEF NamedByIndex
    <2>10. NamesAdvance(ss, tt)
      <3> HIDE DEF new, old
      <3>1. ASSUME NEW y \in DOMAIN ss \intersect DOMAIN tt
            PROVE  ThreadName(ss[y]) <= ThreadName(tt[y])
        <4>1. CASE y = x
          BY <2>7, <2>8, <4>1
        <4>2. CASE y # x
          <5>1. tt[y] = ss[y] /\ ThreadName(ss[y]) \in Nat
            BY <1>1, <4>2 DEF Kept, NamedByIndex
          <5> QED
            BY <5>1
        <4> QED
          BY <4>1, <4>2
      <3> QED
        BY <3>1 DEF NamesAdvance
    <2> QED
      BY <2>4, <2>9, <2>10
  <1> QED
    BY <1>2, <1>3

\* What an event does to the sessions ss and to what a rebuild would make, ll, when
\* it is decided on the former: it removes what nobody has touched; it gives a thread
\* to its session, or to one that neither knows; it gives a session the name of its
\* thread.
Lawful(e, ss, ll, index) ==
  /\ e.op \in Ops /\ e.sid \in Sids /\ IsEvent(e)
  /\ e.op = "session_prune" /\ e.sid \in DOMAIN ss => IsUntouched(ss[e.sid])
  /\ e.op = "codex_session_seen" =>
       \/ e.sid \in DOMAIN ss /\ e.p.codexId \in ss[e.sid].codexIds
       \/ /\ e.sid \notin DOMAIN ss /\ e.sid \notin DOMAIN ll
          /\ \A x \in DOMAIN ss : e.p.codexId \notin ss[x].codexIds
  /\ NamesThread(e) =>
       /\ SaysName(e) /\ e.sid \in DOMAIN ll
       /\ \E t \in ll[e.sid].codexIds :
            /\ NameChange(e).value = RowOf(index, t)
            /\ e.sid \in DOMAIN ss => t \in ss[e.sid].codexIds

LEMMA PlannedLawful ==
  ASSUME NEW e, Planned(e)
  PROVE  \A ss, ll, index : Lawful(e, ss, ll, index)
  BY DEF Planned, Lawful

\* Nobody has touched it: so it is of no thread, has no name and no parent.
LEMMA UntouchedIs ==
  ASSUME NEW ss, AreSessions(ss), NEW x, x \in DOMAIN ss => IsUntouched(ss[x])
  PROVE  IdsOf(ss, x) = {} /\ ParentOf(ss, x) = Null /\ NameOf(ss, x) = 0
  BY DEF AreSessions, IsRecord, IsUntouched, IdsOf, ParentOf, NameOf, ThreadName

\* The threads of an event's session, on either side.
LEMMA LawfulIds ==
  ASSUME NEW ss, NEW ll, NEW ops, NEW index, Paired(ss, ll, ops, index),
         NEW e, Lawful(e, ss, ll, index)
  PROVE  /\ e.op = "codex_session_seen" =>
              /\ IdsOf(ss, e.sid) \subseteq {e.p.codexId} /\ IdsOf(ll, e.sid) \subseteq {e.p.codexId}
         /\ OneSide(ll, e, index)
         /\ (NamesThread(e) => e.sid \in DOMAIN ss) => OneSide(ss, e, index)
  <1>1. ASSUME e.op = "codex_session_seen"
        PROVE  IdsOf(ss, e.sid) \subseteq {e.p.codexId} /\ IdsOf(ll, e.sid) \subseteq {e.p.codexId}
    <2>1. CASE e.sid \in DOMAIN ss /\ e.p.codexId \in ss[e.sid].codexIds
      <3>1. e.p.codexId \in IdsOf(ss, e.sid) /\ \A t \in IdsOf(ss, e.sid) : t = e.p.codexId
        BY <2>1 DEF Paired, OneThread, IdsOf
      <3>2. IdsOf(ll, e.sid) = IdsOf(ss, e.sid)
        BY <3>1 DEF Paired, Trails
      <3> QED
        BY <3>1, <3>2
    <2>2. CASE e.sid \notin DOMAIN ss /\ e.sid \notin DOMAIN ll
      BY <2>2 DEF IdsOf
    <2> QED
      BY <1>1, <2>1, <2>2 DEF Lawful
  <1>2. OneSide(ll, e, index)
    BY <1>1 DEF Lawful, OneSide
  <1>3. (NamesThread(e) => e.sid \in DOMAIN ss) => OneSide(ss, e, index)
    BY <1>1 DEF Lawful, OneSide
  <1> QED
    BY <1>1, <1>2, <1>3

\* An event that is not folded waits for the next rebuild.
LEMMA FoldLate ==
  ASSUME NEW ss, NEW ll, NEW ops, NEW index \in Seq(Threads), Paired(ss, ll, ops, index),
         NEW e, Lawful(e, ss, ll, index)
  PROVE  Paired(ss, FoldSession(ll, e), ops \union {e.op}, index)
  <1> DEFINE mm == FoldSession(ll, e)
             x == e.sid
  <1>0. /\ AreSessions(ss) /\ AreSessions(ll) /\ OneThread(ss) /\ OneThread(ll)
        /\ NamedByIndex(ss, index) /\ NamedByIndex(ll, index) /\ Trails(ss, ll, ops)
    BY DEF Paired
  <1>1. After(ll, e, mm)
    BY <1>0, AfterFold DEF Lawful
  <1> HIDE DEF mm
  <1>2. OneThread(mm) /\ NamedByIndex(mm, index)
    BY <1>0, <1>1, LawfulIds, SideStays
  <1>3. \A y : y # x => /\ Kept(ll, mm, y)
                        /\ IdsOf(mm, y) = IdsOf(ll, y) /\ ParentOf(mm, y) = ParentOf(ll, y)
    BY <1>1 DEF After, Kept, IdsOf, ParentOf
  <1>4. ASSUME e.op = "session_prune"
        PROVE  /\ x \notin DOMAIN mm /\ IdsOf(mm, x) = {} /\ ParentOf(mm, x) = Null
               /\ x \in DOMAIN ss => IsUntouched(ss[x])
               /\ IdsOf(ss, x) = {}
    <2>1. x \notin DOMAIN mm /\ (x \in DOMAIN ss => IsUntouched(ss[x]))
      BY <1>1, <1>4 DEF After, Lawful
    <2>2. IdsOf(ss, x) = {}
      BY <1>0, <2>1, UntouchedIs
    <2> QED
      BY <2>1, <2>2 DEF IdsOf, ParentOf
  <1>5. ASSUME e.op # "session_prune"
        PROVE  /\ x \in DOMAIN mm
               /\ e.op # "codex_session_seen" => IdsOf(mm, x) = IdsOf(ll, x)
               /\ e.op = "codex_session_seen" => IdsOf(mm, x) = IdsOf(ll, x) \union {e.p.codexId}
               /\ e.op # "parent_set" => ParentOf(mm, x) = ParentOf(ll, x)
    BY <1>1, <1>5 DEF After
  <1>6. "parent_set" \notin ops \union {e.op} => Orphans(ss, mm)
    BY <1>0, <1>3, <1>4, <1>5 DEF Trails, Orphans
  <1>7. ASSUME NEW y, IdsOf(ss, y) # {}
        PROVE  IdsOf(mm, y) = IdsOf(ss, y)
    <2>1. IdsOf(ll, y) = IdsOf(ss, y)
      BY <1>0, <1>7 DEF Trails
    <2>2. CASE y = x
      <3>1. e.op # "session_prune"
        BY <1>4, <1>7, <2>2
      <3>2. e.op = "codex_session_seen" => IdsOf(ll, x) = {e.p.codexId}
        BY <1>7, <2>1, <2>2, LawfulIds
      <3> QED
        BY <1>5, <2>1, <2>2, <3>1, <3>2
    <2> QED
      BY <1>3, <2>1, <2>2
  <1>8. "codex_session_seen" \notin ops \union {e.op} => \A y : IdsOf(mm, y) \subseteq IdsOf(ss, y)
    BY <1>0, <1>3, <1>4, <1>5 DEF Trails
  <1>9. ASSUME NEW y \in DOMAIN ss \intersect DOMAIN mm
        PROVE  ThreadName(ss[y]) <= ThreadName(mm[y]) \/ IsFull(mm[y].names)
    <2>1. CASE y # x
      BY <1>0, <1>3, <2>1 DEF Trails, Kept
    <2>2. CASE y = x
      <3>1. e.op # "session_prune" /\ NameOf(mm, x) = ThreadName(mm[y]) /\ ThreadName(mm[y]) \in Nat
            /\ ThreadName(ss[y]) \in Nat
        BY <1>0, <1>2, <1>4, <2>2 DEF NameOf, NamedByIndex
      <3>2. CASE NamesThread(e)
        <4>1. PICK t \in ss[x].codexIds : NameChange(e).value = RowOf(index, t)
          BY <2>2, <3>2 DEF Lawful
        <4>2. ThreadName(ss[x]) <= RowOf(index, t)
          BY <1>0, <2>2, NameBelowRow
        <4>3. IsFull(mm[x].names) \/ NameOf(mm, x) = NameChange(e).value
          BY <1>1, <3>1, <3>2 DEF After, Lawful
        <4> QED
          BY <2>2, <3>1, <4>1, <4>2, <4>3
      <3>3. CASE ~NamesThread(e)
        <4>1. NameOf(mm, x) = NameOf(ll, x)
          BY <1>1, <3>1, <3>3 DEF After
        <4>2. CASE x \in DOMAIN ll
          <5>1. ThreadName(ss[x]) <= ThreadName(ll[x]) \/ IsFull(ll[x].names)
            BY <1>0, <2>2, <4>2 DEF Trails
          <5>2. IsFull(ll[x].names) => IsFull(mm[x].names)
            BY <1>1, <3>1, <4>2 DEF After
          <5>3. NameOf(ll, x) = ThreadName(ll[x])
            BY <4>2 DEF NameOf
          <5> QED
            BY <2>2, <3>1, <4>1, <5>1, <5>2, <5>3
        <4>3. CASE x \notin DOMAIN ll
          <5>1. NameOf(ss, x) = 0 /\ NameOf(ss, x) = ThreadName(ss[x])
            BY <1>0, <2>2, <4>3, UntouchedIs DEF Trails, NameOf
          <5> QED
            BY <2>2, <3>1, <5>1
        <4> QED
          BY <4>2, <4>3
      <3> QED
        BY <3>2, <3>3
    <2> QED
      BY <2>1, <2>2
  <1>10. \A y \in DOMAIN ss \ DOMAIN mm : IsUntouched(ss[y])
    BY <1>0, <1>3, <1>4, <1>5 DEF Trails, Kept
  <1>11. Trails(ss, mm, ops \union {e.op})
    BY <1>6, <1>7, <1>8, <1>9, <1>10 DEF Trails
  <1>12. AreSessions(mm)
    BY <1>1 DEF After
  <1> QED
    BY <1>0, <1>2, <1>11, <1>12 DEF Paired, mm

\* An event that is folded.
LEMMA FoldBoth ==
  ASSUME NEW ss, NEW ll, NEW ops, NEW index \in Seq(Threads), Paired(ss, ll, ops, index),
         NEW e, Lawful(e, ss, ll, index), NamesThread(e) => e.sid \in DOMAIN ss
  PROVE  LET tt == FoldSession(ss, e) IN
         /\ Paired(tt, FoldSession(ll, e), ops, index) /\ Follows(ss, tt)
         /\ e.op # "parent_set" => Orphans(ss, tt)
         /\ e.op = "parent_set" =>
              OrphansBut(ss, tt, e.sid) /\ ParentOf(tt, e.sid) = e.p.parent
  <1> DEFINE tt == FoldSession(ss, e)
             mm == FoldSession(ll, e)
             x == e.sid
  <1>0. /\ AreSessions(ss) /\ AreSessions(ll) /\ OneThread(ss) /\ OneThread(ll)
        /\ NamedByIndex(ss, index) /\ NamedByIndex(ll, index) /\ Trails(ss, ll, ops)
    BY DEF Paired
  <1>1. After(ll, e, mm) /\ After(ss, e, tt)
    BY <1>0, AfterFold DEF Lawful
  <1> HIDE DEF mm, tt
  <1>2. /\ OneThread(mm) /\ NamedByIndex(mm, index)
        /\ OneThread(tt) /\ NamedByIndex(tt, index) /\ NamesAdvance(ss, tt)
    BY <1>0, <1>1, LawfulIds, SideStays
  <1>3. \A y : y # x =>
          /\ Kept(ll, mm, y) /\ IdsOf(mm, y) = IdsOf(ll, y) /\ ParentOf(mm, y) = ParentOf(ll, y)
          /\ Kept(ss, tt, y) /\ IdsOf(tt, y) = IdsOf(ss, y) /\ ParentOf(tt, y) = ParentOf(ss, y)
    BY <1>1 DEF After, Kept, IdsOf, ParentOf
  <1>4. ASSUME e.op = "session_prune"
        PROVE  /\ x \notin DOMAIN mm /\ IdsOf(mm, x) = {} /\ ParentOf(mm, x) = Null
               /\ x \notin DOMAIN tt /\ IdsOf(tt, x) = {} /\ ParentOf(tt, x) = Null
               /\ x \in DOMAIN ss => IsUntouched(ss[x])
    BY <1>1, <1>4 DEF After, Lawful, IdsOf, ParentOf
  <1>5. ASSUME e.op # "session_prune"
        PROVE  /\ x \in DOMAIN mm /\ x \in DOMAIN tt
               /\ e.op # "codex_session_seen" =>
                    IdsOf(mm, x) = IdsOf(ll, x) /\ IdsOf(tt, x) = IdsOf(ss, x)
               /\ e.op = "codex_session_seen" =>
                    IdsOf(mm, x) = {e.p.codexId} /\ IdsOf(tt, x) = {e.p.codexId}
               /\ e.op # "parent_set" =>
                    ParentOf(mm, x) = ParentOf(ll, x) /\ ParentOf(tt, x) = ParentOf(ss, x)
               /\ e.op = "parent_set" =>
                    ParentOf(mm, x) = e.p.parent /\ ParentOf(tt, x) = e.p.parent
    <2>1. e.op = "codex_session_seen" =>
            /\ IdsOf(mm, x) = IdsOf(ll, x) \union {e.p.codexId}
            /\ IdsOf(tt, x) = IdsOf(ss, x) \union {e.p.codexId}
      BY <1>1, <1>5 DEF After
    <2>2. e.op = "codex_session_seen" =>
            IdsOf(mm, x) = {e.p.codexId} /\ IdsOf(tt, x) = {e.p.codexId}
      BY <2>1, LawfulIds
    <2> QED
      BY <1>1, <1>5, <2>2 DEF After
  <1>6. "parent_set" \notin ops => Orphans(tt, mm)
    BY <1>0, <1>3, <1>4, <1>5 DEF Trails, Orphans
  <1>7. \A y : IdsOf(tt, y) # {} => IdsOf(mm, y) = IdsOf(tt, y)
    BY <1>0, <1>3, <1>4, <1>5 DEF Trails
  <1>8. "codex_session_seen" \notin ops => \A y : IdsOf(mm, y) \subseteq IdsOf(tt, y)
    BY <1>0, <1>3, <1>4, <1>5 DEF Trails
  <1>9. ASSUME NEW y \in DOMAIN tt \intersect DOMAIN mm
        PROVE  ThreadName(tt[y]) <= ThreadName(mm[y]) \/ IsFull(mm[y].names)
    <2>1. CASE y # x
      BY <1>0, <1>3, <2>1 DEF Trails, Kept
    <2>2. CASE y = x
      <3> DEFINE oldS == NameOf(ss, x)
                 newS == NameOf(tt, x)
                 oldL == NameOf(ll, x)
                 newL == NameOf(mm, x)
      <3>1. /\ e.op # "session_prune" /\ newL = ThreadName(mm[y]) /\ newS = ThreadName(tt[y])
            /\ newL \in Nat /\ newS \in Nat /\ oldL \in Nat /\ oldS \in Nat
        BY <1>0, <1>2, <1>4, <2>2 DEF NameOf, NamedByIndex
      <3>2. /\ newS = oldS \/ (NamesThread(e) /\ newS = NameChange(e).value)
            /\ newL = oldL \/ NamesThread(e)
            /\ NamesThread(e) => IsFull(mm[x].names) \/ newL = NameChange(e).value
        BY <1>1, <3>1 DEF After, Lawful
      <3>3. CASE NamesThread(e)
        <4>1. PICK t \in ss[x].codexIds : NameChange(e).value = RowOf(index, t)
          BY <3>3 DEF Lawful
        <4>2. oldS <= RowOf(index, t) /\ RowOf(index, t) \in Nat
          BY <1>0, <3>3, NameBelowRow, RowIs DEF NameOf
        <4> HIDE DEF oldS, newS, oldL, newL
        <4> QED
          BY <2>2, <3>1, <3>2, <3>3, <4>1, <4>2
      <3>4. CASE ~NamesThread(e)
        <4>1. newS = oldS /\ newL = oldL
          BY <3>2, <3>4
        <4>2. oldS <= oldL \/ IsFull(mm[x].names)
          <5>1. CASE x \in DOMAIN ll /\ x \in DOMAIN ss
            <6>1. ThreadName(ss[x]) <= ThreadName(ll[x]) \/ IsFull(ll[x].names)
              BY <1>0, <5>1 DEF Trails
            <6>2. IsFull(ll[x].names) => IsFull(mm[x].names)
              BY <1>1, <3>1, <5>1 DEF After
            <6> QED
              BY <5>1, <6>1, <6>2 DEF NameOf
          <5>2. CASE x \in DOMAIN ss /\ x \notin DOMAIN ll
            <6>1. oldS = 0
              BY <1>0, <5>2, UntouchedIs DEF Trails
            <6> QED
              BY <3>1, <6>1
          <5>3. CASE x \notin DOMAIN ss
            <6>1. oldS = 0
              BY <5>3 DEF NameOf
            <6> QED
              BY <3>1, <6>1
          <5> QED
            BY <5>1, <5>2, <5>3
        <4> QED
          BY <2>2, <3>1, <4>1, <4>2
      <3> QED
        BY <3>3, <3>4
    <2> QED
      BY <2>1, <2>2
  <1>10. \A y \in DOMAIN tt \ DOMAIN mm : IsUntouched(tt[y])
    BY <1>0, <1>3, <1>4, <1>5 DEF Trails, Kept
  <1>11. Paired(tt, mm, ops, index)
    <2>1. Trails(tt, mm, ops)
      BY <1>6, <1>7, <1>8, <1>9, <1>10 DEF Trails
    <2>2. AreSessions(mm) /\ AreSessions(tt)
      BY <1>1 DEF After
    <2> QED
      BY <1>2, <2>1, <2>2 DEF Paired
  <1>12. Apart(ss) => Apart(tt)
    <2> SUFFICES ASSUME Apart(ss), NEW y \in DOMAIN tt, NEW z \in DOMAIN tt \ {y},
                        NEW t \in tt[y].codexIds \intersect tt[z].codexIds
                 PROVE  FALSE
      BY DEF Apart
    <2>1. t \in IdsOf(tt, y) /\ t \in IdsOf(tt, z) /\ y # z
      BY DEF IdsOf
    <2>2. \A u, v : u # v => IdsOf(ss, u) \intersect IdsOf(ss, v) = {}
      BY DEF Apart, IdsOf
    <2>3. ~(t \in IdsOf(ss, y) /\ t \in IdsOf(ss, z))
      BY <2>1, <2>2
    <2>4. e.op = "codex_session_seen" /\ t = e.p.codexId
      BY <1>3, <1>4, <1>5, <2>1, <2>3
    <2>5. \A v : v # x => t \notin IdsOf(ss, v)
      <3>1. CASE x \in DOMAIN ss /\ e.p.codexId \in ss[x].codexIds
        <4>1. t \in IdsOf(ss, x)
          BY <2>4, <3>1 DEF IdsOf
        <4> QED
          BY <2>2, <4>1
      <3>2. CASE \A v \in DOMAIN ss : e.p.codexId \notin ss[v].codexIds
        BY <2>4, <3>2 DEF IdsOf
      <3> QED
        BY <2>4, <3>1, <3>2 DEF Lawful
    <2> QED
      BY <1>3, <2>1, <2>5
  <1>13. \A y \in DOMAIN ss \ DOMAIN tt : IsUntouched(ss[y])
    BY <1>3, <1>4, <1>5 DEF Kept
  <1>14. Follows(ss, tt)
    BY <1>2, <1>12, <1>13 DEF Follows
  <1>15. e.op # "parent_set" => Orphans(ss, tt)
    BY <1>3, <1>4, <1>5 DEF Orphans
  <1>16. e.op = "parent_set" => OrphansBut(ss, tt, e.sid) /\ ParentOf(tt, e.sid) = e.p.parent
    BY <1>3, <1>5 DEF OrphansBut
  <1> QED
    BY <1>11, <1>14, <1>15, <1>16 DEF tt, mm

-----------------------------------------------------------------------------
\* Several events.

\* What most steps do to the sessions.
GoodChange ==
  /\ Paired(sessions', logged', unfolded', threadIndex)
  /\ Follows(sessions, sessions') /\ Orphans(sessions, sessions')

LEMMA NothingFollows ==
  ASSUME NEW ss, NEW index, NamedByIndex(ss, index)
  PROVE  Follows(ss, ss) /\ Orphans(ss, ss)
  <1>1. NamesAdvance(ss, ss)
    BY DEF NamedByIndex, NamesAdvance
  <1> QED
    BY <1>1 DEF Follows, Orphans

\* One change after the other, if nobody comes back, and nobody is removed whom
\* somebody had touched before.
LEMMA FollowsTwice ==
  ASSUME NEW ss, NEW tt, NEW uu, NEW index, NamedByIndex(ss, index), NamedByIndex(tt, index),
         NamedByIndex(uu, index), Follows(ss, tt), Follows(tt, uu),
         Orphans(ss, tt), Orphans(tt, uu),
         DOMAIN ss \intersect DOMAIN uu \subseteq DOMAIN tt,
         \A x \in DOMAIN ss \ DOMAIN uu : x \in DOMAIN tt => IsUntouched(ss[x])
  PROVE  Follows(ss, uu) /\ Orphans(ss, uu)
  <1>1. NamesAdvance(ss, uu)
    <2> SUFFICES ASSUME NEW x \in DOMAIN ss \intersect DOMAIN uu
                 PROVE  ThreadName(ss[x]) <= ThreadName(uu[x])
      BY DEF NamesAdvance
    <2> DEFINE a == ThreadName(ss[x])
               b == ThreadName(tt[x])
               c == ThreadName(uu[x])
    <2>1. a \in Nat /\ b \in Nat /\ c \in Nat /\ a <= b /\ b <= c
      BY DEF NamedByIndex, Follows, NamesAdvance
    <2> HIDE DEF a, b, c
    <2>2. a <= c
      BY <2>1
    <2> QED
      BY <2>2 DEF a, c
  <1>2. Orphans(ss, uu)
    BY DEF Orphans
  <1>3. \A x \in DOMAIN ss \ DOMAIN uu : IsUntouched(ss[x])
    BY DEF Follows
  <1> QED
    BY <1>1, <1>2, <1>3 DEF Follows

\* Upkeep may follow upkeep.
LEMMA UpkeepLawful ==
  ASSUME AreSessions(sessions), NEW e, Upkeep(e), NEW tt, NEW ll, NEW ops,
         Paired(tt, ll, ops, threadIndex), threadIndex \in Seq(Threads),
         \A x \in DOMAIN tt : /\ x \in DOMAIN sessions /\ tt[x].codexIds = sessions[x].codexIds
                              /\ IsUntouched(sessions[x]) => tt[x] = sessions[x],
         \A x \in DOMAIN sessions \ DOMAIN tt : IsUntouched(sessions[x])
  PROVE  Lawful(e, tt, ll, threadIndex) /\ (NamesThread(e) => e.sid \in DOMAIN tt)
  <1>1. e.op \in Ops /\ e.sid \in Sids /\ IsEvent(e) /\ e.op # "codex_session_seen"
    BY DEF Upkeep, AreSessions, Ops, NameOps, NamelessOps
  <1>2. CASE e.op = "session_prune" /\ IsUntouched(sessions[e.sid])
    <2>1. ~NamesThread(e)
      BY <1>2 DEF NamesThread, NameOps
    <2>2. e.sid \in DOMAIN tt => IsUntouched(tt[e.sid])
      BY <1>2
    <2> QED
      BY <1>1, <2>1, <2>2 DEF Lawful
  <1>3. CASE /\ e.op = "name_set" /\ NamesThread(e) /\ SaysName(e)
             /\ \E t \in sessions[e.sid].codexIds : NameChange(e).value = RowOf(threadIndex, t)
    <2>1. PICK t \in sessions[e.sid].codexIds : NameChange(e).value = RowOf(threadIndex, t)
      BY <1>3
    <2>2. ~IsUntouched(sessions[e.sid])
      BY <2>1, UntouchedIs DEF Upkeep, IdsOf
    <2>3. e.sid \in DOMAIN tt /\ t \in tt[e.sid].codexIds
      BY <2>1, <2>2 DEF Upkeep
    <2>4. IdsOf(ll, e.sid) = tt[e.sid].codexIds
      BY <2>3 DEF Paired, Trails, IdsOf
    <2>5. e.sid \in DOMAIN ll /\ t \in ll[e.sid].codexIds
      BY <2>3, <2>4 DEF IdsOf
    <2> QED
      BY <1>1, <1>3, <2>1, <2>3, <2>5 DEF Lawful
  <1> QED
    BY <1>2, <1>3 DEF Upkeep

LEMMA UpkeepIs ==
  ASSUME Paired(sessions, logged, unfolded, threadIndex), threadIndex \in Seq(Threads),
         NEW S, \A e \in S : Upkeep(e), NEW events \in Seq(S)
  PROVE  LET out == FoldLeft(FoldSession, logged, events) IN
         StoredBoth(events, out) /\ LoggedOnly(events, out)
  <1> DEFINE All(q) == FoldLeft(FoldSession, sessions, q)
  <1>0. AreSessions(sessions) /\ NamedByIndex(sessions, threadIndex)
    BY DEF Paired
  <1>1. StoredBoth(<<>>, logged)
    <2>1. All(<<>>) = sessions
      BY FoldFew
    <2>2. Follows(sessions, sessions) /\ Orphans(sessions, sessions)
      BY <1>0, NothingFollows
    <2> QED
      BY <2>1, <2>2 DEF StoredBoth
  <1>2. LoggedOnly(<<>>, logged)
    <2>1. OpsOf(<<>>) = {}
      BY DEF OpsOf
    <2>2. unfolded \union {} = unfolded
      OBVIOUS
    <2> QED
      BY <2>1, <2>2 DEF LoggedOnly
  <1>s. ASSUME NEW seq \in Seq(S), NEW e \in S
        PROVE  /\ DOMAIN Append(seq, e) = 1 .. Len(seq) + 1 /\ Len(seq) \in Nat
               /\ DOMAIN seq = 1 .. Len(seq) /\ Append(seq, e)[Len(seq) + 1] = e
               /\ \A i \in 1 .. Len(seq) : Append(seq, e)[i] = seq[i]
    OBVIOUS
  <1>3. ASSUME NEW seq \in Seq(S), NEW e \in S, NEW out, StoredBoth(seq, out)
        PROVE  StoredBoth(Append(seq, e), FoldSession(out, e))
    <2> DEFINE tt == All(seq)
               uu == All(Append(seq, e))
    <2>1. uu = FoldSession(tt, e)
      BY FoldOneMore
    <2>2. /\ Paired(tt, out, unfolded, threadIndex) /\ Follows(sessions, tt)
          /\ Orphans(sessions, tt)
          /\ \A x \in DOMAIN tt :
               /\ x \in DOMAIN sessions /\ tt[x].codexIds = sessions[x].codexIds
               /\ IsUntouched(sessions[x]) => tt[x] = sessions[x]
          /\ \A x \in DOMAIN sessions \ DOMAIN tt :
               \E i \in DOMAIN seq : seq[i].op = "session_prune" /\ seq[i].sid = x
      BY <1>3 DEF StoredBoth
    <2> HIDE DEF tt, uu
    <2>3. \A x \in DOMAIN sessions \ DOMAIN tt : IsUntouched(sessions[x])
      BY <2>2 DEF Follows
    <2>4. Lawful(e, tt, out, threadIndex) /\ (NamesThread(e) => e.sid \in DOMAIN tt)
      BY <1>0, <2>2, <2>3, UpkeepLawful
    <2>5. e.op # "parent_set" /\ e.op # "codex_session_seen" /\ Upkeep(e)
      BY DEF Upkeep
    <2>6. Paired(uu, FoldSession(out, e), unfolded, threadIndex) /\ Follows(tt, uu) /\ Orphans(tt, uu)
      BY <2>1, <2>2, <2>4, <2>5, FoldBoth
    <2>7. After(tt, e, uu)
      BY <2>1, <2>2, <2>4, AfterFold DEF Paired, Lawful
    <2>8. \A x : x # e.sid => Kept(tt, uu, x)
      BY <2>7 DEF After
    <2>9. CASE e.op = "session_prune" /\ IsUntouched(sessions[e.sid])
      <3>1. e.sid \notin DOMAIN uu
        BY <2>7, <2>9 DEF After
      <3>2. \A x \in DOMAIN uu : x \in DOMAIN tt /\ uu[x] = tt[x]
        BY <2>8, <3>1 DEF Kept
      <3>3. \A x \in DOMAIN sessions \ DOMAIN uu : x = e.sid \/ x \notin DOMAIN tt
        BY <2>8 DEF Kept
      <3>4. Follows(sessions, uu) /\ Orphans(sessions, uu)
        <4>1. \A x \in DOMAIN sessions \ DOMAIN uu : x \in DOMAIN tt => IsUntouched(sessions[x])
          BY <2>9, <3>3
        <4> QED
          BY <1>0, <2>2, <2>6, <3>2, <4>1, FollowsTwice DEF Paired
      <3>5. ASSUME NEW x \in DOMAIN sessions \ DOMAIN uu
            PROVE  \E i \in DOMAIN Append(seq, e) :
                     Append(seq, e)[i].op = "session_prune" /\ Append(seq, e)[i].sid = x
        <4>1. CASE x = e.sid
          <5>1. Len(seq) + 1 \in DOMAIN Append(seq, e)
            BY <1>s
          <5> QED
            BY <1>s, <2>9, <4>1, <5>1
        <4>2. CASE x # e.sid
          <5>1. PICK i \in DOMAIN seq : seq[i].op = "session_prune" /\ seq[i].sid = x
            BY <2>2, <3>3, <4>2
          <5>2. i \in DOMAIN Append(seq, e) /\ Append(seq, e)[i] = seq[i]
            BY <1>s
          <5> QED
            BY <5>1, <5>2
        <4> QED
          BY <4>1, <4>2
      <3>6. \A x \in DOMAIN uu :
              /\ x \in DOMAIN sessions /\ uu[x].codexIds = sessions[x].codexIds
              /\ IsUntouched(sessions[x]) => uu[x] = sessions[x]
        BY <2>2, <3>2
      <3> QED
        BY <2>6, <3>4, <3>5, <3>6 DEF StoredBoth, uu
    <2>10. CASE /\ e.op = "name_set" /\ NamesThread(e)
                /\ \E t \in sessions[e.sid].codexIds : NameChange(e).value = RowOf(threadIndex, t)
      <3>1. e.sid \in DOMAIN tt /\ e.sid \in DOMAIN uu /\ uu[e.sid].codexIds = tt[e.sid].codexIds
        <4>1. e.sid \in DOMAIN uu /\ IdsOf(uu, e.sid) = IdsOf(tt, e.sid)
          BY <2>7, <2>10 DEF After
        <4> QED
          BY <2>4, <2>10, <4>1 DEF IdsOf
      <3>2. DOMAIN uu = DOMAIN tt
        BY <2>8, <3>1 DEF Kept
      <3>3. ~IsUntouched(sessions[e.sid])
        BY <1>0, <2>5, <2>10, UntouchedIs DEF Upkeep, IdsOf
      <3>4. Follows(sessions, uu) /\ Orphans(sessions, uu)
        BY <1>0, <2>2, <2>6, <3>2, FollowsTwice DEF Paired
      <3>5. \A x \in DOMAIN sessions \ DOMAIN uu :
              \E i \in DOMAIN Append(seq, e) :
                Append(seq, e)[i].op = "session_prune" /\ Append(seq, e)[i].sid = x
        <4>1. \A i \in DOMAIN seq : i \in DOMAIN Append(seq, e) /\ Append(seq, e)[i] = seq[i]
          BY <1>s
        <4> QED
          BY <2>2, <3>2, <4>1
      <3>6. ASSUME NEW x \in DOMAIN uu
            PROVE  /\ x \in DOMAIN sessions /\ uu[x].codexIds = sessions[x].codexIds
                   /\ IsUntouched(sessions[x]) => uu[x] = sessions[x]
        <4>1. CASE x = e.sid
          BY <2>2, <3>1, <3>3, <4>1
        <4>2. CASE x # e.sid
          BY <2>2, <2>8, <4>2 DEF Kept
        <4> QED
          BY <4>1, <4>2
      <3> QED
        BY <2>6, <3>4, <3>5, <3>6 DEF StoredBoth, uu
    <2> QED
      BY <2>5, <2>9, <2>10 DEF Upkeep
  <1>4. ASSUME NEW seq \in Seq(S), NEW e \in S, NEW out, LoggedOnly(seq, out)
        PROVE  LoggedOnly(Append(seq, e), FoldSession(out, e))
    <2> DEFINE ops == unfolded \union OpsOf(seq)
    <2>1. Paired(sessions, out, ops, threadIndex)
      BY <1>4 DEF LoggedOnly
    <2> HIDE DEF ops
    <2>2. Lawful(e, sessions, out, threadIndex)
      BY <1>0, <2>1, UpkeepLawful
    <2>3. Paired(sessions, FoldSession(out, e), ops \union {e.op}, threadIndex)
      BY <2>1, <2>2, FoldLate
    <2>4. OpsOf(Append(seq, e)) = OpsOf(seq) \union {e.op}
      <3>1. \A i \in 1 .. Len(seq) + 1 : i \in 1 .. Len(seq) \/ i = Len(seq) + 1
        BY <1>s
      <3>2. /\ Len(seq) + 1 \in 1 .. Len(seq) + 1
            /\ \A i \in 1 .. Len(seq) : i \in 1 .. Len(seq) + 1
        BY <1>s
      <3> QED
        BY <1>s, <3>1, <3>2 DEF OpsOf
    <2>5. unfolded \union OpsOf(Append(seq, e)) = ops \union {e.op}
      BY <2>4 DEF ops
    <2> QED
      BY <2>3, <2>5 DEF LoggedOnly
  <1> HIDE DEF All
  <1>5. StoredBoth(events, FoldLeft(FoldSession, logged, events))
    <2>1. StoredBoth(events, Storing!FoldLeft(FoldSession, logged, events))
      BY <1>1, <1>3, Storing!FoldKeeps
    <2> QED
      BY <2>1, FoldLeftSame
  <1>6. LoggedOnly(events, FoldLeft(FoldSession, logged, events))
    <2>1. LoggedOnly(events, Logging!FoldLeft(FoldSession, logged, events))
      BY <1>2, <1>4, Logging!FoldKeeps
    <2> QED
      BY <2>1, FoldLeftSame
  <1> QED
    BY <1>5, <1>6

LEMMA UpkeepGood ==
  ASSUME Paired(sessions, logged, unfolded, threadIndex), threadIndex \in Seq(Threads),
         NEW S, \A e \in S : Upkeep(e), NEW events \in Seq(S),
         Stores(events) \/ OnlyLogs(events)
  PROVE  GoodChange
  <1>1. CASE Stores(events)
    BY <1>1, UpkeepIs DEF Stores, StoredBoth, GoodChange
  <1>2. CASE OnlyLogs(events)
    <2>1. LoggedOnly(events, logged')
      BY <1>2, UpkeepIs DEF OnlyLogs
    <2>2. unfolded' = unfolded \union OpsOf(events) /\ sessions' = sessions
      BY <1>2 DEF OnlyLogs, OpsOf
    <2>3. Follows(sessions, sessions) /\ Orphans(sessions, sessions)
      BY NothingFollows DEF Paired
    <2> QED
      BY <2>1, <2>2, <2>3 DEF LoggedOnly, GoodChange
  <1> QED
    BY <1>1, <1>2

-----------------------------------------------------------------------------
\* Codex: observations, and the latest names.

LEMMA SetToSeqFew ==
  /\ SetToSeq({}) = <<>>
  /\ \A e : SetToSeq({e}) = <<e>>
  <1>1. SetToSeq({}) = <<>>
    <2>1. SetToSeq({}) \in Seq({})
      BY SetToSeqIs, FS_EmptySet
    <2> DEFINE q == SetToSeq({})
    <2>2. q \in Seq({}) => q = <<>>
      <3> HIDE DEF q
      <3> QED
        OBVIOUS
    <2> QED
      BY <2>1, <2>2
  <1>2. ASSUME NEW e
        PROVE  SetToSeq({e}) = <<e>>
    <2>1. IsFiniteSet({e}) /\ Cardinality({e}) = 1
      BY FS_Singleton
    <2>2. SetToSeq({e}) = CHOOSE f \in [1 .. 1 -> {e}] : IsInjective(f)
      BY <2>1 DEF SetToSeq
    <2>3. [i \in 1 .. 1 |-> e] \in [1 .. 1 -> {e}] /\ IsInjective([i \in 1 .. 1 |-> e])
      BY DEF IsInjective
    <2>4. SetToSeq({e}) \in [1 .. 1 -> {e}]
      BY <2>2, <2>3
    <2> DEFINE q == SetToSeq({e})
    <2>5. q \in [1 .. 1 -> {e}] => q = <<e>>
      <3> HIDE DEF q
      <3>1. \A i \in 1 .. 1 : i = 1
        OBVIOUS
      <3> QED
        BY <3>1
    <2> QED
      BY <2>4, <2>5
  <1> QED
    BY <1>1, <1>2

\* The events of an observation: the thread, and perhaps its name.
LEMMA ObservationIs ==
  ASSUME NEW thread, NEW sid, NEW name
  PROVE  LET seen == Event("codex_session_seen", sid,
                       [codexId |-> thread, preview |-> Null, created_at |-> Null])
             naming == Event("name_set", sid, CodexNaming(name))
             events == ObservationEvents(thread, sid, name)
         IN  events = <<seen>> \/ events = <<seen, naming>>
  <1> DEFINE seen == Event("codex_session_seen", sid,
                       [codexId |-> thread, preview |-> Null, created_at |-> Null])
             naming == Event("name_set", sid, CodexNaming(name))
             C == CodexNameEvents(FoldSession(sessions, seen)[sid], sid, name)
  <1>1. C = {} \/ C = {naming}
    BY DEF CodexNameEvents
  <1>2. ObservationEvents(thread, sid, name) = <<seen>> \o SetToSeq(C)
    BY DEF ObservationEvents
  <1> HIDE DEF C, seen, naming
  <1>3. SetToSeq(C) = <<>> \/ SetToSeq(C) = <<naming>>
    BY <1>1, SetToSeqFew
  <1>4. <<seen>> \o <<>> = <<seen>> /\ <<seen>> \o <<naming>> = <<seen, naming>>
    BY OneOrTwo
  <1> QED
    BY <1>2, <1>3, <1>4 DEF seen, naming

LEMMA ObservedIs ==
  ASSUME day \in Nat, Paired(sessions, logged, unfolded, threadIndex),
         threadIndex \in Seq(Threads), NEW thread, NEW saved,
         NEW sid \in IF ThreadOwners(thread) # {} THEN ThreadOwners(thread) ELSE NewIds,
         WriteObservation(ObservationEvents(thread, sid, CodexName(thread)), saved)
  PROVE  GoodChange
  <1> DEFINE name == CodexName(thread)
             seen == Event("codex_session_seen", sid,
                       [codexId |-> thread, preview |-> Null, created_at |-> Null])
             naming == Event("name_set", sid, CodexNaming(name))
             events == ObservationEvents(thread, sid, name)
  <1>0. AreSessions(sessions) /\ NamedByIndex(sessions, threadIndex)
    BY DEF Paired
  <1>1. name = RowOf(threadIndex, thread) /\ name \in Nat
    BY RowIs DEF CodexName, RowOf
  <1>2. events = <<seen>> \/ events = <<seen, naming>>
    BY ObservationIs
  <1>3. /\ seen.op = "codex_session_seen" /\ seen.sid = sid /\ seen.p.codexId = thread
        /\ seen.op \in Ops /\ ~NamesThread(seen) /\ IsEvent(seen)
    BY DEF Event, Ops, NamelessOps, NameOps, NamesThread, IsEvent
  <1>4. /\ naming.op = "name_set" /\ naming.sid = sid /\ NameChange(naming).value = name
        /\ naming.op \in Ops /\ IsEvent(naming) /\ SaysName(naming)
    BY <1>1, NullType DEF Event, CodexNaming, NameChange, Ops, NameOps, IsEvent, SaysName
  <1>5. sid \in Sids /\ \/ sid \in DOMAIN sessions /\ thread \in sessions[sid].codexIds
                        \/ /\ sid \notin DOMAIN sessions /\ sid \notin DOMAIN logged
                           /\ \A x \in DOMAIN sessions : thread \notin sessions[x].codexIds
    BY <1>0 DEF ThreadOwners, NewIds, AreSessions
  <1> HIDE DEF name, seen, naming, events
  <1>6. Lawful(seen, sessions, logged, threadIndex)
    BY <1>3, <1>5 DEF Lawful
  <1> DEFINE tt == FoldSession(sessions, seen)
             mm == FoldSession(logged, seen)
             uu == FoldSession(tt, naming)
             nn == FoldSession(mm, naming)
  <1>7. /\ Paired(tt, mm, unfolded, threadIndex) /\ Follows(sessions, tt) /\ Orphans(sessions, tt)
        /\ Paired(sessions, mm, unfolded \union {seen.op}, threadIndex)
    BY <1>3, <1>6, FoldBoth, FoldLate
  <1>8. After(sessions, seen, tt) /\ After(logged, seen, mm)
    BY <1>6, AfterFold DEF Paired, Lawful
  <1> HIDE DEF tt, mm
  <1>9. /\ sid \in DOMAIN tt /\ thread \in tt[sid].codexIds
        /\ sid \in DOMAIN mm /\ thread \in mm[sid].codexIds
        /\ \A x \in DOMAIN sessions : x \in DOMAIN tt
    <2>1. /\ sid \in DOMAIN tt /\ thread \in IdsOf(tt, sid)
          /\ sid \in DOMAIN mm /\ thread \in IdsOf(mm, sid)
          /\ \A x : x # sid => Kept(sessions, tt, x)
      BY <1>3, <1>8 DEF After
    <2> QED
      BY <2>1 DEF IdsOf, Kept
  <1>10. /\ Lawful(naming, tt, mm, threadIndex) /\ naming.sid \in DOMAIN tt
         /\ Lawful(naming, sessions, mm, threadIndex)
    BY <1>1, <1>4, <1>5, <1>9 DEF Lawful
  <1>11. /\ Paired(uu, nn, unfolded, threadIndex) /\ Follows(tt, uu) /\ Orphans(tt, uu)
         /\ Paired(sessions, nn, (unfolded \union {seen.op}) \union {naming.op}, threadIndex)
    BY <1>4, <1>7, <1>10, FoldBoth, FoldLate
  <1>12. Follows(sessions, uu) /\ Orphans(sessions, uu)
    <2>1. After(tt, naming, uu)
      BY <1>7, <1>10, AfterFold DEF Paired, Lawful
    <2> HIDE DEF uu, nn
    <2>2. \A x \in DOMAIN tt : x \in DOMAIN uu
      BY <1>4, <2>1 DEF After, Kept
    <2> QED
      BY <1>0, <1>7, <1>9, <1>11, <2>2, FollowsTwice DEF Paired
  <1> HIDE DEF uu, nn
  <1>13. /\ FoldLeft(FoldSession, sessions, <<seen>>) = tt
         /\ FoldLeft(FoldSession, sessions, <<seen, naming>>) = uu
         /\ FoldLeft(FoldSession, logged, <<seen>>) = mm
         /\ FoldLeft(FoldSession, logged, <<seen, naming>>) = nn
         /\ FoldLeft(FoldSession, logged, <<>>) = logged
    <2>1. ASSUME NEW ss
          PROVE  /\ FoldLeft(FoldSession, ss, <<>>) = ss
                 /\ FoldLeft(FoldSession, ss, <<seen>>) = FoldSession(ss, seen)
                 /\ FoldLeft(FoldSession, ss, <<seen, naming>>)
                      = FoldSession(FoldSession(ss, seen), naming)
      <3>1. FoldLeft(FoldSession, ss, <<>>) = ss
        BY FoldFew
      <3>2. FoldLeft(FoldSession, ss, <<seen>>) = FoldSession(ss, seen)
        BY FoldFew
      <3>3. FoldLeft(FoldSession, ss, <<seen, naming>>)
              = FoldSession(FoldSession(ss, seen), naming)
        <4>0. <<seen>> \in Seq({seen, naming}) /\ naming \in {seen, naming}
          OBVIOUS
        <4>1. FoldLeft(FoldSession, ss, Append(<<seen>>, naming))
                = FoldSession(FoldLeft(FoldSession, ss, <<seen>>), naming)
          BY <4>0, FoldOneMore
        <4>2. Append(<<seen>>, naming) = <<seen, naming>>
          BY OneOrTwo
        <4> QED
          BY <3>2, <4>1, <4>2
      <3> QED
        BY <3>1, <3>2, <3>3
    <2> QED
      BY <2>1 DEF tt, uu, mm, nn
  <1>14. ASSUME Stores(events)
         PROVE  GoodChange
    <2>1. UNCHANGED unfolded /\ \/ sessions' = tt /\ logged' = mm
                                \/ sessions' = uu /\ logged' = nn
      BY <1>2, <1>13, <1>14 DEF Stores
    <2> QED
      BY <1>7, <1>11, <1>12, <2>1 DEF GoodChange
  <1>15. ASSUME NEW n \in 0 .. Len(events), OnlyLogs(SubSeq(events, 1, n))
         PROVE  GoodChange
    <2> DEFINE q == SubSeq(events, 1, n)
    <2>1. q = <<>> \/ q = <<seen>> \/ q = <<seen, naming>>
      <3>1. /\ Len(<<seen>>) = 1 /\ Len(<<seen, naming>>) = 2
            /\ SubSeq(<<seen>>, 1, 0) = <<>> /\ SubSeq(<<seen, naming>>, 1, 0) = <<>>
        OBVIOUS
      <3>2. SubSeq(<<seen>>, 1, 1) = <<seen>>
        BY OneOrTwo
      <3>3. SubSeq(<<seen, naming>>, 1, 1) = <<seen>>
        BY OneOrTwo
      <3>4. SubSeq(<<seen, naming>>, 1, 2) = <<seen, naming>>
        BY OneOrTwo
      <3>5. \/ events = <<seen>> /\ n \in 0 .. 1
            \/ events = <<seen, naming>> /\ n \in 0 .. 2
        BY <1>2, <3>1
      <3> QED
        BY <3>1, <3>2, <3>3, <3>4, <3>5
    <2> HIDE DEF q
    <2>2. /\ sessions' = sessions /\ logged' = FoldLeft(FoldSession, logged, q)
          /\ unfolded' = unfolded \union OpsOf(q)
      BY <1>15 DEF OnlyLogs, OpsOf, q
    <2>3. /\ OpsOf(<<>>) = {} /\ OpsOf(<<seen>>) = {seen.op}
          /\ OpsOf(<<seen, naming>>) = {seen.op} \union {naming.op}
      <3>1. OpsOf(<<>>) = {} /\ OpsOf(<<seen>>) = {seen.op}
        BY DEF OpsOf
      <3>2. OpsOf(<<seen, naming>>) = {seen.op} \union {naming.op}
        BY DEF OpsOf
      <3> QED
        BY <3>1, <3>2
    <2>4. Paired(sessions, logged', unfolded', threadIndex)
      <3>1. CASE q = <<>>
        <4>1. logged' = logged /\ unfolded' = unfolded
          BY <1>13, <2>2, <2>3, <3>1
        <4> QED
          BY <4>1
      <3>2. CASE q = <<seen>>
        BY <1>7, <1>13, <2>2, <2>3, <3>2
      <3>3. CASE q = <<seen, naming>>
        <4>1. unfolded' = (unfolded \union {seen.op}) \union {naming.op} /\ logged' = nn
          BY <1>13, <2>2, <2>3, <3>3
        <4> QED
          BY <1>11, <4>1
      <3> QED
        BY <2>1, <3>1, <3>2, <3>3
    <2> QED
      BY <1>0, <2>2, <2>4, NothingFollows DEF GoodChange
  <1> QED
    BY <1>14, <1>15 DEF WriteObservation, events, name

\* The greatest of the rows of a session's only thread is that thread's row.
LEMMA LatestNameIs ==
  ASSUME threadIndex \in Seq(Threads), OneThread(sessions), NEW x \in DOMAIN sessions
  PROVE  /\ LatestName(sessions[x]) \in Nat
         /\ \/ LatestName(sessions[x]) = 0
            \/ \E t \in sessions[x].codexIds : LatestName(sessions[x]) = RowOf(threadIndex, t)
  <1> DEFINE ids == sessions[x].codexIds
             S == {0} \union {CodexName(t) : t \in ids}
  <1>1. \A t : CodexName(t) = RowOf(threadIndex, t) /\ CodexName(t) \in Nat
    BY RowIs DEF CodexName, RowOf
  <1>2. S \in SUBSET Nat /\ S # {}
    BY <1>1
  <1>3. \A t, u \in ids : t = u
    BY DEF OneThread
  <1>4. \E n \in Nat : \A m \in S : m <= n
    <2>1. CASE ids = {}
      BY <2>1
    <2>2. CASE ids # {}
      <3>1. PICK t \in ids : TRUE
        BY <2>2
      <3>2. \A m \in S : m <= CodexName(t)
        <4>1. \A u \in ids : CodexName(u) = CodexName(t)
          BY <1>3, <3>1
        <4> QED
          BY <1>1, <4>1
      <3> QED
        BY <1>1, <3>2
    <2> QED
      BY <2>1, <2>2
  <1>5. Max(S) \in S
    <2> HIDE DEF S
    <2> QED
      BY <1>2, <1>4, MaxIs
  <1>6. LatestName(sessions[x]) = Max(S)
    BY DEF LatestName
  <1> QED
    BY <1>1, <1>2, <1>5, <1>6

LEMMA SyncIs ==
  ASSUME day \in Nat, Paired(sessions, logged, unfolded, threadIndex),
         threadIndex \in Seq(Threads), SyncCodexNames
  PROVE  GoodChange
  <1> DEFINE Codex == {s \in DOMAIN sessions : sessions[s].source = "codex"}
             Named(x) == Event("name_set", x, CodexNaming(LatestName(sessions[x])))
             f == [x \in Codex |-> Named(x)]
             All == {f[x] : x \in Codex}
             names == UNION {LatestNameEvents(sid) : sid \in Codex}
  <1>0. AreSessions(sessions) /\ OneThread(sessions)
    BY DEF Paired
  <1>1. names \subseteq All
    BY DEF LatestNameEvents, CodexNameEvents
  <1>2. IsFiniteSet(names)
    <2>1. Codex \in SUBSET Sids
      BY <1>0 DEF AreSessions
    <2>2. IsFiniteSet(Codex)
      BY <2>1, SidsType, FS_Subset
    <2>3. IsFiniteSet(All)
      <3> HIDE DEF f, Codex
      <3> QED
        BY <2>2, ImageIsFinite
    <2> QED
      BY <1>1, <2>3, FS_Subset
  <1>3. \A e \in names : \E x \in DOMAIN sessions : e = Named(x) /\ LatestName(sessions[x]) # 0
    BY DEF LatestNameEvents, CodexNameEvents
  <1>4. \/ Stores(SetToSeq(names))
        \/ \E some \in SUBSET names : OnlyLogs(SetToSeq(some))
    BY DEF SyncCodexNames
  <1> HIDE DEF Named, All, f, names
  <1>5. ASSUME NEW e \in names
        PROVE  Upkeep(e)
    <2>1. PICK x \in DOMAIN sessions : e = Named(x) /\ LatestName(sessions[x]) # 0
      BY <1>3
    <2>2. PICK t \in sessions[x].codexIds : LatestName(sessions[x]) = RowOf(threadIndex, t)
      BY <1>0, <2>1, LatestNameIs
    <2>3. LatestName(sessions[x]) \in Nat
      BY <1>0, LatestNameIs
    <2>4. /\ e.op = "name_set" /\ e.sid = x /\ NameChange(e).value = LatestName(sessions[x])
          /\ IsEvent(e) /\ NamesThread(e)
      BY <2>1 DEF Named, Event, CodexNaming, NameChange, NameOps, NamesThread, Threaded, IsEvent
    <2>5. SaysName(e)
      BY <2>1, <2>3, <2>4, NullType DEF Named, Event, CodexNaming, SaysName, NameOps
    <2> QED
      BY <2>2, <2>4, <2>5 DEF Upkeep
  <1>6. SetToSeq(names) \in Seq(names)
    BY <1>2, SetToSeqIs
  <1>7. \A some \in SUBSET names : SetToSeq(some) \in Seq(some)
    BY <1>2, FS_Subset, SetToSeqIs
  <1>8. CASE Stores(SetToSeq(names))
    BY <1>5, <1>6, <1>8, UpkeepGood
  <1>9. ASSUME NEW some \in SUBSET names, OnlyLogs(SetToSeq(some))
        PROVE  GoodChange
    <2>1. (\A e \in some : Upkeep(e)) /\ SetToSeq(some) \in Seq(some)
      BY <1>5, <1>7
    <2> QED
      BY <1>9, <2>1, UpkeepGood
  <1> QED
    BY <1>4, <1>8, <1>9

-----------------------------------------------------------------------------
\* Prune.

LEMMA PruneIs ==
  ASSUME day \in Nat, Paired(sessions, logged, unfolded, threadIndex),
         threadIndex \in Seq(Threads), NEW p, PruneLocked(p)
  PROVE  /\ GoodChange
         /\ \A x \in DOMAIN sessions' : x \in DOMAIN sessions
         /\ \A x \in DOMAIN sessions \ DOMAIN sessions' : x \in PruneCandidates(call[p].scan)
  <1>1. PICK pruned \in SUBSET PruneCandidates(call[p].scan) :
          LET tombstones == SetToSeq({Event("session_prune", sid, Null) : sid \in pruned}) IN
          Stores(tombstones) \/ OnlyLogs(tombstones)
    BY DEF PruneLocked, PruneRest
  <1> DEFINE f == [sid \in pruned |-> Event("session_prune", sid, Null)]
             events == {f[sid] : sid \in pruned}
             plan == SetToSeq(events)
  <1>2. pruned \in SUBSET DOMAIN sessions /\ \A x \in pruned : IsUntouched(sessions[x])
    BY DEF PruneCandidates, IsGhost
  <1>3. IsFiniteSet(events)
    <2>1. pruned \in SUBSET Sids
      BY <1>2 DEF Paired, AreSessions
    <2>2. IsFiniteSet(pruned)
      BY <2>1, SidsType, FS_Subset
    <2> HIDE DEF f
    <2> QED
      BY <2>2, ImageIsFinite
  <1>4. \A e \in events : e.op = "session_prune" /\ e.sid \in pruned /\ Upkeep(e)
    <2>1. \A x \in pruned : f[x].op = "session_prune" /\ f[x].sid = x /\ f[x].ts \in Nat
      BY DEF Event
    <2>2. \A x \in pruned : IsEvent(f[x])
      BY <2>1 DEF IsEvent
    <2> HIDE DEF f
    <2> QED
      BY <1>2, <2>1, <2>2 DEF Upkeep
  <1>5. Stores(plan) \/ OnlyLogs(plan)
    <2>1. events = {Event("session_prune", sid, Null) : sid \in pruned}
      OBVIOUS
    <2> HIDE DEF events
    <2> QED
      BY <1>1, <2>1
  <1> HIDE DEF events, f
  <1>6. plan \in Seq(events)
    BY <1>3, SetToSeqIs
  <1> HIDE DEF plan
  <1>7. GoodChange
    BY <1>4, <1>5, <1>6, UpkeepGood
  <1>8. CASE OnlyLogs(plan)
    BY <1>7, <1>8 DEF OnlyLogs
  <1>9. CASE Stores(plan)
    <2>1. sessions' = FoldLeft(FoldSession, sessions, plan)
      BY <1>9 DEF Stores
    <2>2. StoredBoth(plan, FoldLeft(FoldSession, logged, plan))
      BY <1>4, <1>6, UpkeepIs
    <2>3. /\ \A x \in DOMAIN sessions' : x \in DOMAIN sessions
          /\ \A x \in DOMAIN sessions \ DOMAIN sessions' : \E i \in DOMAIN plan : plan[i].sid = x
      BY <2>1, <2>2 DEF StoredBoth
    <2>4. \A i \in DOMAIN plan : plan[i] \in events
      BY <1>6
    <2> QED
      BY <1>4, <1>7, <2>3, <2>4
  <1> QED
    BY <1>5, <1>8, <1>9

-----------------------------------------------------------------------------
\* What a harvest plans.

\* Two events name the same channel or see the same merge request.
SameTarget(d, e) ==
  /\ d.op = e.op
  /\ IF d.op = "name_set" THEN d.p.channel = e.p.channel ELSE PrKey(d) = PrKey(e)
LinksOf(plan) == {e \in ToSet(plan) : e.op = "pr_link_seen"}
Keys(plan) == {PrKey(e) : e \in LinksOf(plan)}
\* The merge requests of a record when the plan has been carried out.
Linked(plan, s) == DOMAIN s.prs \union Keys(plan)

\* The event will change the record, unless the caps forbid it.
Suits(e, s, sid) ==
  /\ e.sid = sid /\ e.op \in {"name_set", "pr_link_seen"} /\ e.ts \in Nat
  /\ IF e.op = "name_set"
     THEN /\ e.p.value # Junk
          /\ e.p.channel \in DOMAIN s.names => ~IsSameNaming(s.names[e.p.channel], e.p)
     ELSE /\ e.p.observed_at \in Nat
          /\ PrKey(e) \in DOMAIN s.prs => PrLinkAgain(s.prs[PrKey(e)], e) # s.prs[PrKey(e)]

\* So do all of the plan, however far it has been carried out: each has its own
\* target, and there is room for the merge requests.
Fits(plan, s, sid) ==
  /\ plan \in Seq(ToSet(plan))
  /\ \A i, j \in DOMAIN plan : SameTarget(plan[i], plan[j]) => i = j
  /\ \A e \in ToSet(plan) : Suits(e, s, sid)
  /\ Cardinality(Linked(plan, s)) <= MaxPrLinks

\* A name, or a merge request seen at some time, is in the record, will be, or
\* there is no room for it.
NameHeld(s, c) ==
  IF c.channel \in DOMAIN s.names THEN IsSameNaming(s.names[c.channel], c)
  ELSE NameValue(s, c.channel) = c.value \/ Cardinality(DOMAIN s.names) = MaxChannels
LinkHeld(plan, s, key, at) ==
  \/ key \in DOMAIN s.prs /\ s.prs[key].first_seen_at <= at
  \/ \E e \in LinksOf(plan) : PrKey(e) = key /\ e.p.observed_at <= at
  \/ key \notin Linked(plan, s) /\ Cardinality(Linked(plan, s)) = MaxPrLinks

\* So is everything the tail of the transcript says.
KeyOf(record) == [repository |-> "r1", number |-> record.value]
Covers(plan, s, names, records) ==
  /\ \A e \in ToSet(plan) : e.op = "name_set" => e.p \in names
  /\ \A c \in names :
       NameHeld(s, c) \/ \E e \in ToSet(plan) : e.op = "name_set" /\ e.p = c
  /\ \A i \in DOMAIN records :
       records[i].type = "pr-link" => LinkHeld(plan, s, KeyOf(records[i]), records[i].at)

LEMMA ToSetAppend ==
  ASSUME NEW S, NEW q \in Seq(S), NEW e
  PROVE  /\ ToSet(Append(q, e)) = ToSet(q) \union {e}
         /\ Append(q, e) \in Seq(S \union {e})
         /\ DOMAIN Append(q, e) = 1 .. Len(q) + 1 /\ DOMAIN q = 1 .. Len(q) /\ Len(q) \in Nat
         /\ Append(q, e)[Len(q) + 1] = e
         /\ \A i \in 1 .. Len(q) : Append(q, e)[i] = q[i]
  <1>1. /\ DOMAIN Append(q, e) = 1 .. Len(q) + 1 /\ DOMAIN q = 1 .. Len(q) /\ Len(q) \in Nat
        /\ Append(q, e)[Len(q) + 1] = e
        /\ \A i \in 1 .. Len(q) : Append(q, e)[i] = q[i]
        /\ Append(q, e) \in Seq(S \union {e})
    OBVIOUS
  <1>2. \A i \in 1 .. Len(q) + 1 : i \in 1 .. Len(q) \/ i = Len(q) + 1
    BY <1>1
  <1>3. Len(q) + 1 \in 1 .. Len(q) + 1 /\ \A i \in 1 .. Len(q) : i \in 1 .. Len(q) + 1
    BY <1>1
  <1>4. ToSet(Append(q, e)) = ToSet(q) \union {e}
    BY <1>1, <1>2, <1>3 DEF ToSet
  <1> QED
    BY <1>1, <1>4

LEMMA KeysAreFinite ==
  ASSUME NEW plan, plan \in Seq(ToSet(plan)), NEW s, IsRecord(s)
  PROVE  /\ IsFiniteSet(Keys(plan)) /\ IsFiniteSet(Linked(plan, s))
         /\ Cardinality(Linked(plan, s)) \in Nat
         /\ IsFiniteSet(DOMAIN s.prs) /\ Cardinality(DOMAIN s.prs) \in Nat
         /\ Cardinality(DOMAIN s.prs) <= Cardinality(Linked(plan, s))
  <1> DEFINE f == [i \in 1 .. Len(plan) |-> plan[i]]
             g == [e \in LinksOf(plan) |-> PrKey(e)]
  <1>1. Len(plan) \in Nat /\ DOMAIN plan = 1 .. Len(plan)
    OBVIOUS
  <1>2. IsFiniteSet(1 .. Len(plan))
    BY <1>1, FS_Interval
  <1>3. ToSet(plan) = {f[i] : i \in 1 .. Len(plan)}
    BY <1>1 DEF ToSet
  <1>4. IsFiniteSet(ToSet(plan))
    <2> HIDE DEF f
    <2> QED
      BY <1>2, <1>3, ImageIsFinite
  <1>5. IsFiniteSet(LinksOf(plan))
    BY <1>4, FS_Subset DEF LinksOf
  <1>6. Keys(plan) = {g[e] : e \in LinksOf(plan)}
    BY DEF Keys
  <1>7. IsFiniteSet(Keys(plan))
    <2> HIDE DEF g
    <2> QED
      BY <1>5, <1>6, ImageIsFinite
  <1>8. IsFiniteSet(DOMAIN s.prs)
    BY DEF IsRecord, IsMap
  <1>9. IsFiniteSet(Linked(plan, s))
    BY <1>7, <1>8, FS_Union DEF Linked
  <1>10. DOMAIN s.prs \in SUBSET Linked(plan, s)
    BY DEF Linked
  <1> QED
    BY <1>7, <1>8, <1>9, <1>10, FS_CardinalityType, FS_Subset

\* The tail window: some of the records, in the order of their times.
LEMMA WindowIs ==
  ASSUME AreTranscripts(transcript), NEW sid \in Sids
  PROVE  LET w == Window(sid) IN
         /\ w \in Seq(ToSet(transcript[sid].records))
         /\ \A i, j \in DOMAIN w : w[i].at \in Nat /\ (i <= j => w[i].at <= w[j].at)
         /\ ~HasTranscript(sid) => w = <<>>
  <1> DEFINE r == transcript[sid].records
             S == ToSet(r)
             from == Max({0, Len(r) - TailRecords}) + 1
             n == Len(r)
  <1>1. /\ r \in Seq(S) /\ n \in Nat /\ DOMAIN r = 1 .. n
        /\ \A i \in 1 .. n : r[i].at = i - 1
        /\ ~HasTranscript(sid) => n = 0
    <2>1. r \in Seq(S) /\ (~HasTranscript(sid) => r = <<>>) /\ \A i \in DOMAIN r : r[i].at = i - 1
      BY DEF AreTranscripts, HasTranscript
    <2> HIDE DEF r, S
    <2>2. n \in Nat /\ DOMAIN r = 1 .. n /\ (r = <<>> => n = 0)
      BY <2>1
    <2> QED
      BY <2>1, <2>2
  <1>2. Window(sid) = SubSeq(r, from, n)
    BY DEF Window
  <1>3. from \in Nat \ {0}
    <2> DEFINE d == Len(r) - TailRecords
    <2>1. d \in Int
      BY <1>1, BoundsType
    <2>2. Max({0, d}) \in Nat
      <3> HIDE DEF d
      <3>1. \E m \in {0, d} : \A k \in {0, d} : m >= k
        BY <2>1
      <3>2. Max({0, d}) \in {0, d} /\ Max({0, d}) >= 0
        BY <3>1 DEF Max
      <3> QED
        BY <2>1, <3>2
    <2> HIDE DEF d
    <2>3. \A k \in Nat : k + 1 \in Nat \ {0}
      OBVIOUS
    <2> QED
      BY <2>2, <2>3 DEF d
  <1> HIDE DEF r, S, from, n
  <1>4. \A i \in from .. n : r[i] \in S
    BY <1>1, <1>3
  <1>5. from \in Int /\ n \in Int
    BY <1>1, <1>3
  <1> DEFINE w == SubSeq(r, from, n)
  <1>6. /\ w \in Seq(S)
        /\ Len(w) = IF from <= n THEN n - from + 1 ELSE 0
        /\ \A i \in 1 .. n - from + 1 : w[i] = r[from + i - 1]
    BY <1>4, <1>5, SubSeqProperties
  <1> HIDE DEF w
  <1>7. DOMAIN w = 1 .. Len(w)
    BY <1>6
  <1>8. \A i \in DOMAIN w : i \in Nat \ {0} /\ w[i].at = from + i - 2 /\ from + i - 2 \in Nat
    <2> SUFFICES ASSUME NEW i \in DOMAIN w
                 PROVE  i \in Nat \ {0} /\ w[i].at = from + i - 2 /\ from + i - 2 \in Nat
      OBVIOUS
    <2>1. from <= n /\ i \in 1 .. n - from + 1
      BY <1>1, <1>3, <1>6, <1>7
    <2>2. from + i - 1 \in 1 .. n /\ (from + i - 1) - 1 = from + i - 2 /\ i \in Nat \ {0}
      BY <1>1, <1>3, <2>1
    <2> QED
      BY <1>1, <1>3, <1>6, <2>1, <2>2
  <1>9. \A i, j \in DOMAIN w : w[i].at \in Nat /\ (i <= j => w[i].at <= w[j].at)
    BY <1>3, <1>8
  <1>10. ~HasTranscript(sid) => w = <<>>
    <2>1. ~HasTranscript(sid) => Len(w) = 0
      BY <1>1, <1>3, <1>6
    <2> QED
      BY <1>6, <2>1
  <1> QED
    BY <1>2, <1>6, <1>9, <1>10 DEF w, S, r

\* The merge requests of some records: finitely many, each once, not later than
\* any record of it.
LinkKey(link) == [repository |-> link.repository, number |-> link.number]
LEMMA HarvestedLinksAre ==
  ASSUME NEW S, NEW w \in Seq(S),
         \A i, j \in DOMAIN w : w[i].at \in Nat /\ (i <= j => w[i].at <= w[j].at)
  PROVE  LET found == HarvestedLinks(w) IN
         /\ IsFiniteSet(found) /\ \A l \in found : l.observed_at \in Nat
         /\ \A l, m \in found : LinkKey(l) = LinkKey(m) => l = m
         /\ \A i \in DOMAIN w : w[i].type = "pr-link" =>
              \E l \in found : LinkKey(l) = KeyOf(w[i]) /\ l.observed_at <= w[i].at
  <1> DEFINE links == {i \in DOMAIN w : w[i].type = "pr-link"}
             Of(v) == {j \in links : w[j].value = v}
             Link(v) == [repository |-> "r1", number |-> v,
                         url |-> w[Max(Of(v))].url, observed_at |-> w[Min(Of(v))].at]
             f == [i \in links |-> Link(w[i].value)]
             found == HarvestedLinks(w)
  <1>0. DOMAIN w = 1 .. Len(w) /\ Len(w) \in Nat
    OBVIOUS
  <1>1. found = {f[i] : i \in links}
    BY DEF HarvestedLinks
  <1>2. IsFiniteSet(links)
    <2>1. 1 \in Int /\ Len(w) \in Int
      BY <1>0
    <2>2. IsFiniteSet(1 .. Len(w))
      BY <2>1, FS_Interval
    <2>3. links \in SUBSET (1 .. Len(w))
      BY <1>0
    <2> QED
      BY <2>2, <2>3, FS_Subset
  <1>3. \A i \in links : f[i] = Link(w[i].value) /\ w[i].type = "pr-link" /\ i \in DOMAIN w
    OBVIOUS
  <1>4. ASSUME NEW i \in links
        PROVE  /\ w[Min(Of(w[i].value))].at \in Nat
               /\ w[Min(Of(w[i].value))].at <= w[i].at
    <2> DEFINE O == Of(w[i].value)
    <2>1. i \in O /\ O \in SUBSET Nat /\ O \subseteq DOMAIN w
      BY <1>0
    <2> HIDE DEF O
    <2>2. PICK m \in O : \A n \in O : m <= n
      BY <2>1, Storing!LeastOfNats
    <2>3. Min(O) \in O /\ \A n \in O : Min(O) <= n
      BY <2>2 DEF Min
    <2>4. Min(O) \in DOMAIN w /\ i \in DOMAIN w /\ Min(O) <= i
      BY <2>1, <2>3
    <2>5. w[Min(O)].at \in Nat /\ w[Min(O)].at <= w[i].at
      BY <2>4
    <2> QED
      BY <2>5 DEF O
  <1>5. IsFiniteSet(found)
    <2> HIDE DEF f, links
    <2> QED
      BY <1>1, <1>2, ImageIsFinite
  <1>6. \A v : /\ LinkKey(Link(v)) = [repository |-> "r1", number |-> v]
               /\ Link(v).number = v /\ Link(v).observed_at = w[Min(Of(v))].at
    BY DEF LinkKey
  <1>k. \A u, v : [repository |-> "r1", number |-> u] = [repository |-> "r1", number |-> v] => u = v
    <2> SUFFICES ASSUME NEW u, NEW v,
                        [repository |-> "r1", number |-> u] = [repository |-> "r1", number |-> v]
                 PROVE  u = v
      OBVIOUS
    <2>1. [repository |-> "r1", number |-> u].number = [repository |-> "r1", number |-> v].number
      OBVIOUS
    <2> QED
      BY <2>1
  <1> HIDE DEF Link, Of, f
  <1>7. \A i \in links : f[i].observed_at \in Nat /\ f[i].observed_at <= w[i].at
                         /\ LinkKey(f[i]) = KeyOf(w[i])
    BY <1>3, <1>4, <1>6 DEF KeyOf
  <1>8. \A i, j \in links : LinkKey(f[i]) = LinkKey(f[j]) => f[i] = f[j]
    BY <1>3, <1>6, <1>k
  <1>9. \A i \in DOMAIN w : w[i].type = "pr-link" => i \in links
    OBVIOUS
  <1> HIDE DEF found, links
  <1>10. /\ \A l \in found : l.observed_at \in Nat
         /\ \A l, m \in found : LinkKey(l) = LinkKey(m) => l = m
    BY <1>1, <1>7, <1>8
  <1>11. \A i \in DOMAIN w : w[i].type = "pr-link" =>
           \E l \in found : LinkKey(l) = KeyOf(w[i]) /\ l.observed_at <= w[i].at
    BY <1>1, <1>7, <1>9
  <1> QED
    BY <1>5, <1>10, <1>11 DEF found

\* What has been planned for the links seen so far, and the copy of the record
\* that they have changed.
LinkEvent(sid, link) == Event("pr_link_seen", sid, link)
LinksFit(s, sid, seen, acc) ==
  /\ acc = [s |-> acc.s, plan |-> acc.plan, event |-> LinkEvent(sid, Null)]
  /\ \A e \in ToSet(acc.plan) : \E link \in ToSet(seen) : e = LinkEvent(sid, link)
  /\ IsRecord(acc.s) /\ DOMAIN acc.s.prs = Linked(acc.plan, s)
  /\ \A key \in DOMAIN s.prs \ Keys(acc.plan) : acc.s.prs[key] = s.prs[key]
  /\ Fits(acc.plan, s, sid)
  /\ \A link \in ToSet(seen) : LinkHeld(acc.plan, s, LinkKey(link), link.observed_at)

\* What the reducer makes of a link.
LEMMA LinkIs ==
  ASSUME NEW prs, IsMap(prs, MaxPrLinks), NEW e
  PROVE  LET after == ApplyPrLink(prs, e)
             key == PrKey(e)
         IN  /\ \A k \in DOMAIN prs \ {key} : after[k] = prs[k]
             /\ key \in DOMAIN prs =>
                  /\ DOMAIN after = DOMAIN prs /\ after[key] = PrLinkAgain(prs[key], e)
                  /\ after = prs <=> PrLinkAgain(prs[key], e) = prs[key]
             /\ key \notin DOMAIN prs /\ Cardinality(DOMAIN prs) >= MaxPrLinks => after = prs
             /\ key \notin DOMAIN prs /\ ~(Cardinality(DOMAIN prs) >= MaxPrLinks) =>
                  /\ DOMAIN after = DOMAIN prs \union {key} /\ after[key] = PrLink(e)
                  /\ after # prs
  <1> DEFINE after == ApplyPrLink(prs, e)
             key == PrKey(e)
  <1>0. prs = [k \in DOMAIN prs |-> prs[k]]
    BY DEF IsMap
  <1>1. CASE key \in DOMAIN prs
    <2> DEFINE link == PrLinkAgain(prs[key], e)
    <2>1. after = [prs EXCEPT ![key] = link]
      BY <1>1 DEF ApplyPrLink
    <2> HIDE DEF link, after, key
    <2>2. /\ DOMAIN after = DOMAIN prs /\ after[key] = link
          /\ \A k \in DOMAIN prs \ {key} : after[k] = prs[k]
          /\ after = prs <=> link = prs[key]
      BY <1>0, <1>1, <2>1
    <2> QED
      BY <1>1, <2>2 DEF link, after, key
  <1>2. CASE key \notin DOMAIN prs /\ Cardinality(DOMAIN prs) >= MaxPrLinks
    BY <1>2 DEF ApplyPrLink
  <1>3. CASE key \notin DOMAIN prs /\ ~(Cardinality(DOMAIN prs) >= MaxPrLinks)
    <2> DEFINE link == PrLink(e)
    <2>1. after = Put(prs, key, link)
      BY <1>3 DEF ApplyPrLink
    <2> HIDE DEF link, after, key
    <2>2. /\ DOMAIN after = DOMAIN prs \union {key} /\ after[key] = link
          /\ \A k \in DOMAIN prs \ {key} : after[k] = prs[k]
          /\ after # prs
      BY <1>3, <2>1 DEF Put
    <2> QED
      BY <1>3, <2>2 DEF link, after, key
  <1> QED
    BY <1>1, <1>2, <1>3

\* Seeing a link again never makes its first sighting later.
LEMMA SightingIs ==
  ASSUME NEW link, link.first_seen_at \in Nat, NEW e, e.p.observed_at \in Nat
  PROVE  LET at == PrLinkAgain(link, e).first_seen_at IN
         at \in Nat /\ at <= link.first_seen_at /\ at <= e.p.observed_at
  <1>1. PrLinkAgain(link, e).first_seen_at = Earlier(link.first_seen_at, e.p.observed_at)
    BY DEF PrLinkAgain
  <1> DEFINE a == link.first_seen_at
             b == e.p.observed_at
  <1>2. a \in Nat /\ b \in Nat /\ b # Null
    BY NullType
  <1> HIDE DEF a, b
  <1>3. LET at == Earlier(a, b) IN at \in Nat /\ at <= a /\ at <= b
    BY <1>2 DEF Earlier
  <1> QED
    BY <1>1, <1>3 DEF a, b

\* One more link is planned, or is found to be no change.
LEMMA PlanLinkFits ==
  ASSUME day \in Nat, NEW s, IsRecord(s), NEW sid, NEW found, \A l \in found : l.observed_at \in Nat,
         \A l, m \in found : LinkKey(l) = LinkKey(m) => l = m,
         NEW seen \in Seq(found), NEW link \in found, link \notin ToSet(seen),
         NEW acc, LinksFit(s, sid, seen, acc)
  PROVE  LinksFit(s, sid, Append(seen, link), PlanLink(acc, link))
  <1> DEFINE e == LinkEvent(sid, link)
             key == LinkKey(link)
             plan == acc.plan
             old == acc.s.prs
             next == ReducePrLinkSeen(acc.s, e)
             more == Append(plan, e)
             S == ToSet(plan)
  <1>1. /\ e.op = "pr_link_seen" /\ e.sid = sid /\ e.p = link /\ PrKey(e) = key
        /\ e.p.observed_at \in Nat /\ e.ts \in Nat
    BY DEF LinkEvent, Event, PrKey, LinkKey
  <1>2. IsRecord(acc.s) /\ IsRecord(next) /\ next.prs = ApplyPrLink(old, e)
    <2>1. IsRecord(acc.s)
      BY DEF LinksFit
    <2>2. acc.s = [f \in SessionFields |-> acc.s[f]] /\ IsEvent(e)
      BY <1>1, <2>1, FieldsAre DEF IsRecord, IsEvent
    <2>3. next.prs = ApplyPrLink(old, e)
      BY <2>2 DEF ReducePrLinkSeen, SessionFields
    <2>4. Reduce(acc.s, e) = next
      BY <1>1 DEF Reduce
    <2>5. e.op \in NamelessOps \ {"session_prune"}
      BY <1>1 DEF NamelessOps
    <2> HIDE DEF e, next
    <2>6. Effect(acc.s, e, next)
      BY <2>1, <2>2, <2>4, <2>5, NamelessEffect
    <2> QED
      BY <2>1, <2>3, <2>6 DEF Effect
  <1>3. PlanLink(acc, link) = IF next.prs = old THEN acc
                              ELSE [acc EXCEPT !.s = next, !.plan = more]
    <2>1. e = [acc.event EXCEPT !.p = link]
      BY DEF LinksFit, LinkEvent, Event
    <2> QED
      BY <2>1 DEF PlanLink
  <1>4. /\ plan \in Seq(S) /\ DOMAIN old = DOMAIN s.prs \union Keys(plan)
        /\ \A k \in DOMAIN s.prs \ Keys(plan) : old[k] = s.prs[k]
        /\ Fits(plan, s, sid)
        /\ \A l \in ToSet(seen) : LinkHeld(plan, s, LinkKey(l), l.observed_at)
        /\ ToSet(Append(seen, link)) = ToSet(seen) \union {link}
        /\ \A l \in ToSet(seen) : l \in found
        /\ \A d \in S : \E l \in ToSet(seen) : d = LinkEvent(sid, l)
    BY ToSetAppend, SeqOfItself DEF LinksFit, Fits, Linked
  <1>5. key \notin Keys(plan)
    <2> SUFFICES ASSUME NEW d \in S, PrKey(d) = key
                 PROVE  FALSE
      BY DEF Keys, LinksOf
    <2>1. PICK l \in ToSet(seen) : d = LinkEvent(sid, l)
      BY <1>4
    <2>2. LinkKey(l) = key
      BY <2>1 DEF LinkEvent, Event, PrKey, LinkKey
    <2> QED
      BY <1>4, <2>1, <2>2
  <1>6. /\ key \in DOMAIN s.prs <=> key \in DOMAIN old
        /\ key \in DOMAIN old => old[key] = s.prs[key] /\ old[key].first_seen_at \in Nat
    BY <1>2, <1>4, <1>5 DEF IsRecord
  <1>7. /\ Cardinality(DOMAIN old) \in Nat /\ Cardinality(DOMAIN old) <= MaxPrLinks
        /\ IsMap(old, MaxPrLinks) /\ Linked(plan, s) = DOMAIN old
    BY <1>2, <1>4, FS_CardinalityType DEF IsRecord, IsMap, Linked
  <1> HIDE DEF e, key, next
  <1>8. CASE next.prs = old
    <2>1. LinkHeld(plan, s, key, link.observed_at)
      <3>1. CASE key \in DOMAIN old
        <4>1. PrLinkAgain(old[key], e) = old[key]
          BY <1>1, <1>2, <1>7, <1>8, <3>1, LinkIs, ZenonT(40)
        <4>2. s.prs[key].first_seen_at <= link.observed_at
          BY <1>1, <1>6, <3>1, <4>1, SightingIs
        <4> QED
          BY <1>6, <3>1, <4>2 DEF LinkHeld
      <3>2. CASE key \notin DOMAIN old
        <4>1. Cardinality(DOMAIN old) >= MaxPrLinks
          BY <1>1, <1>2, <1>7, <1>8, <3>2, LinkIs
        <4>2. Cardinality(DOMAIN old) = MaxPrLinks
          BY <1>7, <4>1, CapsType
        <4> QED
          BY <1>7, <3>2, <4>2 DEF LinkHeld
      <3> QED
        BY <3>1, <3>2
    <2>2. PlanLink(acc, link) = acc
      BY <1>3, <1>8
    <2>3. \A l \in ToSet(Append(seen, link)) : LinkHeld(plan, s, LinkKey(l), l.observed_at)
      BY <1>4, <2>1 DEF key
    <2> QED
      BY <1>4, <2>2, <2>3 DEF LinksFit
  <1>9. CASE next.prs # old
    <2> DEFINE new == PlanLink(acc, link)
    <2>1. /\ new = [s |-> next, plan |-> more, event |-> LinkEvent(sid, Null)]
          /\ new.s = next /\ new.plan = more
      <3>1. /\ acc = [s |-> acc.s, plan |-> plan, event |-> LinkEvent(sid, Null)]
            /\ new = [acc EXCEPT !.s = next, !.plan = more]
        BY <1>3, <1>9 DEF LinksFit
      <3> HIDE DEF new, more, plan
      <3>2. acc = [f \in {"s", "plan", "event"} |-> acc[f]] /\ acc.event = LinkEvent(sid, Null)
        BY <3>1
      <3>3. new = [s |-> next, plan |-> more, event |-> LinkEvent(sid, Null)]
        BY <3>1, <3>2
      <3> QED
        BY <3>3
    <2> HIDE DEF new
    <2>2. /\ ToSet(more) = S \union {e} /\ more \in Seq(S \union {e})
          /\ DOMAIN more = 1 .. Len(plan) + 1 /\ DOMAIN plan = 1 .. Len(plan) /\ Len(plan) \in Nat
          /\ more[Len(plan) + 1] = e /\ \A i \in 1 .. Len(plan) : more[i] = plan[i]
      <3>1. plan \in Seq(S) /\ S = ToSet(plan)
        BY <1>4
      <3> HIDE DEF S, plan, more
      <3>2. /\ Append(plan, e) \in Seq(S \union {e})
            /\ DOMAIN Append(plan, e) = 1 .. Len(plan) + 1 /\ DOMAIN plan = 1 .. Len(plan)
            /\ Len(plan) \in Nat /\ Append(plan, e)[Len(plan) + 1] = e
            /\ \A i \in 1 .. Len(plan) : Append(plan, e)[i] = plan[i]
        BY <3>1, ToSetAppend
      <3>3. /\ \A i \in 1 .. Len(plan) + 1 : i \in 1 .. Len(plan) \/ i = Len(plan) + 1
            /\ Len(plan) + 1 \in 1 .. Len(plan) + 1
            /\ \A i \in 1 .. Len(plan) : i \in 1 .. Len(plan) + 1
        BY <3>2
      <3>4. ToSet(Append(plan, e)) = ToSet(plan) \union {e}
        BY <3>2, <3>3 DEF ToSet
      <3> QED
        BY <3>1, <3>2, <3>4 DEF more
    <2> HIDE DEF more
    <2>3. LinksOf(more) = LinksOf(plan) \union {e} /\ Keys(more) = Keys(plan) \union {key}
      <3>1. LinksOf(more) = LinksOf(plan) \union {e}
        BY <1>1, <2>2 DEF LinksOf
      <3> QED
        BY <1>1, <3>1 DEF Keys
    <2>4. /\ DOMAIN next.prs = DOMAIN old \union {key}
          /\ \A k \in DOMAIN old \ {key} : next.prs[k] = old[k]
          /\ key \in DOMAIN old => PrLinkAgain(old[key], e) # old[key]
          /\ key \notin DOMAIN old => ~(Cardinality(DOMAIN old) >= MaxPrLinks)
      <3> DEFINE after == next.prs
      <3>1. IsMap(old, MaxPrLinks) /\ after = ApplyPrLink(old, e) /\ after # old /\ PrKey(e) = key
        BY <1>1, <1>2, <1>7, <1>9
      <3> HIDE DEF after, old
      <3>2. /\ \A k \in DOMAIN old \ {key} : after[k] = old[k]
            /\ key \in DOMAIN old => DOMAIN after = DOMAIN old /\ PrLinkAgain(old[key], e) # old[key]
            /\ key \notin DOMAIN old =>
                 ~(Cardinality(DOMAIN old) >= MaxPrLinks) /\ DOMAIN after = DOMAIN old \union {key}
        BY <3>1, LinkIs
      <3> QED
        BY <3>2 DEF after
    <2>5. Linked(more, s) = DOMAIN next.prs
      BY <1>4, <2>3, <2>4 DEF Linked
    <2>6. Fits(more, s, sid)
      <3>1. more \in Seq(ToSet(more))
        BY <2>2
      <3>2. \A i, j \in DOMAIN more : SameTarget(more[i], more[j]) => i = j
        <4>1. \A i \in DOMAIN plan : plan[i] \in S
          BY DEF ToSet
        <4>2. \A d \in S : ~SameTarget(d, e) /\ ~SameTarget(e, d)
          <5>1. \A d \in S : d.op = "pr_link_seen" => PrKey(d) \in Keys(plan)
            BY DEF Keys, LinksOf
          <5> QED
            BY <1>1, <1>5, <5>1 DEF SameTarget
        <4>3. \A i, j \in DOMAIN plan : SameTarget(plan[i], plan[j]) => i = j
          BY <1>4 DEF Fits
        <4>4. \A i \in DOMAIN more : i \in DOMAIN plan \/ i = Len(plan) + 1
          BY <2>2
        <4> QED
          BY <2>2, <4>1, <4>2, <4>3, <4>4
      <3>3. Suits(e, s, sid)
        BY <1>1, <1>6, <2>4 DEF Suits
      <3>4. \A d \in ToSet(more) : Suits(d, s, sid)
        BY <1>4, <2>2, <3>3 DEF Fits
      <3>5. Cardinality(Linked(more, s)) <= MaxPrLinks
        BY <1>2, <2>5 DEF IsRecord, IsMap
      <3> QED
        BY <3>1, <3>2, <3>4, <3>5 DEF Fits
    <2>7. ASSUME NEW l \in ToSet(seen)
          PROVE  LinkHeld(more, s, LinkKey(l), l.observed_at)
      <3> DEFINE k == LinkKey(l)
                 at == l.observed_at
      <3>1. LinkHeld(plan, s, k, at)
        BY <1>4
      <3> HIDE DEF k, at
      <3>2. CASE k \notin Linked(plan, s) /\ Cardinality(Linked(plan, s)) = MaxPrLinks
        <4>1. key \in DOMAIN old
          BY <1>7, <2>4, <3>2, CapsType
        <4>2. Linked(more, s) = Linked(plan, s)
          BY <1>7, <2>4, <2>5, <4>1
        <4> QED
          BY <3>2, <4>2 DEF LinkHeld, k, at
      <3>3. CASE k \in DOMAIN s.prs /\ s.prs[k].first_seen_at <= at
        BY <3>3 DEF LinkHeld, k, at
      <3>4. CASE \E d \in LinksOf(plan) : PrKey(d) = k /\ d.p.observed_at <= at
        BY <2>3, <3>4 DEF LinkHeld, k, at
      <3> QED
        BY <3>1, <3>2, <3>3, <3>4 DEF LinkHeld
    <2>8. LinkHeld(more, s, key, link.observed_at)
      <3>1. e \in LinksOf(more) /\ PrKey(e) = key /\ e.p.observed_at <= link.observed_at
        BY <1>1, <2>3
      <3> QED
        BY <3>1 DEF LinkHeld
    <2>9. \A k \in DOMAIN s.prs \ Keys(more) : next.prs[k] = s.prs[k]
      BY <1>4, <2>3, <2>4
    <2>10. \A d \in ToSet(more) : \E l \in ToSet(Append(seen, link)) : d = LinkEvent(sid, l)
      BY <1>4, <2>2 DEF e
    <2>11. \A l \in ToSet(Append(seen, link)) : LinkHeld(more, s, LinkKey(l), l.observed_at)
      BY <1>4, <2>7, <2>8 DEF key
    <2>12. LinksFit(s, sid, Append(seen, link), new)
      BY <1>2, <2>1, <2>5, <2>6, <2>9, <2>10, <2>11 DEF LinksFit
    <2> QED
      BY <2>12 DEF new
  <1> QED
    BY <1>8, <1>9

Linking == INSTANCE Folding WITH Op <- PlanLink, Rel <- LAMBDA links, acc : TRUE

LEMMA PlanLinksAre ==
  ASSUME day \in Nat, NEW s, IsRecord(s), NEW sid, NEW found, IsFiniteSet(found),
         \A l \in found : l.observed_at \in Nat,
         \A l, m \in found : LinkKey(l) = LinkKey(m) => l = m
  PROVE  LinksFit(s, sid, SetToSeq(found),
           FoldLeft(PlanLink,
             [s |-> s, plan |-> <<>>, event |-> Event("pr_link_seen", sid, Null)],
             SetToSeq(found)))
  <1> DEFINE base == [s |-> s, plan |-> <<>>, event |-> Event("pr_link_seen", sid, Null)]
             Once(q) == \A i, j \in DOMAIN q : q[i] = q[j] => i = j
             All(q) == FoldLeft(PlanLink, base, q)
             T == {q \in Seq(found) : Once(q) => LinksFit(s, sid, q, All(q))}
  <1>0. \A q : All(q) = Linking!FoldLeft(PlanLink, base, q)
    BY DEF FoldLeft, Linking!FoldLeft, MapThenFoldSet, Linking!MapThenFoldSet, Max, Linking!Max
  <1>1. LinksFit(s, sid, <<>>, base)
    <2>1. ToSet(<<>>) = {} /\ <<>> \in Seq(ToSet(<<>>)) /\ DOMAIN <<>> = {}
      BY DEF ToSet
    <2>2. Keys(<<>>) = {} /\ LinksOf(<<>>) = {}
      BY <2>1 DEF Keys, LinksOf
    <2>3. Linked(<<>>, s) = DOMAIN s.prs
      BY <2>2 DEF Linked
    <2>4. Cardinality(Linked(<<>>, s)) <= MaxPrLinks
      BY <2>3 DEF IsRecord, IsMap
    <2>5. Fits(<<>>, s, sid)
      BY <2>1, <2>4 DEF Fits
    <2>6. base = [s |-> s, plan |-> <<>>, event |-> LinkEvent(sid, Null)]
          /\ base.s = s /\ base.plan = <<>>
      BY DEF LinkEvent
    <2> HIDE DEF base
    <2> QED
      BY <2>1, <2>2, <2>3, <2>5, <2>6 DEF LinksFit
  <1> HIDE DEF base, All
  <1>2. <<>> \in T
    <2>1. All(<<>>) = base
      BY <1>0, Linking!FoldEmpty
    <2> QED
      BY <1>1, <2>1
  <1>3. ASSUME NEW q \in Seq(found), NEW link \in found, q \in T
        PROVE  Append(q, link) \in T
    <2> DEFINE more == Append(q, link)
    <2>1. more \in Seq(found)
      OBVIOUS
    <2>2. All(more) = PlanLink(All(q), link)
      BY <1>0, Linking!FoldAppend
    <2>3. ASSUME Once(more)
          PROVE  LinksFit(s, sid, more, All(more))
      <3>1. /\ DOMAIN more = 1 .. Len(q) + 1 /\ DOMAIN q = 1 .. Len(q) /\ Len(q) \in Nat
            /\ more[Len(q) + 1] = link /\ \A i \in 1 .. Len(q) : more[i] = q[i]
        BY ToSetAppend
      <3> HIDE DEF more
      <3>2. Once(q)
        BY <2>3, <3>1
      <3>3. link \notin ToSet(q)
        <4> SUFFICES ASSUME NEW i \in DOMAIN q, q[i] = link
                     PROVE  FALSE
          BY DEF ToSet
        <4>1. i \in DOMAIN more /\ Len(q) + 1 \in DOMAIN more /\ i # Len(q) + 1
          BY <3>1
        <4> QED
          BY <2>3, <3>1, <4>1
      <3>4. LinksFit(s, sid, q, All(q))
        BY <1>3, <3>2
      <3>5. LinksFit(s, sid, more, PlanLink(All(q), link))
        BY <3>3, <3>4, PlanLinkFits DEF more
      <3> QED
        BY <2>2, <3>5
    <2> QED
      BY <2>1, <2>3
  <1> HIDE DEF T
  <1>4. \A q \in Seq(found) : q \in T
    BY <1>2, <1>3, Storing!EverySequence
  <1>5. SetToSeq(found) \in Seq(found) /\ Once(SetToSeq(found))
    BY SetToSeqOnce
  <1>6. LinksFit(s, sid, SetToSeq(found), All(SetToSeq(found)))
    <2> DEFINE q == SetToSeq(found)
    <2> HIDE DEF q
    <2>1. q \in T
      BY <1>4, <1>5 DEF q
    <2> QED
      BY <1>5, <2>1 DEF T, q
  <1> QED
    BY <1>6 DEF All, base

-----------------------------------------------------------------------------
\* The plan of a harvest.

\* The record that the next event of a session will be folded into.
RecordOf(ss, sid) == IF sid \in DOMAIN ss THEN ss[sid] ELSE EmptySession(0)

\* A plan sees no more of a record than its names, its merge requests and the
\* fields that stood for names before there were entries.
ReadAlike(s, t) ==
  /\ t.names = s.names /\ t.prs = s.prs
  /\ t.alias = s.alias /\ t.ai_title = s.ai_title /\ t.preview = s.preview
LEMMA PlansReadAlike ==
  ASSUME NEW s, NEW t, ReadAlike(s, t), NEW plan, NEW sid
  PROVE  /\ Fits(plan, s, sid) => Fits(plan, t, sid)
         /\ \A names, records : Covers(plan, s, names, records) => Covers(plan, t, names, records)
  <1>1. /\ \A e : Suits(e, s, sid) => Suits(e, t, sid)
        /\ Linked(plan, s) = Linked(plan, t)
    BY DEF ReadAlike, Suits, Linked
  <1>2. Fits(plan, s, sid) => Fits(plan, t, sid)
    BY <1>1 DEF Fits
  <1>3. \A c : NameHeld(s, c) => NameHeld(t, c)
    <2> SUFFICES ASSUME NEW c
                 PROVE  NameHeld(s, c) => NameHeld(t, c)
      OBVIOUS
    <2>1. NameValue(s, c.channel) = NameValue(t, c.channel)
      BY DEF ReadAlike, NameValue
    <2> QED
      BY <2>1 DEF ReadAlike, NameHeld
  <1>4. \A key, at : LinkHeld(plan, s, key, at) => LinkHeld(plan, t, key, at)
    BY <1>1 DEF ReadAlike, LinkHeld
  <1>5. ASSUME NEW names, NEW records, Covers(plan, s, names, records)
        PROVE  Covers(plan, t, names, records)
    BY <1>3, <1>4, <1>5 DEF Covers
  <1> QED
    BY <1>2, <1>5

LEMMA RecordIs ==
  ASSUME NEW ss, AreSessions(ss), NEW sid
  PROVE  /\ IsRecord(RecordOf(ss, sid))
         /\ \A e : e.sid = sid /\ e.ts \in Nat =>
              IsRecord(SessionOrNew(ss, e)) /\ ReadAlike(RecordOf(ss, sid), SessionOrNew(ss, e))
         /\ \A ts : ReadAlike(EmptySession(0), EmptySession(ts))
  <1>1. \A ts : ReadAlike(EmptySession(0), EmptySession(ts))
    BY DEF ReadAlike, EmptySession
  <1>2. \A s : ReadAlike(s, s)
    BY DEF ReadAlike
  <1> QED
    BY <1>1, <1>2, NewRecord DEF AreSessions, RecordOf, SessionOrNew

\* One name of each kind, none of a transcript that says nothing.
LEMMA CandidatesAre ==
  ASSUME NEW sid
  PROVE  /\ IsFiniteSet(Candidates(sid))
         /\ \A c, d \in Candidates(sid) : c.channel = d.channel => c = d
         /\ \A c \in Candidates(sid) :
              /\ c.channel \in {"cc_ai_title", "cc_custom_title", "agent_name"}
              /\ c.value # Junk /\ c.value # Null
         /\ Window(sid) = <<>> => Candidates(sid) = {}
  <1> DEFINE w == Window(sid)
             a == Latest(w, "ai-title")
             b == Latest(w, "custom-title")
             c == Latest(w, "agent-name")
             A == [channel |-> "cc_ai_title", value |-> a, source |-> "llm"]
             B == [channel |-> "cc_custom_title", value |-> b, source |-> SourceOfTitle(b)]
             C == [channel |-> "agent_name", value |-> c, source |-> "harvest"]
             all == {A, B, C}
  <1>1. Candidates(sid) = {x \in all : IsGoodName(x.value)}
    BY DEF Candidates
  <1>2. w = <<>> => a = Null /\ b = Null /\ c = Null
    BY DEF Latest
  <1> HIDE DEF w, a, b, c
  <1>3. IsFiniteSet(all)
    <2> HIDE DEF A, B, C
    <2>1. IsFiniteSet({A}) /\ IsFiniteSet({B}) /\ IsFiniteSet({C})
      BY FS_Singleton
    <2>2. IsFiniteSet({A} \union {B} \union {C})
      BY <2>1, FS_Union
    <2> QED
      BY <2>2
  <1>4. /\ A.channel = "cc_ai_title" /\ B.channel = "cc_custom_title" /\ C.channel = "agent_name"
        /\ A.value = a /\ B.value = b /\ C.value = c
    OBVIOUS
  <1> HIDE DEF A, B, C
  <1>5. IsFiniteSet(Candidates(sid))
    BY <1>1, <1>3, FS_Subset
  <1> QED
    BY <1>1, <1>2, <1>4, <1>5 DEF IsGoodName, w

\* The names that are logged are news, the others are known.
LEMMA PlanNamesAre ==
  ASSUME day \in Nat, NEW s, NEW sid
  PROVE  LET plan == PlanNames(sid, s) IN
         /\ plan \in Seq(ToSet(plan))
         /\ \A e \in ToSet(plan) :
              e.op = "name_set" /\ e.p \in Candidates(sid) /\ Suits(e, s, sid)
         /\ \A i, j \in DOMAIN plan : SameTarget(plan[i], plan[j]) => i = j
         /\ \A c \in Candidates(sid) :
              NameHeld(s, c) \/ \E e \in ToSet(plan) : e.op = "name_set" /\ e.p = c
  <1> DEFINE fresh == {x \in Candidates(sid) : ~AlreadyNamed(s, x)}
             f == [c \in fresh |-> Event("name_set", sid, c)]
             events == {f[c] : c \in fresh}
             plan == PlanNames(sid, s)
  <1>1. \A c \in fresh : /\ f[c].op = "name_set" /\ f[c].sid = sid /\ f[c].p = c /\ f[c].ts \in Nat
                         /\ c \in Candidates(sid) /\ ~AlreadyNamed(s, c)
    BY DEF Event
  <1>2. IsFiniteSet(events)
    <2>1. IsFiniteSet(fresh)
      BY CandidatesAre, FS_Subset
    <2> HIDE DEF fresh, f
    <2> QED
      BY <2>1, ImageIsFinite
  <1>3. plan = SetToSeq(events)
    <2>1. events = {Event("name_set", sid, c) : c \in fresh}
      OBVIOUS
    <2> HIDE DEF events
    <2> QED
      BY <2>1 DEF PlanNames
  <1>4. \A c \in Candidates(sid) : c \in fresh \/ AlreadyNamed(s, c)
    OBVIOUS
  <1> HIDE DEF fresh, f, plan
  <1>5. /\ plan \in Seq(events) /\ ToSet(plan) = events
        /\ \A i, j \in DOMAIN plan : plan[i] = plan[j] => i = j
    <2> HIDE DEF events
    <2> QED
      BY <1>2, <1>3, SetToSeqOnce
  <1>6. \A e \in events : \E c \in fresh : e = f[c]
    OBVIOUS
  <1>7. \A i \in DOMAIN plan : plan[i] \in events
    BY <1>5 DEF ToSet
  <1>8. \A d, e \in events : SameTarget(d, e) => d = e
    BY <1>1, <1>6, CandidatesAre DEF SameTarget
  <1>9. \A e \in events : e.op = "name_set" /\ e.p \in Candidates(sid) /\ Suits(e, s, sid)
    <2> SUFFICES ASSUME NEW c \in fresh
                 PROVE  Suits(f[c], s, sid) /\ f[c].op = "name_set" /\ f[c].p \in Candidates(sid)
      BY <1>6
    <2>1. c.value # Junk
      BY <1>1, CandidatesAre
    <2>2. c.channel \in DOMAIN s.names => ~IsSameNaming(s.names[c.channel], c)
      BY <1>1 DEF AlreadyNamed, CurrentNameValue, IsSameNaming
    <2> QED
      BY <1>1, <2>1, <2>2 DEF Suits
  <1>10. ASSUME NEW c \in Candidates(sid)
         PROVE  NameHeld(s, c) \/ \E e \in events : e.op = "name_set" /\ e.p = c
    <2>1. CASE c \in fresh
      BY <1>1, <2>1
    <2>2. CASE AlreadyNamed(s, c)
      <3>1. /\ c.channel \in {"cc_ai_title", "cc_custom_title", "agent_name"}
            /\ c.value # Null
        BY CandidatesAre
      <3>2. CASE c.channel \in DOMAIN s.names
        BY <2>2, <3>2 DEF AlreadyNamed, CurrentNameValue, IsSameNaming, NameHeld
      <3>3. CASE c.channel \notin DOMAIN s.names
        <4>1. c.channel = "cc_ai_title" /\ Cleaned(s.ai_title) = c.value
          BY <2>2, <3>1, <3>3 DEF AlreadyNamed, CurrentNameValue
        <4>2. NameValue(s, c.channel) = c.value
          BY <3>3, <4>1 DEF NameValue
        <4> QED
          BY <3>3, <4>2 DEF NameHeld
      <3> QED
        BY <3>2, <3>3
    <2> QED
      BY <1>4, <2>1, <2>2
  <1> HIDE DEF events
  <1>11. plan \in Seq(ToSet(plan))
    BY <1>5
  <1>12. \A i, j \in DOMAIN plan : SameTarget(plan[i], plan[j]) => i = j
    BY <1>5, <1>7, <1>8
  <1> QED
    BY <1>5, <1>9, <1>10, <1>11, <1>12 DEF plan

\* No plan suits every record.
LEMMA NothingFits ==
  ASSUME NEW s, IsRecord(s), NEW sid
  PROVE  /\ Fits(<<>>, s, sid) /\ ToSet(<<>>) = {} /\ LinksOf(<<>>) = {}
         /\ Linked(<<>>, s) = DOMAIN s.prs
  <1>1. ToSet(<<>>) = {} /\ <<>> \in Seq(ToSet(<<>>)) /\ DOMAIN <<>> = {}
    BY DEF ToSet
  <1>2. LinksOf(<<>>) = {} /\ Keys(<<>>) = {}
    BY <1>1 DEF Keys, LinksOf
  <1>3. Linked(<<>>, s) = DOMAIN s.prs
    BY <1>2 DEF Linked
  <1>4. Cardinality(Linked(<<>>, s)) <= MaxPrLinks
    BY <1>3 DEF IsRecord, IsMap
  <1> QED
    BY <1>1, <1>2, <1>3, <1>4 DEF Fits

\* So it is with the merge requests.
LEMMA PlanLinksFit ==
  ASSUME day \in Nat, NEW s, IsRecord(s), NEW sid, NEW S, Window(sid) \in Seq(S),
         \A i, j \in DOMAIN Window(sid) :
           /\ Window(sid)[i].at \in Nat
           /\ i <= j => Window(sid)[i].at <= Window(sid)[j].at
  PROVE  LET plan == PlanLinks(sid, s) IN
         /\ Fits(plan, s, sid) /\ \A e \in ToSet(plan) : e.op = "pr_link_seen"
         /\ \A i \in DOMAIN Window(sid) : Window(sid)[i].type = "pr-link" =>
              LinkHeld(plan, s, KeyOf(Window(sid)[i]), Window(sid)[i].at)
  <1> DEFINE w == Window(sid)
             found == HarvestedLinks(w)
             plan == PlanLinks(sid, s)
  <1>1. /\ w \in Seq(S)
        /\ \A i, j \in DOMAIN w : w[i].at \in Nat /\ (i <= j => w[i].at <= w[j].at)
    OBVIOUS
  <1>2. plan = FoldLeft(PlanLink,
                 [s |-> s, plan |-> <<>>, event |-> Event("pr_link_seen", sid, Null)],
                 SetToSeq(found)).plan
    BY DEF PlanLinks
  <1> HIDE DEF w, plan
  <1>3. /\ IsFiniteSet(found) /\ \A l \in found : l.observed_at \in Nat
        /\ \A l, m \in found : LinkKey(l) = LinkKey(m) => l = m
        /\ \A i \in DOMAIN w : w[i].type = "pr-link" =>
             \E l \in found : LinkKey(l) = KeyOf(w[i]) /\ l.observed_at <= w[i].at
    BY <1>1, HarvestedLinksAre
  <1> HIDE DEF found
  <1>4. PICK acc : LinksFit(s, sid, SetToSeq(found), acc) /\ acc.plan = plan
    BY <1>2, <1>3, PlanLinksAre
  <1>5. ToSet(SetToSeq(found)) = found
    BY <1>3, SetToSeqOnce
  <1>6. /\ Fits(plan, s, sid)
        /\ \A e \in ToSet(plan) : \E link : e = LinkEvent(sid, link)
        /\ \A l \in found : LinkHeld(plan, s, LinkKey(l), l.observed_at)
    BY <1>4, <1>5 DEF LinksFit
  <1>7. \A e \in ToSet(plan) : e.op = "pr_link_seen"
    BY <1>6 DEF LinkEvent, Event
  <1>8. ASSUME NEW i \in DOMAIN w, w[i].type = "pr-link"
        PROVE  LinkHeld(plan, s, KeyOf(w[i]), w[i].at)
    <2>1. PICK l \in found : LinkKey(l) = KeyOf(w[i]) /\ l.observed_at <= w[i].at
      BY <1>3, <1>8
    <2>2. w[i].at \in Nat /\ l.observed_at \in Nat
      BY <1>1, <1>3
    <2>3. LinkHeld(plan, s, KeyOf(w[i]), l.observed_at)
      BY <1>6, <2>1
    <2>4. \A key \in DOMAIN s.prs : s.prs[key].first_seen_at \in Nat
      BY DEF IsRecord
    <2>5. \A e \in LinksOf(plan) : e.p.observed_at \in Nat
      BY <1>6 DEF Fits, Suits, LinksOf
    <2> DEFINE at == w[i].at
               early == l.observed_at
    <2> HIDE DEF at, early
    <2>6. /\ \A key \in DOMAIN s.prs :
               s.prs[key].first_seen_at <= early => s.prs[key].first_seen_at <= at
          /\ \A e \in LinksOf(plan) : e.p.observed_at <= early => e.p.observed_at <= at
      BY <2>1, <2>2, <2>4, <2>5 DEF at, early
    <2> QED
      BY <2>3, <2>6 DEF LinkHeld, at, early
  <1> QED
    BY <1>6, <1>7, <1>8 DEF plan, w

LEMMA Joined ==
  ASSUME NEW a, a \in Seq(ToSet(a)), NEW b, b \in Seq(ToSet(b))
  PROVE  /\ a \o b \in Seq(ToSet(a \o b)) /\ ToSet(a \o b) = ToSet(a) \union ToSet(b)
         /\ \A i \in DOMAIN (a \o b) :
              \/ i \in DOMAIN a /\ (a \o b)[i] = a[i]
              \/ i - Len(a) \in DOMAIN b /\ (a \o b)[i] = b[i - Len(a)] /\ i \in Nat
         /\ Len(a) \in Nat
  <1> DEFINE S == ToSet(a)
             T == ToSet(b)
             q == a \o b
  <1>1. a \in Seq(S) /\ b \in Seq(T)
    OBVIOUS
  <1> HIDE DEF S, T
  <1>2. a \in Seq(S \union T) /\ b \in Seq(S \union T)
    BY <1>1
  <1>3. /\ Len(a) \in Nat /\ Len(b) \in Nat /\ DOMAIN a = 1 .. Len(a) /\ DOMAIN b = 1 .. Len(b)
        /\ q \in Seq(S \union T) /\ Len(q) = Len(a) + Len(b) /\ DOMAIN q = 1 .. Len(a) + Len(b)
        /\ \A i \in 1 .. Len(a) + Len(b) : q[i] = IF i <= Len(a) THEN a[i] ELSE b[i - Len(a)]
    BY <1>2, ConcatProperties
  <1> HIDE DEF q
  <1>4. \A i \in DOMAIN q :
          \/ i \in DOMAIN a /\ q[i] = a[i]
          \/ i - Len(a) \in DOMAIN b /\ q[i] = b[i - Len(a)] /\ i \in Nat
    BY <1>3
  <1>5. /\ \A i \in DOMAIN a : i \in DOMAIN q /\ q[i] = a[i]
        /\ \A j \in DOMAIN b : Len(a) + j \in DOMAIN q /\ q[Len(a) + j] = b[j]
    BY <1>3
  <1>6. ToSet(q) = ToSet(a) \union ToSet(b)
    BY <1>4, <1>5 DEF ToSet
  <1>7. q \in Seq(ToSet(q))
    BY <1>3, SeqOfItself
  <1> QED
    BY <1>3, <1>4, <1>6, <1>7 DEF q

LEMMA HarvestPlanFits ==
  ASSUME day \in Nat, AreSessions(sessions), AreTranscripts(transcript),
         NEW sid \in DOMAIN sessions
  PROVE  /\ Fits(HarvestPlan(sid), RecordOf(sessions, sid), sid)
         /\ Covers(HarvestPlan(sid), RecordOf(sessions, sid), Candidates(sid), Window(sid))
  <1> DEFINE s == sessions[sid]
             a == PlanNames(sid, s)
             b == PlanLinks(sid, s)
             w == Window(sid)
             plan == HarvestPlan(sid)
  <1>1. IsRecord(s) /\ RecordOf(sessions, sid) = s /\ sid \in Sids
    BY DEF RecordOf, AreSessions
  <1>2. plan = IF HasTranscript(sid) THEN a \o b ELSE <<>>
    BY DEF HarvestPlan
  <1>3. /\ w \in Seq(ToSet(transcript[sid].records))
        /\ \A i, j \in DOMAIN w : w[i].at \in Nat /\ (i <= j => w[i].at <= w[j].at)
        /\ ~HasTranscript(sid) => w = <<>>
    BY <1>1, WindowIs
  <1> HIDE DEF s, plan
  <1>4. /\ Fits(b, s, sid) /\ \A e \in ToSet(b) : e.op = "pr_link_seen"
        /\ \A i \in DOMAIN w : w[i].type = "pr-link" => LinkHeld(b, s, KeyOf(w[i]), w[i].at)
    BY <1>1, <1>3, PlanLinksFit
  <1>5. /\ a \in Seq(ToSet(a))
        /\ \A e \in ToSet(a) : e.op = "name_set" /\ e.p \in Candidates(sid) /\ Suits(e, s, sid)
        /\ \A i, j \in DOMAIN a : SameTarget(a[i], a[j]) => i = j
        /\ \A c \in Candidates(sid) :
             NameHeld(s, c) \/ \E e \in ToSet(a) : e.op = "name_set" /\ e.p = c
    BY PlanNamesAre
  <1> HIDE DEF a, b, w
  <1>6. CASE HasTranscript(sid)
    <2>1. /\ b \in Seq(ToSet(b)) /\ \A e \in ToSet(b) : Suits(e, s, sid)
          /\ \A i, j \in DOMAIN b : SameTarget(b[i], b[j]) => i = j
          /\ Cardinality(Linked(b, s)) <= MaxPrLinks
      BY <1>4 DEF Fits
    <2>2. /\ plan \in Seq(ToSet(plan)) /\ ToSet(plan) = ToSet(a) \union ToSet(b)
          /\ \A i \in DOMAIN plan :
               \/ i \in DOMAIN a /\ plan[i] = a[i]
               \/ i - Len(a) \in DOMAIN b /\ plan[i] = b[i - Len(a)] /\ i \in Nat
          /\ Len(a) \in Nat
      BY <1>2, <1>5, <1>6, <2>1, Joined
    <2>3. LinksOf(plan) = LinksOf(b)
      BY <1>4, <1>5, <2>2 DEF LinksOf
    <2>4. Linked(plan, s) = Linked(b, s)
      BY <2>3 DEF Linked, Keys
    <2>5. ASSUME NEW i \in DOMAIN plan, NEW j \in DOMAIN plan, SameTarget(plan[i], plan[j])
          PROVE  i = j
      <3>1. /\ \A k \in DOMAIN a : a[k] \in ToSet(a)
            /\ \A k \in DOMAIN b : b[k] \in ToSet(b)
        BY DEF ToSet
      <3>2. plan[i].op = plan[j].op
        BY <2>5 DEF SameTarget
      <3>3. \/ i \in DOMAIN a /\ j \in DOMAIN a /\ plan[i] = a[i] /\ plan[j] = a[j]
            \/ /\ i - Len(a) \in DOMAIN b /\ j - Len(a) \in DOMAIN b /\ i \in Nat /\ j \in Nat
               /\ plan[i] = b[i - Len(a)] /\ plan[j] = b[j - Len(a)]
        BY <1>4, <1>5, <2>2, <3>1, <3>2
      <3>4. i = j \/ (i \in Nat /\ j \in Nat /\ i - Len(a) = j - Len(a))
        BY <1>5, <2>1, <2>5, <3>3
      <3> QED
        BY <2>2, <3>4
    <2>6. Fits(plan, s, sid)
      BY <1>5, <2>1, <2>2, <2>4, <2>5 DEF Fits
    <2>7. Covers(plan, s, Candidates(sid), w)
      <3>1. \A key, at : LinkHeld(b, s, key, at) => LinkHeld(plan, s, key, at)
        BY <2>3, <2>4 DEF LinkHeld
      <3> QED
        BY <1>4, <1>5, <2>2, <3>1 DEF Covers
    <2> QED
      BY <1>1, <2>6, <2>7 DEF plan, w
  <1>7. CASE ~HasTranscript(sid)
    <2>1. plan = <<>> /\ w = <<>> /\ Candidates(sid) = {}
      BY <1>2, <1>3, <1>7, CandidatesAre DEF w
    <2>2. Fits(<<>>, s, sid) /\ ToSet(<<>>) = {}
      BY <1>1, NothingFits
    <2>3. Covers(plan, s, Candidates(sid), w)
      BY <2>1, <2>2 DEF Covers
    <2> QED
      BY <1>1, <2>1, <2>2, <2>3 DEF plan, w
  <1> QED
    BY <1>6, <1>7

\* So it may wait to be committed, and nothing in it sets a parent.
LEMMA HarvestPlanIs ==
  ASSUME day \in Nat, AreSessions(sessions), AreTranscripts(transcript), NEW sid \in Sids
  PROVE  /\ IsPlan(HarvestPlan(sid))
         /\ \A e \in ToSet(HarvestPlan(sid)) : e.op # "parent_set"
  <1> DEFINE plan == HarvestPlan(sid)
             Harvested(e) == /\ e.sid = sid /\ e.op \in {"name_set", "pr_link_seen"}
                             /\ e.ts \in Nat
                             /\ e.op # "name_set" => e.p.observed_at \in Nat
                             /\ e.op = "name_set" => e.p.channel # Threaded
  <1>1. ASSUME sid \in DOMAIN sessions
        PROVE  plan \in Seq(ToSet(plan)) /\ \A e \in ToSet(plan) : Harvested(e)
    <2> DEFINE s == RecordOf(sessions, sid)
    <2>1. Fits(plan, s, sid) /\ Covers(plan, s, Candidates(sid), Window(sid))
      BY <1>1, HarvestPlanFits
    <2> HIDE DEF plan, s
    <2>2. \A e \in ToSet(plan) : Harvested(e)
      BY <2>1, CandidatesAre DEF Fits, Suits, Covers, Threaded
    <2>3. plan \in Seq(ToSet(plan))
      BY <2>1 DEF Fits
    <2> QED
      BY <2>2, <2>3
  <1>2. ASSUME sid \notin DOMAIN sessions, HasTranscript(sid)
        PROVE  plan \in Seq(ToSet(plan)) /\ \A e \in ToSet(plan) : Harvested(e)
    <2> DEFINE a == PlanNames(sid, EmptySession(day))
               b == EveryLink(sid)
               w == Window(sid)
               links == HarvestedLinks(w)
               f == [link \in links |-> Event("pr_link_seen", sid, link)]
               events == {f[link] : link \in links}
    <2>1. plan = a \o b
      BY <1>2 DEF HarvestPlan
    <2>2. /\ a \in Seq(ToSet(a))
          /\ \A e \in ToSet(a) : e.op = "name_set" /\ e.p \in Candidates(sid)
                                 /\ Suits(e, EmptySession(day), sid)
      BY PlanNamesAre
    <2>3. \A e \in ToSet(a) : Harvested(e)
      BY <2>2, CandidatesAre DEF Suits, Threaded
    <2>4. /\ w \in Seq(ToSet(transcript[sid].records))
          /\ \A i, j \in DOMAIN w : w[i].at \in Nat /\ (i <= j => w[i].at <= w[j].at)
      BY WindowIs
    <2> HIDE DEF a, w
    <2>5. IsFiniteSet(links) /\ \A link \in links : link.observed_at \in Nat
      BY <2>4, HarvestedLinksAre
    <2>6. b = SetToSeq(events)
      <3>1. events = {Event("pr_link_seen", sid, link) : link \in links}
        OBVIOUS
      <3> HIDE DEF events
      <3> QED
        BY <3>1 DEF EveryLink, w
    <2> HIDE DEF links
    <2>7. \A e \in events : e.sid = sid /\ e.op = "pr_link_seen" /\ e.ts \in Nat
                           /\ e.p.observed_at \in Nat
      BY <2>5 DEF Event
    <2>8. \A e \in events : Harvested(e)
      <3> HIDE DEF events
      <3> QED
        BY <2>7
    <2>9. IsFiniteSet(events)
      <3> HIDE DEF f
      <3> QED
        BY <2>5, ImageIsFinite
    <2> HIDE DEF events, b, plan
    <2>10. b \in Seq(events)
      BY <2>6, <2>9, SetToSeqIs
    <2>11. b \in Seq(ToSet(b)) /\ ToSet(b) \subseteq events
      BY <2>10, SeqOfItself
    <2>12. plan \in Seq(ToSet(plan)) /\ ToSet(plan) = ToSet(a) \union ToSet(b)
      BY <2>1, <2>2, <2>11, Joined
    <2> HIDE DEF Harvested
    <2> QED
      BY <2>3, <2>8, <2>11, <2>12
  <1>3. ASSUME ~HasTranscript(sid)
        PROVE  plan \in Seq(ToSet(plan)) /\ \A e \in ToSet(plan) : Harvested(e)
    <2>1. plan = <<>>
      BY <1>3 DEF HarvestPlan
    <2> QED
      BY <2>1, ShortPlans DEF IsPlan
  <1> HIDE DEF plan
  <1>4. plan \in Seq(ToSet(plan)) /\ \A e \in ToSet(plan) : Harvested(e)
    BY <1>1, <1>2, <1>3
  <1>5. \A e \in ToSet(plan) : Planned(e)
    BY <1>4 DEF Planned, NamesThread, NameChange, NameOps, NamelessOps, Ops, IsEvent
  <1> QED
    BY <1>4, <1>5 DEF IsPlan, plan

-----------------------------------------------------------------------------
\* A plan is carried out.

\* What the event e of a harvest makes of the record s.
Seen(s, e, t) ==
  /\ IsRecord(t) /\ t.preview = s.preview
  /\ e.op = "name_set" =>
       /\ t.names = ApplyName(s.names, NameChange(e)) /\ t.prs = s.prs
       /\ t.ai_title = s.ai_title \/ e.p.channel = "cc_ai_title"
       /\ t.alias = s.alias \/ e.p.channel = "alias"
  /\ e.op = "pr_link_seen" =>
       /\ t.prs = ApplyPrLink(s.prs, e) /\ t.names = s.names
       /\ t.ai_title = s.ai_title /\ t.alias = s.alias

LEMMA SeenEffect ==
  ASSUME NEW s, IsRecord(s), NEW e, NEW u, NEW sid, Suits(e, u, sid)
  PROVE  Seen(s, e, RefreshDerivedNames(Bump(Reduce(s, e), e)))
  <1> DEFINE r == Reduce(s, e)
             b == Bump(r, e)
             t == RefreshDerivedNames(b)
  <1>0. /\ s = [f \in SessionFields |-> s[f]] /\ IsEvent(e) /\ e.op \in Ops \ {"session_prune"}
        /\ e.op = "name_set" => SaysName(e) /\ NameChange(e).channel = e.p.channel
        /\ e.op \in {"name_set", "pr_link_seen"}
    BY FieldsAre DEF IsRecord, Suits, IsEvent, Ops, NameOps, NamelessOps, SaysName, NameChange
  <1>1. IsRecord(t)
    BY <1>0, FoldEffect DEF Effect
  <1>2. b = r
    BY <1>0 DEF Bump, OBSERVATION_ONLY_OPS
  <1>3. CASE e.op = "pr_link_seen"
    <2>1. r = ReducePrLinkSeen(s, e)
      BY <1>3 DEF Reduce
    <2> HIDE DEF r
    <2>2. /\ r = [f \in SessionFields |-> r[f]]
          /\ r.prs = ApplyPrLink(s.prs, e) /\ r.names = s.names
          /\ r.ai_title = s.ai_title /\ r.alias = s.alias /\ r.preview = s.preview
      BY <1>0, <2>1 DEF ReducePrLinkSeen, SessionFields
    <2>3. /\ t.prs = r.prs /\ t.names = r.names
          /\ t.ai_title = r.ai_title /\ t.alias = r.alias /\ t.preview = r.preview
      BY <1>2, <2>2 DEF RefreshDerivedNames, SessionFields
    <2> HIDE DEF t
    <2>4. Seen(s, e, t)
      BY <1>1, <1>3, <2>2, <2>3 DEF Seen
    <2> QED
      BY <2>4 DEF t, r
  <1>4. CASE e.op = "name_set"
    <2> DEFINE c == NameChange(e)
               n == ReduceName(s, e)
    <2>1. r = IF n.names = s.names THEN s ELSE MirrorDerivedField(n, c)
      BY <1>4 DEF Reduce, ReduceNameSet
    <2>2. n = [s EXCEPT !.names = ApplyName(s.names, c)]
      BY <1>0, <1>4 DEF ReduceName
    <2>c. c.channel = e.p.channel
      BY <1>0, <1>4
    <2> HIDE DEF r, n, c
    <2>3. /\ n = [f \in SessionFields |-> n[f]]
          /\ n.names = ApplyName(s.names, c) /\ n.prs = s.prs
          /\ n.ai_title = s.ai_title /\ n.alias = s.alias /\ n.preview = s.preview
      BY <1>0, <2>2 DEF SessionFields
    <2> DEFINE Fine(x) ==
                 /\ x = [f \in SessionFields |-> x[f]]
                 /\ x.names = ApplyName(s.names, c) /\ x.prs = s.prs /\ x.preview = s.preview
                 /\ x.ai_title = s.ai_title \/ c.channel = "cc_ai_title"
                 /\ x.alias = s.alias \/ c.channel = "alias"
    <2>4. Fine(MirrorDerivedField(n, c))
      <3>1. c.channel = "alias" => Fine([n EXCEPT !.alias = c.value])
        BY <2>3 DEF SessionFields
      <3>2. c.channel = "cc_ai_title" => Fine([n EXCEPT !.ai_title = c.value])
        BY <2>3 DEF SessionFields
      <3>3. Fine(n)
        BY <2>3
      <3> QED
        BY <3>1, <3>2, <3>3 DEF MirrorDerivedField
    <2>5. n.names = s.names => Fine(s)
      BY <1>0, <2>3
    <2>6. Fine(r)
      <3> HIDE DEF Fine
      <3> QED
        BY <2>1, <2>4, <2>5
    <2>7. /\ t.prs = r.prs /\ t.names = r.names
          /\ t.ai_title = r.ai_title /\ t.alias = r.alias /\ t.preview = r.preview
      BY <1>2, <2>6 DEF RefreshDerivedNames, SessionFields
    <2> HIDE DEF t
    <2>8. Seen(s, e, t)
      BY <1>1, <1>4, <2>c, <2>6, <2>7 DEF Seen, c
    <2> QED
      BY <2>8 DEF t, r
  <1> QED
    BY <1>0, <1>3, <1>4

\* A naming that is carried out holds, unless there is no room for its channel.
LEMMA NamingSettles ==
  ASSUME NEW names, IsMap(names, MaxChannels), NEW c
  PROVE  LET after == ApplyName(names, c) IN
         /\ IF c.channel \in DOMAIN after THEN IsSameNaming(after[c.channel], c)
            ELSE after = names /\ Cardinality(DOMAIN names) = MaxChannels
         /\ Cardinality(DOMAIN names) = MaxChannels => DOMAIN after = DOMAIN names
         /\ (c.channel \in DOMAIN names => ~IsSameNaming(names[c.channel], c)) =>
              after # names \/ Cardinality(DOMAIN after) = MaxChannels
  <1> DEFINE after == ApplyName(names, c)
             ch == c.channel
             full == Cardinality(DOMAIN names) >= MaxChannels
  <1>0. /\ names = [d \in DOMAIN names |-> names[d]]
        /\ Cardinality(DOMAIN names) \in Nat /\ Cardinality(DOMAIN names) <= MaxChannels
    BY FS_CardinalityType DEF IsMap
  <1>1. full => Cardinality(DOMAIN names) = MaxChannels
    BY <1>0, CapsType
  <1>2. Cardinality(DOMAIN names) = MaxChannels => full
    BY <1>0, CapsType
  <1>3. \A n : IsSameNaming(Entry(c, n), c)
    BY DEF Entry, IsSameNaming
  <1>4. CASE ch \in DOMAIN names
    <2> DEFINE n == Entry(c, names[ch].set_count + 1)
    <2>1. after = IF IsSameNaming(names[ch], c) THEN names ELSE [names EXCEPT ![ch] = n]
      BY <1>4 DEF ApplyName, Renamed
    <2>2. IsSameNaming(n, c)
      BY <1>3
    <2> HIDE DEF n, after, ch
    <2>3. DOMAIN after = DOMAIN names /\ IsSameNaming(after[ch], c)
      BY <1>0, <1>4, <2>1, <2>2
    <2>4. ~IsSameNaming(names[ch], c) => after # names
      BY <2>3
    <2> QED
      BY <1>4, <2>3, <2>4 DEF after, ch
  <1>5. CASE ch \notin DOMAIN names /\ full
    <2>1. after = names
      BY <1>5 DEF ApplyName
    <2> QED
      BY <1>1, <1>5, <2>1
  <1>6. CASE ch \notin DOMAIN names /\ ~full
    <2> DEFINE n == Entry(c, 1)
    <2>1. after = Put(names, ch, n)
      BY <1>6 DEF ApplyName
    <2>2. IsSameNaming(n, c)
      BY <1>3
    <2> HIDE DEF n, after, ch, full
    <2>3. DOMAIN after = DOMAIN names \union {ch} /\ IsSameNaming(after[ch], c)
      BY <2>1, <2>2 DEF Put
    <2> QED
      BY <1>2, <1>6, <2>3 DEF after, ch
  <1> QED
    BY <1>4, <1>5, <1>6

\* A plan is its head and the rest of it.
LEMMA HeadAndTail ==
  ASSUME NEW plan, plan \in Seq(ToSet(plan)), plan # <<>>
  PROVE  /\ Tail(plan) \in Seq(ToSet(Tail(plan)))
         /\ ToSet(plan) = {Head(plan)} \union ToSet(Tail(plan))
         /\ Head(plan) = plan[1] /\ 1 \in DOMAIN plan
         /\ \A i \in DOMAIN Tail(plan) :
              i \in Nat /\ i # 0 /\ i + 1 \in DOMAIN plan /\ Tail(plan)[i] = plan[i + 1]
  <1> DEFINE S == ToSet(plan)
             rest == Tail(plan)
  <1>1. plan \in Seq(S)
    OBVIOUS
  <1> HIDE DEF S
  <1>2. /\ rest \in Seq(S) /\ Head(plan) = plan[1] /\ 1 \in DOMAIN plan
        /\ Len(plan) \in Nat /\ Len(rest) = Len(plan) - 1
        /\ DOMAIN plan = 1 .. Len(plan) /\ DOMAIN rest = 1 .. Len(plan) - 1
        /\ \A i \in 1 .. Len(plan) - 1 : rest[i] = plan[i + 1]
    BY <1>1
  <1> HIDE DEF rest
  <1>3. \A i \in DOMAIN rest : i \in Nat /\ i # 0 /\ i + 1 \in DOMAIN plan /\ rest[i] = plan[i + 1]
    BY <1>2
  <1>4. \A i \in DOMAIN plan : i = 1 \/ (i - 1 \in DOMAIN rest /\ rest[i - 1] = plan[i])
    BY <1>2
  <1>5. ToSet(plan) = {Head(plan)} \union ToSet(rest)
    <2> DEFINE R == DOMAIN rest
               P == DOMAIN plan
    <2>1. /\ \A i \in P : i = 1 \/ (i - 1 \in R /\ plan[i] = rest[i - 1])
          /\ \A i \in R : i + 1 \in P /\ rest[i] = plan[i + 1]
          /\ 1 \in P /\ Head(plan) = plan[1]
      BY <1>2, <1>3, <1>4
    <2>2. ToSet(plan) = {plan[i] : i \in P} /\ ToSet(rest) = {rest[i] : i \in R}
      BY DEF ToSet
    <2> HIDE DEF R, P
    <2>3. {plan[i] : i \in P} = {plan[1]} \union {rest[i] : i \in R}
      BY <2>1
    <2> QED
      BY <2>1, <2>2, <2>3
  <1>6. rest \in Seq(ToSet(rest))
    BY <1>2, SeqOfItself
  <1> QED
    BY <1>2, <1>3, <1>5, <1>6 DEF rest

\* What the head of a plan leaves to the rest of it.
LEMMA HeadStep ==
  ASSUME NEW s, IsRecord(s), NEW sid, NEW plan, Fits(plan, s, sid), plan # <<>>,
         NEW t, Seen(s, Head(plan), t)
  PROVE  LET e == Head(plan)
             rest == Tail(plan)
         IN  /\ Suits(e, s, sid) /\ \A d \in ToSet(rest) : ~SameTarget(e, d)
             /\ Fits(rest, t, sid) /\ Linked(rest, t) = Linked(plan, s)
             /\ e.op = "pr_link_seen" =>
                  /\ PrKey(e) \in DOMAIN t.prs /\ t.prs # s.prs
                  /\ t.prs[PrKey(e)].first_seen_at <= e.p.observed_at
             /\ \A key \in DOMAIN s.prs :
                  /\ key \in DOMAIN t.prs
                  /\ t.prs[key].first_seen_at <= s.prs[key].first_seen_at
  <1> DEFINE e == Head(plan)
             rest == Tail(plan)
             key == PrKey(e)
             old == s.prs
             new == t.prs
  <1>1. /\ rest \in Seq(ToSet(rest)) /\ ToSet(plan) = {e} \union ToSet(rest)
        /\ e = plan[1] /\ 1 \in DOMAIN plan
        /\ \A i \in DOMAIN rest :
             i \in Nat /\ i # 0 /\ i + 1 \in DOMAIN plan /\ rest[i] = plan[i + 1]
    <2>1. plan \in Seq(ToSet(plan))
      BY DEF Fits
    <2> QED
      BY <2>1, HeadAndTail
  <1>2. /\ \A i, j \in DOMAIN plan : SameTarget(plan[i], plan[j]) => i = j
        /\ \A d \in ToSet(plan) : Suits(d, s, sid)
        /\ Cardinality(Linked(plan, s)) <= MaxPrLinks
    BY DEF Fits
  <1>3. Suits(e, s, sid)
    BY <1>1, <1>2
  <1> HIDE DEF e, rest
  <1>4. \A i, j \in DOMAIN rest : SameTarget(rest[i], rest[j]) => i = j
    <2> SUFFICES ASSUME NEW i \in DOMAIN rest, NEW j \in DOMAIN rest,
                        SameTarget(rest[i], rest[j])
                 PROVE  i = j
      OBVIOUS
    <2>1. i + 1 = j + 1 /\ i \in Nat /\ j \in Nat
      BY <1>1, <1>2
    <2> QED
      BY <2>1
  <1>5. \A d \in ToSet(rest) : ~SameTarget(e, d)
    <2> SUFFICES ASSUME NEW i \in DOMAIN rest, SameTarget(e, rest[i])
                 PROVE  FALSE
      BY DEF ToSet
    <2>1. 1 = i + 1 /\ i \in Nat /\ i # 0
      BY <1>1, <1>2
    <2> QED
      BY <2>1
  <1>6. /\ IsMap(old, MaxPrLinks) /\ IsMap(s.names, MaxChannels)
        /\ \A k \in DOMAIN old : old[k].first_seen_at \in Nat
        /\ IsRecord(t)
    BY DEF IsRecord, Seen
  <1>7. CASE e.op = "name_set"
    <2>1. LinksOf(rest) = LinksOf(plan)
      BY <1>1, <1>7 DEF LinksOf
    <2>2. new = old /\ t.names = ApplyName(s.names, NameChange(e))
      BY <1>7 DEF Seen, e
    <2>3. Linked(rest, t) = Linked(plan, s)
      BY <2>1, <2>2 DEF Linked, Keys
    <2>4. ASSUME NEW d \in ToSet(rest)
          PROVE  Suits(d, t, sid)
      <3>1. Suits(d, s, sid)
        BY <1>1, <1>2
      <3>2. CASE d.op = "name_set"
        <4>1. d.p.channel # e.p.channel /\ NameChange(e).channel = e.p.channel
          BY <1>5, <1>7, <3>2 DEF SameTarget, NameChange
        <4>2. /\ d.p.channel \in DOMAIN t.names <=> d.p.channel \in DOMAIN s.names
              /\ d.p.channel \in DOMAIN s.names => t.names[d.p.channel] = s.names[d.p.channel]
          <5>1. s.names = [x \in DOMAIN s.names |-> s.names[x]]
            BY <1>6 DEF IsMap
          <5>2. Touches(s.names, NameChange(e), t.names)
            BY <2>2, <5>1, NamingEffect
          <5> QED
            BY <4>1, <5>2 DEF Touches
        <4> QED
          BY <3>1, <3>2, <4>2 DEF Suits
      <3>3. CASE d.op # "name_set"
        BY <2>2, <3>1, <3>3 DEF Suits
      <3> QED
        BY <3>2, <3>3
    <2>5. Fits(rest, t, sid)
      BY <1>1, <1>2, <1>4, <2>3, <2>4 DEF Fits
    <2> HIDE DEF old, new
    <2>6. \A k \in DOMAIN old : k \in DOMAIN new /\ new[k].first_seen_at <= old[k].first_seen_at
      BY <1>6, <2>2
    <2> QED
      BY <1>3, <1>5, <1>7, <2>3, <2>5, <2>6 DEF e, rest, old, new
  <1>8. CASE e.op = "pr_link_seen"
    <2>1. new = ApplyPrLink(old, e) /\ t.names = s.names
      BY <1>8 DEF Seen, e
    <2>2. LinksOf(plan) = LinksOf(rest) \union {e}
      BY <1>1, <1>8 DEF LinksOf
    <2>3. Keys(plan) = Keys(rest) \union {key}
      BY <2>2 DEF Keys
    <2>4. e.p.observed_at \in Nat /\ (key \in DOMAIN old => PrLinkAgain(old[key], e) # old[key])
      BY <1>3, <1>8 DEF Suits
    <2>5. key \notin DOMAIN old => ~(Cardinality(DOMAIN old) >= MaxPrLinks)
      <3> SUFFICES ASSUME key \notin DOMAIN old
                   PROVE  ~(Cardinality(DOMAIN old) >= MaxPrLinks)
        OBVIOUS
      <3> DEFINE D == DOMAIN old
                 L == Linked(plan, s)
      <3>1. IsFiniteSet(D) /\ Cardinality(D) \in Nat /\ IsFiniteSet(L) /\ Cardinality(L) \in Nat
        <4>1. plan \in Seq(ToSet(plan))
          BY DEF Fits
        <4> QED
          BY <4>1, KeysAreFinite
      <3>2. D \union {key} \in SUBSET L /\ key \notin D
        BY <2>3 DEF Linked
      <3>3. Cardinality(L) <= MaxPrLinks
        BY <1>2
      <3> HIDE DEF D, L, key
      <3>4. Cardinality(D \union {key}) = Cardinality(D) + 1
        BY <3>1, <3>2, FS_AddElement
      <3>5. Cardinality(D \union {key}) <= Cardinality(L)
        BY <3>1, <3>2, FS_Subset
      <3>6. Cardinality(D) + 1 <= MaxPrLinks
        BY <3>1, <3>3, <3>4, <3>5, CapsType
      <3> QED
        BY <3>1, <3>6, CapsType DEF D
    <2>6. /\ \A k \in DOMAIN old \ {key} : new[k] = old[k]
          /\ DOMAIN new = DOMAIN old \union {key} /\ new # old
          /\ key \in DOMAIN old => new[key] = PrLinkAgain(old[key], e)
          /\ key \notin DOMAIN old => new[key] = PrLink(e)
      <3> HIDE DEF new, old
      <3> QED
        BY <1>6, <2>1, <2>4, <2>5, LinkIs
    <2>7. Linked(rest, t) = Linked(plan, s)
      BY <2>3, <2>6 DEF Linked
    <2>8. ASSUME NEW d \in ToSet(rest)
          PROVE  Suits(d, t, sid)
      <3>1. Suits(d, s, sid)
        BY <1>1, <1>2
      <3>2. d.op # "name_set" => PrKey(d) # key
        BY <1>5, <1>8, <3>1 DEF SameTarget, Suits
      <3> HIDE DEF key
      <3>3. d.op # "name_set" =>
              /\ PrKey(d) \in DOMAIN t.prs => PrKey(d) \in DOMAIN s.prs
              /\ PrKey(d) \in DOMAIN s.prs => t.prs[PrKey(d)] = s.prs[PrKey(d)]
        BY <2>6, <3>2
      <3> QED
        BY <2>1, <3>1, <3>3 DEF Suits
    <2>9. Fits(rest, t, sid)
      BY <1>1, <1>2, <1>4, <2>7, <2>8 DEF Fits
    <2>10. key \in DOMAIN new /\ new[key].first_seen_at <= e.p.observed_at
      <3>1. CASE key \in DOMAIN old
        BY <1>6, <2>4, <2>6, <3>1, SightingIs
      <3>2. CASE key \notin DOMAIN old
        BY <2>4, <2>6, <3>2 DEF PrLink
      <3> QED
        BY <2>6, <3>1, <3>2
    <2>11. ASSUME NEW k \in DOMAIN old
           PROVE  k \in DOMAIN new /\ new[k].first_seen_at <= old[k].first_seen_at
      <3>1. CASE k = key
        BY <1>6, <2>4, <2>6, <3>1, SightingIs
      <3>2. CASE k # key
        <4>1. new[k] = old[k] /\ old[k].first_seen_at \in Nat
          BY <1>6, <2>6, <3>2
        <4> QED
          BY <2>6, <4>1
      <3> QED
        BY <3>1, <3>2
    <2> QED
      BY <1>3, <1>5, <2>6, <2>7, <2>9, <2>10, <2>11 DEF e, rest
  <1> QED
    BY <1>3, <1>7, <1>8 DEF Suits

\* What a plan promises, it still does when its head has been carried out.
LEMMA CoverStep ==
  ASSUME NEW s, IsRecord(s), NEW sid, NEW plan, Fits(plan, s, sid), plan # <<>>,
         NEW t, Seen(s, Head(plan), t),
         NEW names, \A c, d \in names : c.channel = d.channel => c = d,
         NEW records, \A i \in DOMAIN records : records[i].at \in Nat,
         Covers(plan, s, names, records)
  PROVE  Covers(Tail(plan), t, names, records)
  <1> DEFINE e == Head(plan)
             rest == Tail(plan)
  <1>1. ToSet(plan) = {e} \union ToSet(rest)
    BY HeadAndTail DEF Fits
  <1>2. /\ Suits(e, s, sid) /\ Fits(rest, t, sid)
        /\ Linked(rest, t) = Linked(plan, s)
        /\ e.op = "pr_link_seen" =>
             PrKey(e) \in DOMAIN t.prs /\ t.prs[PrKey(e)].first_seen_at <= e.p.observed_at
        /\ \A key \in DOMAIN s.prs :
             key \in DOMAIN t.prs /\ t.prs[key].first_seen_at <= s.prs[key].first_seen_at
    BY HeadStep
  <1>3. Seen(s, e, t)
    OBVIOUS
  <1> HIDE DEF e, rest
  <1>4. /\ \A d \in ToSet(plan) : d.op = "name_set" => d.p \in names
        /\ \A c \in names :
             NameHeld(s, c) \/ \E d \in ToSet(plan) : d.op = "name_set" /\ d.p = c
        /\ \A i \in DOMAIN records : records[i].type = "pr-link" =>
             LinkHeld(plan, s, KeyOf(records[i]), records[i].at)
    BY DEF Covers
  <1>5. e.op \in {"name_set", "pr_link_seen"}
    BY <1>2 DEF Suits
  <1>6. IsMap(s.names, MaxChannels) /\ s.names = [x \in DOMAIN s.names |-> s.names[x]] /\ IsRecord(t)
    BY <1>3 DEF IsRecord, IsMap, Seen
  <1>7. ASSUME e.op = "name_set"
        PROVE  NameHeld(t, e.p)
    <2> DEFINE c == NameChange(e)
    <2>1. c.channel = e.p.channel /\ c.value = e.p.value /\ c.source = e.p.source
      BY <1>7 DEF NameChange
    <2> HIDE DEF c
    <2>2. t.names = ApplyName(s.names, c)
      BY <1>3, <1>7 DEF Seen, c
    <2>3. IF c.channel \in DOMAIN t.names THEN IsSameNaming(t.names[c.channel], c)
          ELSE t.names = s.names /\ Cardinality(DOMAIN s.names) = MaxChannels
      BY <1>6, <2>2, NamingSettles
    <2> QED
      BY <2>1, <2>3 DEF NameHeld, IsSameNaming
  <1>8. ASSUME NEW c \in names, NameHeld(s, c), e.op = "name_set" => e.p # c
        PROVE  NameHeld(t, c)
    <2>1. CASE e.op = "pr_link_seen"
      <3>1. /\ t.names = s.names /\ t.ai_title = s.ai_title /\ t.alias = s.alias
            /\ t.preview = s.preview
        BY <1>3, <2>1 DEF Seen
      <3>2. NameValue(t, c.channel) = NameValue(s, c.channel)
        BY <3>1 DEF NameValue
      <3> QED
        BY <1>8, <3>1, <3>2 DEF NameHeld
    <2>2. CASE e.op = "name_set"
      <3> DEFINE n == NameChange(e)
      <3>1. /\ n.channel = e.p.channel /\ e.p.channel # c.channel
            /\ t.names = ApplyName(s.names, n) /\ t.preview = s.preview
            /\ t.ai_title = s.ai_title \/ e.p.channel = "cc_ai_title"
            /\ t.alias = s.alias \/ e.p.channel = "alias"
        BY <1>1, <1>3, <1>4, <1>8, <2>2 DEF Seen, NameChange
      <3>2. /\ c.channel \in DOMAIN t.names <=> c.channel \in DOMAIN s.names
            /\ c.channel \in DOMAIN s.names => t.names[c.channel] = s.names[c.channel]
        <4> HIDE DEF n
        <4>1. Touches(s.names, n, t.names)
          BY <1>6, <3>1, NamingEffect
        <4> QED
          BY <3>1, <4>1 DEF Touches
      <3>3. Cardinality(DOMAIN s.names) = MaxChannels => DOMAIN t.names = DOMAIN s.names
        BY <1>6, <3>1, NamingSettles
      <3>4. NameValue(t, c.channel) = NameValue(s, c.channel)
        BY <3>1, <3>2 DEF NameValue
      <3> QED
        BY <1>8, <3>2, <3>3, <3>4 DEF NameHeld
    <2> QED
      BY <1>5, <2>1, <2>2
  <1>9. ASSUME NEW c \in names
        PROVE  NameHeld(t, c) \/ \E d \in ToSet(rest) : d.op = "name_set" /\ d.p = c
    BY <1>1, <1>4, <1>7, <1>8
  <1>10. ASSUME NEW key, NEW at \in Nat, LinkHeld(plan, s, key, at)
         PROVE  LinkHeld(rest, t, key, at)
    <2>1. /\ \A k \in DOMAIN s.prs : s.prs[k].first_seen_at \in Nat
          /\ \A k \in DOMAIN t.prs : t.prs[k].first_seen_at \in Nat
      BY <1>6 DEF IsRecord
    <2>2. CASE key \in DOMAIN s.prs /\ s.prs[key].first_seen_at <= at
      <3>1. key \in DOMAIN t.prs /\ t.prs[key].first_seen_at <= at
        BY <1>2, <2>1, <2>2
      <3> QED
        BY <3>1 DEF LinkHeld
    <2>3. ASSUME NEW d \in LinksOf(plan), PrKey(d) = key, d.p.observed_at <= at
          PROVE  LinkHeld(rest, t, key, at)
      <3>1. CASE d = e
        <4>1. e.op = "pr_link_seen" /\ e.p.observed_at \in Nat
          BY <1>2, <2>3, <3>1 DEF LinksOf, Suits
        <4>2. key \in DOMAIN t.prs /\ t.prs[key].first_seen_at <= at
          BY <1>2, <2>1, <2>3, <3>1, <4>1
        <4> QED
          BY <4>2 DEF LinkHeld
      <3>2. CASE d # e
        <4>1. d \in LinksOf(rest)
          BY <1>1, <2>3, <3>2 DEF LinksOf
        <4> QED
          BY <2>3, <4>1 DEF LinkHeld
      <3> QED
        BY <3>1, <3>2
    <2>4. CASE key \notin Linked(plan, s) /\ Cardinality(Linked(plan, s)) = MaxPrLinks
      BY <1>2, <2>4 DEF LinkHeld
    <2> QED
      BY <1>10, <2>2, <2>3, <2>4 DEF LinkHeld
  <1>11. Covers(rest, t, names, records)
    BY <1>1, <1>4, <1>9, <1>10 DEF Covers
  <1> QED
    BY <1>11 DEF rest

\* The next event of a plan is committed.
LEMMA HarvestCommit ==
  ASSUME NEW ss, AreSessions(ss), NEW sid \in Sids, NEW plan, plan # <<>>,
         Fits(plan, RecordOf(ss, sid), sid)
  PROVE  LET e == Head(plan)
             tt == FoldSession(ss, e)
         IN  /\ AreSessions(tt) /\ Fits(Tail(plan), RecordOf(tt, sid), sid)
             /\ \A names, records :
                  /\ Covers(plan, RecordOf(ss, sid), names, records)
                  /\ \A c, d \in names : c.channel = d.channel => c = d
                  /\ \A i \in DOMAIN records : records[i].at \in Nat
                  => Covers(Tail(plan), RecordOf(tt, sid), names, records)
             /\ \/ tt # ss
                \/ e.op = "name_set" /\ Cardinality(DOMAIN tt[sid].names) = MaxChannels
  <1> DEFINE e == Head(plan)
             tt == FoldSession(ss, e)
             s == SessionOrNew(ss, e)
             t == RefreshDerivedNames(Bump(Reduce(s, e), e))
  <1>1. /\ Suits(e, RecordOf(ss, sid), sid) /\ plan \in Seq(ToSet(plan))
    BY HeadAndTail DEF Fits
  <1>2. e.sid = sid /\ e.op \in {"name_set", "pr_link_seen"} /\ IsEvent(e)
        /\ e.ts \in Nat /\ e.op \in Ops \ {"session_prune"}
    BY <1>1 DEF Suits, IsEvent, Ops, NameOps, NamelessOps
  <1>3. tt = Put(ss, sid, t)
    BY <1>2 DEF FoldSession
  <1>4. AreSessions(tt)
    BY <1>2, FoldSessionIs DEF Folds
  <1>5. IsRecord(s) /\ ReadAlike(RecordOf(ss, sid), s) /\ (sid \in DOMAIN ss => s = ss[sid])
    BY <1>2, RecordIs DEF SessionOrNew
  <1>6. Seen(s, e, t)
    <2> HIDE DEF s, e
    <2> QED
      BY <1>1, <1>5, SeenEffect
  <1> HIDE DEF t, s, tt
  <1>7. RecordOf(tt, sid) = t /\ sid \in DOMAIN tt /\ tt[sid] = t
    BY <1>3 DEF RecordOf, Put
  <1>8. /\ Fits(plan, s, sid)
        /\ \A names, records :
             Covers(plan, RecordOf(ss, sid), names, records) => Covers(plan, s, names, records)
    BY <1>5, PlansReadAlike
  <1>9. /\ Suits(e, s, sid) /\ Fits(Tail(plan), t, sid)
        /\ e.op = "pr_link_seen" => t.prs # s.prs
    BY <1>5, <1>6, <1>8, HeadStep
  <1>10. ASSUME NEW names, NEW records,
                Covers(plan, RecordOf(ss, sid), names, records),
                \A c, d \in names : c.channel = d.channel => c = d,
                \A i \in DOMAIN records : records[i].at \in Nat
         PROVE  Covers(Tail(plan), t, names, records)
    BY <1>5, <1>6, <1>8, <1>10, CoverStep
  <1>11. ASSUME tt = ss
         PROVE  e.op = "name_set" /\ Cardinality(DOMAIN t.names) = MaxChannels
    <2>1. s = t
      BY <1>5, <1>7, <1>11
    <2>2. e.op = "name_set"
      BY <1>2, <1>9, <2>1
    <2> DEFINE c == NameChange(e)
    <2>3. t.names = ApplyName(s.names, c)
      BY <1>6, <2>2 DEF Seen
    <2>4. c.channel \in DOMAIN s.names => ~IsSameNaming(s.names[c.channel], c)
      BY <1>9, <2>2 DEF Suits, NameChange, IsSameNaming
    <2>5. IsMap(s.names, MaxChannels)
      BY <1>5 DEF IsRecord
    <2> HIDE DEF c
    <2>6. t.names # s.names \/ Cardinality(DOMAIN t.names) = MaxChannels
      BY <2>3, <2>4, <2>5, NamingSettles
    <2> QED
      BY <2>1, <2>2, <2>6
  <1> QED
    BY <1>4, <1>7, <1>9, <1>10, <1>11 DEF tt

\* Or it is not.
LEMMA HarvestSkips ==
  ASSUME NEW s, IsRecord(s), NEW sid, NEW plan, Fits(plan, s, sid), plan # <<>>
  PROVE  Fits(Tail(plan), s, sid)
  <1> DEFINE rest == Tail(plan)
  <1>1. /\ plan \in Seq(ToSet(plan))
        /\ \A i, j \in DOMAIN plan : SameTarget(plan[i], plan[j]) => i = j
        /\ \A d \in ToSet(plan) : Suits(d, s, sid)
        /\ Cardinality(Linked(plan, s)) <= MaxPrLinks
    BY DEF Fits
  <1>2. /\ rest \in Seq(ToSet(rest)) /\ ToSet(rest) \subseteq ToSet(plan)
        /\ \A i \in DOMAIN rest : i \in Nat /\ i + 1 \in DOMAIN plan /\ rest[i] = plan[i + 1]
    BY <1>1, HeadAndTail
  <1> HIDE DEF rest
  <1>3. \A i, j \in DOMAIN rest : SameTarget(rest[i], rest[j]) => i = j
    <2> SUFFICES ASSUME NEW i \in DOMAIN rest, NEW j \in DOMAIN rest,
                        SameTarget(rest[i], rest[j])
                 PROVE  i = j
      OBVIOUS
    <2>1. i + 1 = j + 1 /\ i \in Nat /\ j \in Nat
      BY <1>1, <1>2
    <2> QED
      BY <2>1
  <1>4. Linked(rest, s) \subseteq Linked(plan, s)
    BY <1>2 DEF Linked, Keys, LinksOf
  <1>5. Cardinality(Linked(rest, s)) <= MaxPrLinks
    <2> DEFINE L == Linked(plan, s)
               K == Linked(rest, s)
    <2>1. /\ IsFiniteSet(L) /\ Cardinality(L) \in Nat /\ Cardinality(L) <= MaxPrLinks
      BY <1>1, KeysAreFinite
    <2>2. K \in SUBSET L
      BY <1>4
    <2> HIDE DEF K, L
    <2>3. IsFiniteSet(K) /\ Cardinality(K) <= Cardinality(L) /\ Cardinality(K) \in Nat
      BY <2>1, <2>2, FS_Subset, FS_CardinalityType
    <2>4. Cardinality(K) <= MaxPrLinks
      BY <2>1, <2>3, CapsType
    <2> QED
      BY <2>4 DEF K
  <1>6. Fits(rest, s, sid)
    BY <1>1, <1>2, <1>3, <1>5 DEF Fits
  <1> QED
    BY <1>6 DEF rest

\* What a harvest that nobody interferes with still has to log is news to the
\* record, and unless a write failed it has stored or will store everything.
HarvestHolds(c, ss, names, records) ==
  c.kind = "harvest" =>
    /\ c.about \notin Sids => c.plan = <<>>
    /\ c.about \in Sids =>
         /\ Fits(c.plan, RecordOf(ss, c.about), c.about)
         /\ ~c.failed => Covers(c.plan, RecordOf(ss, c.about), names, records)
HarvestInv ==
  \A p \in Procs : alone[p] =>
    HarvestHolds(call[p], sessions, Candidates(call[p].about), Window(call[p].about))

\* How far a session has come, by its record and by its transcripts, and the
\* state it should be in.
Progress(ss, times, x) ==
  IF ss[x].last_progress_at > times[x] THEN ss[x].last_progress_at ELSE times[x]
StateAt(progress, now, opts) ==
  LET age == IF progress > now THEN 0 ELSE now - progress
  IN  IF age >= opts.archive THEN "archived"
      ELSE IF age >= opts.idle THEN "idle"
      ELSE "active"

\* A sweep that nobody interferes with still moves the sessions to the state they
\* should be in, and unless a write failed it has moved or will move every one
\* but the archived ones.
SweepHolds(c, ss, times, now) ==
  c.kind = "sweep" =>
    /\ c.opts.idle \in Nat /\ c.opts.archive \in Nat
    /\ c.step = "run" \/ (c.plan = <<>> /\ (c.exit = 0 => ~c.failed))
    /\ \A e \in ToSet(c.plan) :
         /\ e.op = "sweep" /\ e.sid \in DOMAIN ss
         /\ e.p.effective = Progress(ss, times, e.sid)
         /\ e.p.activity = StateAt(Progress(ss, times, e.sid), now, c.opts)
    /\ ~c.failed => \A x \in DOMAIN ss :
         \/ ss[x].activity \in {"archived", StateAt(Progress(ss, times, x), now, c.opts)}
         \/ \E e \in ToSet(c.plan) : e.sid = x
SweepInv == \A p \in Procs : alone[p] => SweepHolds(call[p], sessions, indexed, day)

-----------------------------------------------------------------------------
\* Calls begin.

\* A call that changes nothing, or one that begins on what is true now; a
\* harvest begins before its first session.
Fresh(c) ==
  /\ c.kind = "harvest" => c.plan = <<>> /\ c.about = Null
  /\ SweepHolds(c, sessions, indexed, day)
Started(p) ==
  \/ UNCHANGED vars
  \/ \E c : Begins(p, c) /\ IsCall(c) /\ IsCurrent(c, sessions, transcript) /\ Fresh(c)

LEMMA RunningIs ==
  ASSUME NEW kind, NEW plan, NEW opts, NEW todo, NEW scan
  PROVE  LET c == Running(kind, plan, opts, todo, scan) IN
         /\ c = [f \in CallFields |-> c[f]]
         /\ c.kind = kind /\ c.step = "run" /\ c.plan = plan /\ c.opts = opts
         /\ c.todo = todo /\ c.scan = scan /\ c.about = Null
  BY DEF Running, Idle, CallFields

LEMMA CallOfPlan ==
  ASSUME NEW kind, kind \notin {"harvest", "prune", "codex", "hook"}, NEW plan, IsPlan(plan),
         NEW opts, NEW todo, NEW scan,
         SweepHolds(Running(kind, plan, opts, todo, scan), sessions, indexed, day),
         \A e \in ToSet(plan) :
           e.op = "parent_set" => Len(plan) = 1 /\ NoLoop(sessions, e.sid, e.p.parent)
  PROVE  LET c == Running(kind, plan, opts, todo, scan) IN
         IsCall(c) /\ IsCurrent(c, sessions, transcript) /\ Fresh(c)
  <1> DEFINE c == Running(kind, plan, opts, todo, scan)
  <1>1. /\ c = [f \in CallFields |-> c[f]] /\ c.kind = kind /\ c.plan = plan
        /\ SweepHolds(c, sessions, indexed, day)
    BY RunningIs
  <1> HIDE DEF c
  <1>2. IsCall(c) /\ IsCurrent(c, sessions, transcript) /\ Fresh(c)
    BY <1>1 DEF IsCall, IsCurrent, IsCautious, Fresh
  <1> QED
    BY <1>2 DEF c

LEMMA EmptyPlan ==
  IsPlan(<<>>) /\ \A e \in ToSet(<<>>) : FALSE
  BY ShortPlans

LEMMA OneEvent ==
  ASSUME NEW p, NEW kind, kind \in {"alias", "name", "link", "close", "parent"}, NEW e, Planned(e),
         e.op = "parent_set" => NoLoop(sessions, e.sid, e.p.parent),
         CommitOp(p, kind, e)
  PROVE  Started(p)
  <1>1. CASE Begins(p, Running(kind, <<e>>, Null, {}, NoScan))
    <2>1. IsPlan(<<e>>) /\ ToSet(<<e>>) = {e} /\ Len(<<e>>) = 1
      BY ShortPlans
    <2>2. \A x \in ToSet(<<e>>) :
            x.op = "parent_set" => Len(<<e>>) = 1 /\ NoLoop(sessions, x.sid, x.p.parent)
      BY <2>1
    <2> DEFINE c == Running(kind, <<e>>, Null, {}, NoScan)
    <2>k. SweepHolds(c, sessions, indexed, day)
      BY RunningIs DEF SweepHolds
    <2>3. IsCall(c) /\ IsCurrent(c, sessions, transcript) /\ Fresh(c)
      BY <2>1, <2>2, <2>k, CallOfPlan
    <2> HIDE DEF c
    <2> QED
      BY <1>1, <2>3 DEF Started, c
  <1>2. CASE Refuse(p)
    BY <1>2 DEF Refuse, Ends, Started
  <1> QED
    BY <1>1, <1>2 DEF CommitOp

\* The events of one-session commands.
LEMMA EventIs ==
  ASSUME NEW op, NEW sid, NEW q
  PROVE  LET e == Event(op, sid, q) IN e.op = op /\ e.sid = sid /\ e.p = q /\ e.ts = day
  BY DEF Event

LEMMA NamelessPlanned ==
  ASSUME NEW e, e.op \in {"session_link", "session_unlink", "close", "parent_set"},
         e.sid \in Sids, e.ts \in Nat
  PROVE  Planned(e)
  BY DEF Planned, IsEvent, NamesThread, Ops, NamelessOps, NameOps

LEMMA AliasBegins ==
  ASSUME day \in Nat, NEW p, AliasCommand(p)
  PROVE  Started(p)
  <1>1. PICK sid \in Sids, value \in Texts \union {Null, Junk} :
          Usage(p) \/ Refuse(p) \/ Preview(p) \/ (SetAlias(p, sid, value) /\ value # Junk)
    BY NullType DEF AliasCommand, IsGoodName
  <1> DEFINE e == Event("alias_set", sid, [value |-> value])
  <1>2. e.op = "alias_set" /\ e.sid = sid /\ NameChange(e).channel = "alias"
        /\ e.ts \in Nat /\ e.p.value = value
    BY DEF Event, NameChange
  <1> HIDE DEF e
  <1>3. value # Junk => Planned(e) /\ e.op # "parent_set"
    BY <1>2 DEF Planned, IsEvent, NamesThread, Threaded, Ops, NameOps
  <1>4. CASE CommitOp(p, "alias", e) /\ value # Junk
    BY <1>3, <1>4, OneEvent
  <1>5. CASE Usage(p) \/ Refuse(p) \/ Preview(p)
    BY <1>5 DEF Usage, Refuse, Preview, Ends, Started
  <1> QED
    BY <1>1, <1>4, <1>5 DEF SetAlias, e

LEMMA NameBegins ==
  ASSUME day \in Nat, NEW p, SetNameCall(p)
  PROVE  Started(p)
  <1>1. PICK sid \in Sids, channel \in {"cc_custom_title", "alias"},
             value \in Texts \union {Null, Junk} : SetName(p, sid, channel, value)
    BY DEF SetNameCall
  <1> DEFINE e == Event("name_set", sid,
                        [channel |-> channel, value |-> value, source |-> "harvest"])
  <1>2. e.op = "name_set" /\ e.sid = sid /\ NameChange(e).channel = channel /\ e.ts \in Nat
    BY DEF Event, NameChange
  <1> HIDE DEF e
  <1>3. Planned(e) /\ e.op # "parent_set"
    BY <1>2 DEF Planned, IsEvent, NamesThread, Threaded, Ops, NameOps
  <1>4. CASE CommitOp(p, "name", e)
    BY <1>3, <1>4, OneEvent
  <1>5. CASE Refuse(p)
    BY <1>5 DEF Refuse, Ends, Started
  <1> QED
    BY <1>1, <1>4, <1>5 DEF SetName, e

LEMMA LinkBegins ==
  ASSUME day \in Nat, NEW p, LinkCommand(p)
  PROVE  Started(p)
  <1>5. CASE Usage(p) \/ Preview(p)
    BY <1>5 DEF Usage, Preview, Ends, Started
  <1> SUFFICES ASSUME ~(Usage(p) \/ Preview(p))
               PROVE  Started(p)
    BY <1>5
  <1>1. PICK sid \in Sids, tasks \in SUBSET {"t1"} :
          UnlinkTask(p, sid, tasks) \/ LinkTask(p, sid, tasks)
    BY DEF LinkCommand
  <1> DEFINE e == Event("session_link", sid, [tasks |-> tasks, remove |-> FALSE])
             d == Event("session_unlink", sid, [tasks |-> tasks])
  <1>2. e.op = "session_link" /\ e.sid = sid /\ d.op = "session_unlink" /\ d.sid = sid
        /\ e.ts \in Nat /\ d.ts \in Nat
    BY DEF Event
  <1> HIDE DEF e, d
  <1>3. Planned(e) /\ e.op # "parent_set" /\ Planned(d) /\ d.op # "parent_set"
    BY <1>2, NamelessPlanned
  <1>4. CASE CommitOp(p, "link", e) \/ CommitOp(p, "link", d)
    BY <1>3, <1>4, OneEvent
  <1> QED
    BY <1>1, <1>4 DEF LinkTask, UnlinkTask, e, d

LEMMA CloseBegins ==
  ASSUME day \in Nat, NEW p, CloseCommand(p)
  PROVE  Started(p)
  <1>1. PICK sid \in Sids, outcome \in {Null, "unknown", "open", "done"} :
          Usage(p) \/ Preview(p) \/ CloseSession(p, sid, outcome)
    BY DEF CloseCommand
  <1> DEFINE e == Event("close", sid, [outcome |-> outcome])
  <1>2. e.op = "close" /\ e.sid = sid /\ e.ts \in Nat
    BY DEF Event
  <1> HIDE DEF e
  <1>3. Planned(e) /\ e.op # "parent_set"
    BY <1>2, NamelessPlanned
  <1>4. CASE CommitOp(p, "close", e)
    BY <1>3, <1>4, OneEvent
  <1>5. CASE Usage(p) \/ Preview(p)
    BY <1>5 DEF Usage, Preview, Ends, Started
  <1> QED
    BY <1>1, <1>4, <1>5 DEF CloseSession, e

\* What setParent finds before it logs the event.
LEMMA ParentBegins ==
  ASSUME day \in Nat, NEW p, LinkParentCommand(p)
  PROVE  Started(p)
  <1>1. PICK child \in Sids, parent \in Sids \union {Null} :
          Usage(p) \/ Refuse(p) \/ Preview(p) \/ SetParent(p, child, parent)
    BY DEF LinkParentCommand
  <1> DEFINE e == Event("parent_set", child, [parent |-> parent])
  <1>2. e.op = "parent_set" /\ e.sid = child /\ e.p.parent = parent /\ e.ts \in Nat
    BY DEF Event
  <1> HIDE DEF e
  <1>3. Planned(e)
    BY <1>2, NamelessPlanned
  <1>4. CASE Usage(p) \/ Refuse(p) \/ Preview(p)
    BY <1>4 DEF Usage, Refuse, Preview, Ends, Started
  <1>5. CASE /\ CommitOp(p, "parent", e)
             /\ parent # Null /\ EnsureSessionExists(child) => ~WouldCycle(child, parent)
    <2>1. CASE EnsureSessionExists(child)
      <3>1. NoLoop(sessions, child, parent)
        BY <1>5, <2>1 DEF NoLoop, WouldCycle, Ancestor
      <3> QED
        BY <1>2, <1>3, <1>5, <3>1, OneEvent
    <2>2. CASE ~EnsureSessionExists(child)
      BY <1>2, <1>5, <2>2 DEF CommitOp, Refuse, Ends, Started
    <2> QED
      BY <2>1, <2>2
  <1> QED
    BY <1>1, <1>4, <1>5 DEF SetParent, e

\* What a sweep computes.
LEMMA ProgressIs ==
  ASSUME AreSessions(sessions), AreTimes(day, indexed), NEW sid \in DOMAIN sessions
  PROVE  /\ Progress(sessions, indexed, sid) \in Nat
         /\ EffectiveLastProgress(sid) = Progress(sessions, indexed, sid)
         /\ \A opts : TargetState(sid, opts) = StateAt(Progress(sessions, indexed, sid), day, opts)
  <1> DEFINE a == sessions[sid].last_progress_at
             b == indexed[sid]
             S == {a, b}
  <1>1. a \in Nat /\ b \in Nat
    BY DEF AreSessions, AreTimes, IsRecord
  <1>2. EffectiveLastProgress(sid) = Max(S)
    BY DEF EffectiveLastProgress
  <1>3. Progress(sessions, indexed, sid) = IF a > b THEN a ELSE b
    BY DEF Progress
  <1> HIDE DEF a, b
  <1>4. Max(S) = IF a > b THEN a ELSE b
    <2>1. S \in SUBSET Nat /\ S # {} /\ a + b \in Nat /\ \A m \in S : m <= a + b
      BY <1>1
    <2> HIDE DEF S
    <2>2. Max(S) \in S /\ \A m \in S : m <= Max(S)
      BY <2>1, MaxIs
    <2> QED
      BY <1>1, <2>2 DEF S
  <1> HIDE DEF S
  <1>5. /\ Progress(sessions, indexed, sid) \in Nat
        /\ EffectiveLastProgress(sid) = Progress(sessions, indexed, sid)
    BY <1>1, <1>2, <1>3, <1>4
  <1> QED
    BY <1>5 DEF TargetState, StateAt

LEMMA SweepBegins ==
  ASSUME AreSessions(sessions), AreTimes(day, indexed), NEW p, SweepCommand(p)
  PROVE  Started(p)
  <1>1. CASE Usage(p) \/ Refuse(p) \/ Preview(p)
    BY <1>1 DEF Usage, Refuse, Preview, Ends, Started
  <1>2. ASSUME NEW opts, opts.idle \in Nat, opts.archive \in Nat,
               Begins(p, Running("sweep",
                 SetToSeq({SweepEvent(sid, opts) : sid \in SweepTransitions(opts)}),
                 opts, {}, NoScan))
        PROVE  Started(p)
    <2> DEFINE due == SweepTransitions(opts)
               f == [sid \in due |-> SweepEvent(sid, opts)]
               events == {f[sid] : sid \in due}
               plan == SetToSeq(events)
               c == Running("sweep", plan, opts, {}, NoScan)
               Now(x) == Progress(sessions, indexed, x)
               Due(e) == /\ e.op = "sweep" /\ e.sid \in DOMAIN sessions
                         /\ e.p.effective = Now(e.sid)
                         /\ e.p.activity = StateAt(Now(e.sid), day, opts)
    <2>1. due \in SUBSET Sids /\ due \in SUBSET DOMAIN sessions
      BY DEF SweepTransitions, AreSessions
    <2>2. Begins(p, c)
      <3>1. events = {SweepEvent(sid, opts) : sid \in SweepTransitions(opts)}
        OBVIOUS
      <3> HIDE DEF events
      <3> QED
        BY <1>2, <3>1
    <2>3. \A x \in due : f[x].sid = x /\ f[x].ts \in Nat /\ Due(f[x]) /\ Now(x) \in Nat
      BY <2>1, ProgressIs DEF SweepEvent, Event, AreTimes
    <2>4. \A x \in DOMAIN sessions :
            x \in due \/ sessions[x].activity \in {"archived", StateAt(Now(x), day, opts)}
      BY ProgressIs DEF SweepTransitions
    <2> HIDE DEF f, due, Due, Now
    <2>5. IsFiniteSet(events)
      <3>1. IsFiniteSet(due)
        BY <2>1, SidsType, FS_Subset
      <3> QED
        BY <3>1, ImageIsFinite
    <2>6. \A e \in events : Due(e) /\ Planned(e) /\ e.op # "parent_set"
      <3> SUFFICES ASSUME NEW x \in due
                   PROVE  Due(f[x]) /\ Planned(f[x]) /\ f[x].op # "parent_set"
        OBVIOUS
      <3>1. f[x].op = "sweep" /\ f[x].p.effective \in Nat
        BY <2>3 DEF Due
      <3> QED
        BY <2>1, <2>3, <3>1 DEF Planned, IsEvent, NamesThread, Ops, NamelessOps, NameOps
    <2>7. \A x \in due : \E e \in events : e.sid = x
      BY <2>3
    <2> HIDE DEF events
    <2>8. plan \in Seq(events) /\ ToSet(plan) = events
      BY <2>5, SetToSeqOnce
    <2> HIDE DEF plan
    <2>9. IsPlan(plan) /\ \A e \in ToSet(plan) : e.op # "parent_set"
      BY <2>6, <2>8, PlanOf
    <2>10. c.kind = "sweep" /\ c.opts = opts /\ c.step = "run" /\ c.plan = plan
      BY RunningIs
    <2> HIDE DEF c
    <2>11. SweepHolds(c, sessions, indexed, day)
      BY <1>2, <2>4, <2>6, <2>7, <2>8, <2>10 DEF SweepHolds, Due, Now
    <2>12. IsCall(c) /\ IsCurrent(c, sessions, transcript) /\ Fresh(c)
      BY <2>9, <2>11, CallOfPlan DEF c
    <2> QED
      BY <2>2, <2>12 DEF Started
  <1>3. ASSUME NEW idle \in {Null, 2}, NEW archive \in {Null, 2}
        PROVE  LET opts == [idle |-> PickThreshold(idle, DefaultIdle),
                            archive |-> PickThreshold(archive, DefaultArchive)]
               IN  opts.idle \in Nat /\ opts.archive \in Nat
    BY <1>3, BoundsType DEF PickThreshold
  <1> QED
    BY <1>1, <1>2, <1>3 DEF SweepCommand, RunSweep

LEMMA HarvestBegins ==
  ASSUME AreSessions(sessions), NEW p, HarvestCommand(p)
  PROVE  Started(p)
  <1>1. PICK todo \in SUBSET {sid \in DOMAIN sessions : HasTranscript(sid)} :
          \/ Usage(p) \/ Preview(p)
          \/ Begins(p, Running("harvest", <<>>, Null, todo, NoScan))
    BY DEF HarvestCommand, RunHarvest
  <1>2. CASE Usage(p) \/ Preview(p)
    BY <1>2 DEF Usage, Preview, Ends, Started
  <1>3. CASE Begins(p, Running("harvest", <<>>, Null, todo, NoScan))
    <2> DEFINE c == Running("harvest", <<>>, Null, todo, NoScan)
    <2>1. /\ c = [f \in CallFields |-> c[f]] /\ c.kind = "harvest"
          /\ c.plan = <<>> /\ c.todo = todo /\ c.about = Null
      BY RunningIs
    <2>2. todo \subseteq Sids
      BY <1>1 DEF AreSessions
    <2> HIDE DEF c
    <2>3. IsCall(c) /\ IsCurrent(c, sessions, transcript) /\ Fresh(c)
      BY <2>1, <2>2, EmptyPlan DEF IsCall, IsCurrent, IsCautious, Fresh, SweepHolds
    <2> QED
      BY <1>3, <2>3 DEF Started, c
  <1> QED
    BY <1>1, <1>2, <1>3

\* A scan that prune trusts has seen what there is.
LEMMA PruneBegins ==
  ASSUME NEW p, PruneCommand(p)
  PROVE  Started(p)
  <1>2. CASE Usage(p) \/ Refuse(p) \/ Preview(p)
    BY <1>2 DEF Usage, Refuse, Preview, Ends, Started
  <1>3. ASSUME NEW accept \in BOOLEAN, NEW scan \in Scans, IsTrusted(scan) \/ accept,
               Begins(p, Running("prune", <<>>, accept, PruneCandidates(scan), scan))
        PROVE  Started(p)
    <2> DEFINE c == Running("prune", <<>>, accept, PruneCandidates(scan), scan)
    <2>1. /\ c = [f \in CallFields |-> c[f]] /\ c.kind = "prune" /\ c.plan = <<>>
          /\ c.opts = accept /\ c.scan = scan
      BY RunningIs
    <2>2. ~accept => scan.files > 0 /\ scan.seen = OnDiskNow(transcript)
      BY <1>3 DEF IsTrusted, Scans, OnDiskNow
    <2> HIDE DEF c
    <2>3. IsCall(c) /\ IsCurrent(c, sessions, transcript) /\ Fresh(c)
      BY <2>1, <2>2, EmptyPlan DEF IsCall, IsCurrent, IsCautious, Fresh, SweepHolds
    <2> QED
      BY <1>3, <2>3 DEF Started, c
  <1> QED
    BY <1>2, <1>3 DEF PruneCommand, RunPrune

LEMMA CodexBegins ==
  ASSUME NEW p, IngestCodexCommand(p) \/ RunCodexHook(p)
  PROVE  Started(p)
  <1>1. CASE Usage(p) \/ Preview(p)
    BY <1>1 DEF Usage, Preview, Ends, Started
  <1>2. ASSUME NEW todo, Begins(p, Running("codex", <<>>, Null, todo, NoScan))
        PROVE  Started(p)
    <2> DEFINE c == Running("codex", <<>>, Null, todo, NoScan)
    <2>1. c = [f \in CallFields |-> c[f]] /\ c.kind = "codex" /\ c.plan = <<>>
      BY RunningIs
    <2> HIDE DEF c
    <2>2. IsCall(c) /\ IsCurrent(c, sessions, transcript) /\ Fresh(c)
      BY <2>1, EmptyPlan DEF IsCall, IsCurrent, IsCautious, Fresh, SweepHolds
    <2> QED
      BY <1>2, <2>2 DEF Started, c
  <1>3. ASSUME NEW thread, Begins(p, [Running("hook", <<>>, Null, {thread}, NoScan)
                                        EXCEPT !.about = CodexName(thread)])
        PROVE  Started(p)
    <2> DEFINE r == Running("hook", <<>>, Null, {thread}, NoScan)
    <2>1. r = [f \in CallFields |-> r[f]] /\ r.kind = "hook" /\ r.plan = <<>>
      BY DEF Running, Idle, CallFields
    <2> HIDE DEF r
    <2> DEFINE c == [r EXCEPT !.about = CodexName(thread)]
    <2>2. c = [f \in CallFields |-> c[f]] /\ c.kind = "hook" /\ c.plan = <<>>
      BY <2>1
    <2>3. Begins(p, c)
      BY <1>3 DEF r
    <2> HIDE DEF c
    <2>4. IsCall(c) /\ IsCurrent(c, sessions, transcript) /\ Fresh(c)
      BY <2>2, EmptyPlan DEF IsCall, IsCurrent, IsCautious, Fresh, SweepHolds
    <2> QED
      BY <2>3, <2>4 DEF Started
  <1> QED
    BY <1>1, <1>2, <1>3 DEF IngestCodexCommand, RunIngestCodex, RunCodexHook

LEMMA BeginIs ==
  ASSUME AreSessions(sessions), AreTimes(day, indexed), NEW p, Begin(p)
  PROVE  Started(p)
  BY AliasBegins, NameBegins, LinkBegins, CloseBegins, ParentBegins, SweepBegins,
     HarvestBegins, PruneBegins, CodexBegins DEF Begin, AreTimes

-----------------------------------------------------------------------------
\* The steps and the sessions.

LEMMA InvIs ==
  ASSUME OperationsInv
  PROVE  /\ Paired(sessions, logged, unfolded, threadIndex)
         /\ AreSessions(sessions) /\ AreSessions(logged)
         /\ OneThread(sessions) /\ NamedByIndex(sessions, threadIndex)
         /\ threadIndex \in Seq(Threads) /\ AreTimes(day, indexed) /\ day \in Nat
  BY DEF OperationsInv, Paired, AreTimes

LEMMA NoChange ==
  ASSUME OperationsInv, UNCHANGED <<sessions, logged, unfolded>>
  PROVE  GoodChange
  BY InvIs, NothingFollows DEF GoodChange

LEMMA ObserveChange ==
  ASSUME OperationsInv, NEW p, Observe(p) \/ ObserveFails(p)
  PROVE  GoodChange
  <1>1. PICK thread, onlyNew, early, saved :
          RecordCodexObservation(thread, onlyNew, early, saved)
    BY DEF Observe, ObserveFails
  <1>2. CASE RecordsNothing
    BY <1>2, NoChange DEF RecordsNothing
  <1>3. ASSUME NEW sid \in IF ThreadOwners(thread) # {} THEN ThreadOwners(thread) ELSE NewIds,
               WriteObservation(ObservationEvents(thread, sid, CodexName(thread)), saved)
        PROVE  GoodChange
    BY <1>3, InvIs, ObservedIs
  <1> QED
    BY <1>1, <1>2, <1>3 DEF RecordCodexObservation

\* Events that were planned change no thread and no name of one.
LEMMA PlannedGood ==
  ASSUME OperationsInv, NEW e, Planned(e), e.op # "parent_set", Stores(<<e>>)
  PROVE  GoodChange
  <1>1. Lawful(e, sessions, logged, threadIndex) /\ ~NamesThread(e)
    BY PlannedLawful DEF Planned
  <1>2. /\ sessions' = FoldSession(sessions, e) /\ logged' = FoldSession(logged, e)
        /\ unfolded' = unfolded
    <2>1. \A ss : FoldLeft(FoldSession, ss, <<e>>) = FoldSession(ss, e)
      BY FoldFew
    <2> QED
      BY <2>1 DEF Stores
  <1> QED
    BY <1>1, <1>2, InvIs, FoldBoth DEF GoodChange

LEMMA SpeakChange ==
  ASSUME OperationsInv, Speak
  PROVE  GoodChange
  <1>1. PICK e : /\ e.op \in {"session_seen", "session_progress"} /\ e.sid \in DOMAIN sessions /\ e.ts = day
                 /\ Stores(<<e>>)
    BY EventIs DEF Speak
  <1>2. Planned(e) /\ e.op # "parent_set"
    BY <1>1, InvIs DEF Planned, IsEvent, NamesThread, Ops, NamelessOps, NameOps, AreSessions
  <1> QED
    BY <1>1, <1>2, PlannedGood

\* The head of a plan, whether it can be written or not.
LEMMA HeadIsPlanned ==
  ASSUME OperationsInv, NEW p \in Procs, call[p].plan # <<>>
  PROVE  LET e == Head(call[p].plan) IN
         /\ e \in ToSet(call[p].plan) /\ Planned(e) /\ ~NamesThread(e)
         /\ Lawful(e, sessions, logged, threadIndex)
  <1>1. IsPlan(call[p].plan)
    BY DEF OperationsInv, IsCall
  <1> QED
    BY <1>1, PlanHeadTail, PlannedLawful DEF Planned

LEMMA CommitFailsChange ==
  ASSUME OperationsInv, NEW p \in Procs, CommitFails(p)
  PROVE  GoodChange
  <1> DEFINE e == Head(call[p].plan)
  <1>1. UNCHANGED sessions /\ \/ UNCHANGED <<logged, unfolded>>
                              \/ /\ logged' = FoldSession(logged, e)
                                 /\ unfolded' = unfolded \union {e.op}
    BY DEF CommitFails
  <1>2. Lawful(e, sessions, logged, threadIndex)
    BY HeadIsPlanned DEF CommitFails
  <1> HIDE DEF e
  <1>3. CASE UNCHANGED <<sessions, logged, unfolded>>
    BY <1>3, NoChange
  <1>4. CASE logged' = FoldSession(logged, e) /\ unfolded' = unfolded \union {e.op}
    <2>1. Paired(sessions, logged', unfolded', threadIndex)
      BY <1>2, <1>4, InvIs, FoldLate
    <2>2. Follows(sessions, sessions) /\ Orphans(sessions, sessions)
      BY InvIs, NothingFollows
    <2> QED
      BY <1>1, <2>1, <2>2 DEF GoodChange
  <1> QED
    BY <1>1, <1>3, <1>4

\* The one step that gives a session a parent: unless it was decided on what is
\* out of date, it closes no cycle.
LEMMA CommitChange ==
  ASSUME OperationsInv, NEW p \in Procs, Commit(p)
  PROVE  /\ Paired(sessions', logged', unfolded', threadIndex) /\ Follows(sessions, sessions')
         /\ ~crossed' /\ "parent_set" \notin late => NoCycle(sessions')
  <1> DEFINE e == Head(call[p].plan)
             plan == call[p].plan
  <1>1. plan # <<>> /\ (alone[p] => IsCurrent(call[p], sessions, transcript))
    BY DEF OperationsInv, Commit
  <1>2. /\ e \in ToSet(plan) /\ Planned(e) /\ ~NamesThread(e)
        /\ Lawful(e, sessions, logged, threadIndex)
    BY <1>1, HeadIsPlanned
  <1>3. /\ sessions' = FoldSession(sessions, e) /\ logged' = FoldSession(logged, e)
        /\ unfolded' = unfolded
        /\ crossed' = (crossed \/ (e.op = "parent_set" /\ ~alone[p]))
    BY DEF Commit
  <1>4. alone[p] /\ e.op = "parent_set" => NoLoop(sessions, e.sid, e.p.parent)
    BY <1>1, <1>2 DEF IsCurrent
  <1>5. ~crossed /\ "parent_set" \notin late => NoCycle(sessions)
    BY DEF OperationsInv
  <1> HIDE DEF e, plan
  <1>6. /\ Paired(sessions', logged', unfolded', threadIndex) /\ Follows(sessions, sessions')
        /\ e.op # "parent_set" => Orphans(sessions, sessions')
        /\ e.op = "parent_set" =>
             OrphansBut(sessions, sessions', e.sid) /\ ParentOf(sessions', e.sid) = e.p.parent
    BY <1>2, <1>3, InvIs, FoldBoth
  <1>7. ASSUME ~crossed', "parent_set" \notin late
        PROVE  NoCycle(sessions')
    <2>1. NoCycle(sessions) /\ (e.op = "parent_set" => alone[p])
      BY <1>3, <1>5, <1>7 DEF OperationsInv
    <2>2. AreSessions(sessions')
      BY <1>6 DEF Paired
    <2>3. CASE e.op # "parent_set"
      BY <1>6, <2>1, <2>2, <2>3, InvIs, NoNewParent
    <2>4. CASE e.op = "parent_set"
      <3>1. e.sid \in Sids
        BY <1>2 DEF Planned
      <3> QED
        BY <1>4, <1>6, <2>1, <2>2, <2>4, <3>1, InvIs, NoNewCycle
    <2> QED
      BY <2>3, <2>4
  <1> QED
    BY <1>6, <1>7

\* What every step does to the sessions: it keeps what holds of them, takes no
\* later name of a thread from a session that has room for it, and removes only
\* what nobody has touched.
StepGood ==
  /\ Paired(sessions', logged', unfolded', threadIndex') /\ threadIndex' \in Seq(Threads)
  /\ "codex_session_seen" \notin late' => Apart(sessions')
  /\ crossed' \in BOOLEAN
  /\ ~crossed' /\ "parent_set" \notin late' => NoCycle(sessions')
  /\ \A x \in DOMAIN sessions \intersect DOMAIN sessions' :
       ThreadName(sessions[x]) <= ThreadName(sessions'[x]) \/ IsFull(sessions'[x].names)
  /\ \A x \in DOMAIN sessions \ DOMAIN sessions' : IsUntouched(sessions[x])

LEMMA GoodStep ==
  ASSUME OperationsInv, GoodChange, UNCHANGED <<threadIndex, late, crossed>>
  PROVE  StepGood
  <1>1. NoCycle(sessions) => NoCycle(sessions')
    BY InvIs, NoNewParent DEF GoodChange, Paired
  <1> QED
    BY <1>1 DEF OperationsInv, GoodChange, Follows, NamesAdvance, StepGood

\* A rebuild folds what calls that failed had logged; what those were tells what
\* it may break.
LEMMA RebuildChange ==
  ASSUME OperationsInv, Rebuild
  PROVE  StepGood
  <1>1. /\ sessions' = logged /\ logged' = logged /\ unfolded' = {}
        /\ late' = late \union (unfolded \intersect BindingOps)
        /\ UNCHANGED <<threadIndex, crossed>>
    BY DEF Rebuild
  <1>2. Trails(sessions, logged, unfolded)
    BY InvIs DEF Paired
  <1>3. Paired(logged, logged, {}, threadIndex)
    <2>1. AreSessions(logged) /\ OneThread(logged) /\ NamedByIndex(logged, threadIndex)
      BY InvIs DEF Paired
    <2>2. \A x \in DOMAIN logged : ThreadName(logged[x]) <= ThreadName(logged[x])
      BY <2>1 DEF NamedByIndex
    <2>3. Trails(logged, logged, {})
      BY <2>2 DEF Trails, Orphans
    <2> QED
      BY <2>1, <2>3 DEF Paired
  <1>4. "codex_session_seen" \notin late' => Apart(logged)
    <2> SUFFICES ASSUME "codex_session_seen" \notin late'
                 PROVE  Apart(logged)
      OBVIOUS
    <2>1. Apart(sessions)
      BY <1>1 DEF OperationsInv
    <2>2. \A x : IdsOf(logged, x) \subseteq IdsOf(sessions, x)
      BY <1>1, <1>2 DEF Trails, BindingOps
    <2>3. \A x, y : x # y => IdsOf(sessions, x) \intersect IdsOf(sessions, y) = {}
      BY <2>1 DEF Apart, IdsOf
    <2>4. \A x, y : x # y => IdsOf(logged, x) \intersect IdsOf(logged, y) = {}
      BY <2>2, <2>3
    <2> QED
      BY <2>4 DEF Apart, IdsOf
  <1>5. ~crossed' /\ "parent_set" \notin late' => NoCycle(logged)
    <2> SUFFICES ASSUME ~crossed', "parent_set" \notin late'
                 PROVE  NoCycle(logged)
      OBVIOUS
    <2>1. NoCycle(sessions) /\ Orphans(sessions, logged)
      BY <1>1, <1>2 DEF OperationsInv, Trails, BindingOps
    <2> QED
      BY <2>1, InvIs, NoNewParent
  <1>6. crossed' \in BOOLEAN /\ threadIndex' \in Seq(Threads)
    BY <1>1, InvIs DEF OperationsInv
  <1> QED
    BY <1>1, <1>2, <1>3, <1>4, <1>5, <1>6 DEF Trails, StepGood

\* Every step.
LEMMA SessionsStep ==
  ASSUME OperationsInv, [Next]_vars
  PROVE  StepGood
  <1>1. ASSUME UNCHANGED <<sessions, logged, unfolded, threadIndex, late, crossed>>
        PROVE  StepGood
    BY <1>1, NoChange, GoodStep
  <1>2. CASE UNCHANGED vars
    BY <1>1, <1>2 DEF vars
  <1>3. ASSUME NEW p \in Procs, Begin(p)
        PROVE  StepGood
    <2>1. Started(p)
      BY <1>3, InvIs, BeginIs
    <2>2. UNCHANGED <<sessions, logged, unfolded, threadIndex, late, crossed>>
      BY <2>1 DEF Started, Begins, vars
    <2> QED
      BY <1>1, <2>2
  <1>4. ASSUME NEW p \in Procs, Commit(p)
        PROVE  StepGood
    <2>1. UNCHANGED <<threadIndex, late>>
      BY <1>4 DEF Commit
    <2>2. crossed' \in BOOLEAN
      BY <1>4, Zenon DEF OperationsInv, Commit
    <2>3. "codex_session_seen" \notin late => Apart(sessions)
      BY DEF OperationsInv
    <2> QED
      BY <1>4, <2>1, <2>2, <2>3, InvIs, CommitChange DEF Follows, NamesAdvance, StepGood
  <1>5. ASSUME NEW p \in Procs, HarvestNext(p) \/ Return(p)
        PROVE  StepGood
    <2>1. UNCHANGED <<sessions, logged, unfolded, threadIndex, late, crossed>>
      BY <1>5 DEF HarvestNext, Return
    <2> QED
      BY <1>1, <2>1
  <1>6. ASSUME NEW p \in Procs, PruneLocked(p) \/ Observe(p) \/ ObserveFails(p) \/ CommitFails(p)
        PROVE  StepGood
    <2>1. UNCHANGED <<threadIndex, crossed>>
      BY <1>6 DEF PruneLocked, PruneRest, Observe, ObserveFails, CommitFails
    <2>2. UNCHANGED late
      BY <1>6 DEF PruneLocked, PruneRest, Observe, ObserveFails, CommitFails,
                  RecordCodexObservation, WriteObservation, RecordsNothing, Stores, OnlyLogs
    <2>3. GoodChange
      BY <1>6, InvIs, PruneIs, ObserveChange, CommitFailsChange
    <2> QED
      BY <2>1, <2>2, <2>3, GoodStep
  <1>7. CASE SyncCodexNamesCommand
    <2>1. CASE SyncCodexNames
      <3>1. GoodChange
        BY <2>1, InvIs, SyncIs
      <3>2. UNCHANGED <<threadIndex, late, crossed>>
        BY <2>1 DEF SyncCodexNames, Stores, OnlyLogs
      <3> QED
        BY <3>1, <3>2, GoodStep
    <2>2. CASE UNCHANGED vars
      BY <1>2, <2>2
    <2> QED
      BY <1>7, <2>1, <2>2 DEF SyncCodexNamesCommand
  <1>8. CASE NameThread
    <2>1. PICK t \in Threads : threadIndex' = Append(threadIndex, t)
      BY <1>8 DEF NameThread
    <2>2. UNCHANGED <<sessions, logged, unfolded, late, crossed>>
      BY <1>8 DEF NameThread
    <2>3. threadIndex' \in Seq(Threads)
      BY <2>1, InvIs
    <2>4. ASSUME NEW ss, NamedByIndex(ss, threadIndex)
          PROVE  NamedByIndex(ss, threadIndex')
      <3>1. \A x : RowOf(threadIndex, x) <= RowOf(threadIndex', x)
                   /\ RowOf(threadIndex, x) \in Nat /\ RowOf(threadIndex', x) \in Nat
        BY <2>1, <2>3, InvIs, RowIs
      <3> QED
        BY <2>4, <3>1 DEF NamedByIndex
    <2>5. Paired(sessions, logged, unfolded, threadIndex')
      BY <2>4, InvIs DEF Paired
    <2>6. NamesAdvance(sessions, sessions)
      BY InvIs, NothingFollows DEF Follows
    <2> QED
      BY <2>2, <2>3, <2>5, <2>6 DEF OperationsInv, NamesAdvance, StepGood
  <1>9. CASE Tick \/ WriteTranscript
    <2>1. UNCHANGED <<sessions, logged, unfolded, threadIndex, late, crossed>>
      BY <1>9 DEF Tick, WriteTranscript
    <2> QED
      BY <1>1, <2>1
  <1>10. CASE Speak
    <2>1. UNCHANGED <<threadIndex, late, crossed>>
      BY <1>10 DEF Speak, Stores
    <2> QED
      BY <1>10, <2>1, SpeakChange, GoodStep
  <1>11. CASE Rebuild
    BY <1>11, RebuildChange
  <1> QED
    BY <1>2, <1>3, <1>4, <1>5, <1>6, <1>7, <1>8, <1>9, <1>10, <1>11 DEF Next, Continue

-----------------------------------------------------------------------------
\* The steps and the calls.

CallsInv ==
  /\ AreTranscripts(transcript)
  /\ call = [p \in Procs |-> call[p]] /\ \A p \in Procs : IsCall(call[p])
  /\ alone \in [Procs -> BOOLEAN]
  /\ \A p \in Procs : alone[p] => IsCurrent(call[p], sessions, transcript)

\* A step of p that replaces its call by c, and after which the others are alone
\* only if they were and nothing they read has changed.
LEMMA OneCall ==
  ASSUME OperationsInv, NEW p \in Procs, NEW c, IsCall(c), call' = [call EXCEPT ![p] = c],
         alone' \in [Procs -> BOOLEAN], UNCHANGED transcript,
         alone'[p] => IsCurrent(c, sessions', transcript),
         \A q \in Procs \ {p} : alone'[q] => alone[q] /\ UNCHANGED sessions
  PROVE  CallsInv'
  <1>1. /\ AreTranscripts(transcript)
        /\ call = [q \in Procs |-> call[q]] /\ \A q \in Procs : IsCall(call[q])
        /\ \A q \in Procs : alone[q] => IsCurrent(call[q], sessions, transcript)
    BY DEF OperationsInv
  <1>2. call' = [q \in Procs |-> call'[q]]
    BY <1>1
  <1>3. \A q \in Procs : call'[q] = IF q = p THEN c ELSE call[q]
    BY <1>1
  <1>4. \A q \in Procs : IsCall(call'[q])
    BY <1>1, <1>3
  <1>5. ASSUME NEW q \in Procs, alone'[q]
        PROVE  IsCurrent(call'[q], sessions', transcript')
    <2>1. CASE q = p
      BY <1>3, <1>5, <2>1
    <2>2. CASE q # p
      <3>1. alone[q] /\ UNCHANGED sessions
        BY <1>5, <2>2
      <3>2. IsCurrent(call[q], sessions, transcript)
        BY <1>1, <3>1
      <3> QED
        BY <1>3, <2>2, <3>1, <3>2
    <2> QED
      BY <2>1, <2>2
  <1> QED
    BY <1>1, <1>2, <1>4, <1>5 DEF CallsInv

\* A step that leaves the calls alone.
LEMMA NobodyAlone ==
  ASSUME OperationsInv, UNCHANGED call, AreTranscripts(transcript'),
         alone' = [p \in Procs |-> FALSE]
  PROVE  CallsInv'
  BY DEF OperationsInv, CallsInv

LEMMA DisturbIs ==
  ASSUME OperationsInv, NEW p \in Procs, Disturb(p)
  PROVE  /\ alone' \in [Procs -> BOOLEAN] /\ alone'[p] = alone[p]
         /\ \A q \in Procs \ {p} : ~alone'[q]
  BY DEF OperationsInv, Disturb

\* What is left of a call when the first event of its plan has been tried.
LEMMA Shorter ==
  ASSUME NEW c, IsCall(c), c.plan # <<>>, NEW failed
  PROVE  LET d == [c EXCEPT !.plan = Tail(c.plan), !.failed = failed] IN
         /\ IsCall(d)
         /\ \A ss, tt, tr : IsCurrent(c, ss, tr) => IsCurrent(d, tt, tr)
  <1> DEFINE d == [c EXCEPT !.plan = Tail(c.plan), !.failed = failed]
  <1>1. /\ d = [f \in CallFields |-> d[f]] /\ d.kind = c.kind /\ d.step = c.step
        /\ d.opts = c.opts /\ d.todo = c.todo /\ d.scan = c.scan /\ d.plan = Tail(c.plan)
    BY DEF IsCall, CallFields, Idle
  <1> HIDE DEF d
  <1>2. /\ IsPlan(Tail(c.plan)) /\ ToSet(Tail(c.plan)) \subseteq ToSet(c.plan)
        /\ Len(c.plan) = 1 => Tail(c.plan) = <<>>
    BY PlanHeadTail DEF IsCall
  <1>3. IsCall(d)
    BY <1>1, <1>2 DEF IsCall, IsCautious
  <1>4. ASSUME NEW ss, NEW tt, NEW tr, IsCurrent(c, ss, tr)
        PROVE  IsCurrent(d, tt, tr)
    <2>1. \A e \in ToSet(d.plan) : e.op # "parent_set"
      <3> SUFFICES ASSUME NEW e \in ToSet(d.plan), e.op = "parent_set"
                   PROVE  FALSE
        OBVIOUS
      <3>1. Len(c.plan) = 1
        BY <1>1, <1>2, <1>4 DEF IsCurrent
      <3> QED
        BY <1>1, <1>2, <3>1, EmptyPlan
    <2> QED
      BY <1>1, <1>4, <2>1 DEF IsCurrent, IsCautious
  <1> QED
    BY <1>3, <1>4 DEF d

LEMMA IdleIs ==
  IsCall(Idle) /\ \A ss, tr : IsCurrent(Idle, ss, tr)
  <1>1. Idle = [f \in CallFields |-> Idle[f]] /\ Idle.plan = <<>> /\ Idle.kind = "none"
    BY DEF Idle, CallFields
  <1> QED
    BY <1>1, EmptyPlan DEF IsCall, IsCurrent, IsCautious

LEMMA CommitCalls ==
  ASSUME OperationsInv, NEW p \in Procs, Commit(p) \/ CommitFails(p)
  PROVE  CallsInv'
  <1> DEFINE c == call[p]
  <1>1. IsCall(c) /\ c.plan # <<>> /\ (alone[p] => IsCurrent(c, sessions, transcript))
    BY DEF OperationsInv, Commit, CommitFails
  <1>2. c = [f \in CallFields |-> c[f]]
    BY <1>1 DEF IsCall
  <1>3. PICK failed :
          call' = [call EXCEPT ![p] = [c EXCEPT !.plan = Tail(c.plan), !.failed = failed]]
    <2>1. CASE Commit(p)
      <3>1. call' = [call EXCEPT ![p] = [c EXCEPT !.plan = Tail(c.plan)]]
        BY <2>1 DEF Commit
      <3>2. [c EXCEPT !.plan = Tail(c.plan)]
              = [c EXCEPT !.plan = Tail(c.plan), !.failed = c.failed]
        <4> HIDE DEF c
        <4> QED
          BY <1>2 DEF CallFields, Idle
      <3> QED
        BY <3>1, <3>2
    <2>2. CASE CommitFails(p)
      BY <2>2 DEF CommitFails
    <2> QED
      BY <2>1, <2>2
  <1> DEFINE d == [c EXCEPT !.plan = Tail(c.plan), !.failed = failed]
  <1> HIDE DEF c
  <1>4. IsCall(d) /\ (IsCurrent(c, sessions, transcript) => IsCurrent(d, sessions', transcript))
    BY <1>1, Shorter
  <1>5. call' = [call EXCEPT ![p] = d]
    BY <1>3
  <1> HIDE DEF d
  <1>6. UNCHANGED transcript
    BY DEF Commit, CommitFails
  <1>7. CASE Commit(p)
    <2>1. Disturb(p)
      BY <1>7 DEF Commit
    <2> QED
      BY <1>1, <1>4, <1>5, <1>6, <2>1, DisturbIs, OneCall
  <1>8. CASE CommitFails(p)
    <2>1. UNCHANGED <<alone, sessions>> /\ alone \in [Procs -> BOOLEAN]
      BY <1>8 DEF CommitFails, OperationsInv
    <2> QED
      BY <1>1, <1>4, <1>5, <1>6, <2>1, OneCall
  <1> QED
    BY <1>7, <1>8

LEMMA HarvestCalls ==
  ASSUME OperationsInv, NEW p \in Procs, HarvestNext(p)
  PROVE  CallsInv'
  <1> DEFINE c == call[p]
  <1>1. IsCall(c) /\ c.kind = "harvest" /\ AreTranscripts(transcript) /\ alone \in [Procs -> BOOLEAN]
    BY DEF OperationsInv, HarvestNext
  <1>2. PICK sid \in c.todo :
          call' = [call EXCEPT ![p] = [c EXCEPT !.todo = c.todo \ {sid},
                                        !.plan = HarvestPlan(sid), !.about = sid]]
    BY DEF HarvestNext
  <1> DEFINE d == [c EXCEPT !.todo = c.todo \ {sid}, !.plan = HarvestPlan(sid), !.about = sid]
  <1>3. sid \in Sids /\ c.todo \subseteq Sids
    BY <1>1 DEF IsCall
  <1>4. IsPlan(HarvestPlan(sid)) /\ \A e \in ToSet(HarvestPlan(sid)) : e.op # "parent_set"
    BY <1>1, <1>3, InvIs, HarvestPlanIs
  <1> HIDE DEF c
  <1>5. /\ d = [f \in CallFields |-> d[f]] /\ d.kind = "harvest"
        /\ d.plan = HarvestPlan(sid) /\ d.todo = c.todo \ {sid}
    BY <1>1 DEF IsCall, CallFields, Idle
  <1>6. call' = [call EXCEPT ![p] = d]
    BY <1>2
  <1> HIDE DEF d
  <1>7. IsCall(d) /\ IsCurrent(d, sessions, transcript)
    BY <1>3, <1>4, <1>5 DEF IsCall, IsCurrent, IsCautious
  <1>8. UNCHANGED <<sessions, transcript>>
    BY DEF HarvestNext
  <1>9. alone' = [alone EXCEPT ![p] = call'[p].about \in DOMAIN sessions]
    BY DEF HarvestNext
  <1>10. /\ alone' \in [Procs -> BOOLEAN]
         /\ \A q \in Procs \ {p} : alone'[q] => alone[q]
    BY <1>1, <1>9
  <1>11. alone'[p] => IsCurrent(d, sessions', transcript)
    BY <1>7, <1>8
  <1> QED
    BY <1>6, <1>7, <1>8, <1>10, <1>11, OneCall

LEMMA PruneCalls ==
  ASSUME OperationsInv, NEW p \in Procs, PruneLocked(p)
  PROVE  CallsInv'
  <1>1. call' = [call EXCEPT ![p] = Idle] /\ Disturb(p) /\ UNCHANGED transcript
    BY DEF PruneLocked, PruneRest
  <1> QED
    BY <1>1, DisturbIs, IdleIs, OneCall

LEMMA ObserveCalls ==
  ASSUME OperationsInv, NEW p \in Procs, Observe(p) \/ ObserveFails(p)
  PROVE  CallsInv'
  <1> DEFINE c == call[p]
  <1>1. IsCall(c) /\ c.kind \in {"codex", "hook"} /\ alone \in [Procs -> BOOLEAN]
    BY DEF OperationsInv, Observe, ObserveFails
  <1>2. PICK todo, failed :
          call' = [call EXCEPT ![p] = [c EXCEPT !.todo = todo, !.failed = failed]]
    <2>1. CASE Observe(p)
      <3>1. PICK todo : call' = [call EXCEPT ![p] = [c EXCEPT !.todo = todo]]
        BY <2>1 DEF Observe
      <3>2. [c EXCEPT !.todo = todo] = [c EXCEPT !.todo = todo, !.failed = c.failed]
        <4>1. c = [f \in CallFields |-> c[f]]
          BY <1>1 DEF IsCall
        <4> HIDE DEF c
        <4> QED
          BY <4>1 DEF CallFields, Idle
      <3> QED
        BY <3>1, <3>2
    <2>2. CASE ObserveFails(p)
      <3>1. PICK thread : call' = [call EXCEPT ![p].todo = @ \ {thread}, ![p].failed = TRUE]
        BY <2>2 DEF ObserveFails
      <3> QED
        BY <3>1, ZenonT(40)
    <2> QED
      BY <2>1, <2>2
  <1> DEFINE d == [c EXCEPT !.todo = todo, !.failed = failed]
  <1> HIDE DEF c
  <1>3. /\ d = [f \in CallFields |-> d[f]] /\ d.kind \in {"codex", "hook"} /\ d.plan = <<>>
    BY <1>1 DEF IsCall, CallFields, Idle
  <1>4. call' = [call EXCEPT ![p] = d]
    BY <1>2
  <1> HIDE DEF d
  <1>5. IsCall(d) /\ \A ss, tr : IsCurrent(d, ss, tr)
    BY <1>3, EmptyPlan DEF IsCall, IsCurrent, IsCautious
  <1>6. UNCHANGED transcript
    BY DEF Observe, ObserveFails
  <1>7. CASE Observe(p)
    <2>1. Disturb(p)
      BY <1>7 DEF Observe
    <2> QED
      BY <1>4, <1>5, <1>6, <2>1, DisturbIs, OneCall
  <1>8. CASE ObserveFails(p)
    <2>1. UNCHANGED <<alone, sessions>>
      BY <1>8 DEF ObserveFails, RecordCodexObservation, WriteObservation, RecordsNothing, OnlyLogs
    <2> QED
      BY <1>1, <1>4, <1>5, <1>6, <2>1, OneCall
  <1> QED
    BY <1>7, <1>8

LEMMA ReturnCalls ==
  ASSUME OperationsInv, NEW p \in Procs, Return(p)
  PROVE  CallsInv'
  <1> DEFINE c == call[p]
  <1>1. IsCall(c) /\ c.plan = <<>> /\ alone \in [Procs -> BOOLEAN]
    BY DEF OperationsInv, Return
  <1>2. /\ UNCHANGED <<transcript, sessions>>
        /\ alone' = [alone EXCEPT ![p] = alone[p] /\ c.kind = "sweep"]
    BY DEF Return
  <1>3. PICK d : /\ call' = [call EXCEPT ![p] = d]
                 /\ \/ d = Idle
                    \/ c.kind = "sweep" /\ d = [c EXCEPT !.step = "done", !.exit = ExitCode(c)]
    <2>1. call' = [call EXCEPT ![p] =
                     IF c.kind # "sweep" THEN Idle
                     ELSE [c EXCEPT !.step = "done", !.exit = ExitCode(c)]]
      BY DEF Return
    <2> QED
      BY <2>1
  <1> HIDE DEF c
  <1>4. IsCall(d) /\ \A ss, tr : IsCurrent(d, ss, tr)
    <2>1. CASE d = Idle
      BY <2>1, IdleIs
    <2>2. CASE c.kind = "sweep" /\ d = [c EXCEPT !.step = "done", !.exit = ExitCode(c)]
      <3>1. d = [f \in CallFields |-> d[f]] /\ d.kind = "sweep" /\ d.plan = <<>>
        BY <1>1, <2>2 DEF IsCall, CallFields, Idle
      <3> QED
        BY <3>1, EmptyPlan DEF IsCall, IsCurrent, IsCautious
    <2> QED
      BY <1>3, <2>1, <2>2
  <1>5. alone' \in [Procs -> BOOLEAN] /\ \A q \in Procs \ {p} : alone'[q] => alone[q]
    BY <1>1, <1>2
  <1> QED
    BY <1>2, <1>3, <1>4, <1>5, OneCall

LEMMA BeginCalls ==
  ASSUME OperationsInv, NEW p \in Procs, NEW c, Begins(p, c), IsCall(c),
         IsCurrent(c, sessions, transcript)
  PROVE  CallsInv'
  <1>1. /\ call' = [call EXCEPT ![p] = c] /\ alone' = [alone EXCEPT ![p] = TRUE]
        /\ UNCHANGED <<sessions, transcript>> /\ alone \in [Procs -> BOOLEAN]
    BY DEF Begins, OperationsInv
  <1>2. alone' \in [Procs -> BOOLEAN] /\ \A q \in Procs \ {p} : alone'[q] => alone[q]
    BY <1>1
  <1> QED
    BY <1>1, <1>2, OneCall

LEMMA WriteCalls ==
  ASSUME OperationsInv, WriteTranscript
  PROVE  CallsInv'
  <1>1. PICK sid \in DOMAIN sessions, place \in {"home", "elsewhere"} :
          \E r \in NewRecords(Len(transcript[sid].records)) :
            transcript' = [transcript EXCEPT
              ![sid] = [where |-> IF transcript[sid].where = "none" THEN place
                                  ELSE transcript[sid].where,
                        records |-> Append(transcript[sid].records, r)]]
    BY DEF WriteTranscript
  <1>r. PICK r \in NewRecords(Len(transcript[sid].records)) :
          transcript' = [transcript EXCEPT
            ![sid] = [where |-> IF transcript[sid].where = "none" THEN place
                                ELSE transcript[sid].where,
                      records |-> Append(transcript[sid].records, r)]]
    BY <1>1
  <1>2. sid \in Sids /\ AreTranscripts(transcript)
    BY InvIs DEF OperationsInv, AreSessions
  <1> DEFINE old == transcript[sid].records
             new == Append(old, r)
  <1>3. new \in Seq(ToSet(new))
    <2>1. old \in Seq(ToSet(old))
      BY <1>2 DEF AreTranscripts
    <2> DEFINE S == ToSet(old)
    <2> HIDE DEF S, old
    <2>2. old \in Seq(S) => new \in Seq(S \union {r})
      OBVIOUS
    <2>3. new \in Seq(S \union {r})
      BY <2>1, <2>2 DEF S
    <2> HIDE DEF new
    <2> QED
      BY <2>3, SeqOfItself
  <1> DEFINE where == IF transcript[sid].where = "none" THEN place ELSE transcript[sid].where
             t == [where |-> where, records |-> new]
  <1>4. where \in {"home", "elsewhere"}
    BY <1>2 DEF AreTranscripts
  <1>5. transcript' = [transcript EXCEPT ![sid] = t]
    BY <1>r
  <1>a. \A i \in DOMAIN new : new[i].at = i - 1
    <2>1. old \in Seq(ToSet(old)) /\ \A i \in DOMAIN old : old[i].at = i - 1
      BY <1>2 DEF AreTranscripts
    <2>2. r.at = Len(old)
      BY <1>r DEF NewRecords, Said
    <2> DEFINE S == ToSet(old)
    <2> HIDE DEF S, old
    <2>3. /\ DOMAIN Append(old, r) = 1 .. Len(old) + 1 /\ DOMAIN old = 1 .. Len(old)
          /\ Len(old) \in Nat /\ Append(old, r)[Len(old) + 1] = r
          /\ \A i \in 1 .. Len(old) : Append(old, r)[i] = old[i]
      <3>1. old \in Seq(S)
        BY <2>1 DEF S
      <3> QED
        BY <3>1, ToSetAppend
    <2>4. \A i \in 1 .. Len(old) + 1 : i \in 1 .. Len(old) \/ (i = Len(old) + 1 /\ i - 1 = Len(old))
      BY <2>3
    <2> QED
      BY <2>1, <2>2, <2>3, <2>4
  <1> HIDE DEF where, new
  <1>6. t = [where |-> t.where, records |-> t.records] /\ t.where = where /\ t.records = new
    OBVIOUS
  <1> HIDE DEF t
  <1>7. AreTranscripts(transcript')
    BY <1>2, <1>3, <1>4, <1>5, <1>6, <1>a DEF AreTranscripts
  <1>8. UNCHANGED call /\ alone' = [p \in Procs |-> FALSE]
    BY DEF WriteTranscript
  <1> QED
    BY <1>7, <1>8, NobodyAlone

LEMMA CallsStep ==
  ASSUME OperationsInv, [Next]_vars
  PROVE  CallsInv'
  <1>0. CallsInv
    BY DEF OperationsInv, CallsInv
  <1>1. CASE UNCHANGED vars
    BY <1>0, <1>1 DEF CallsInv, vars
  <1>2. ASSUME NEW p \in Procs, Begin(p)
        PROVE  CallsInv'
    <2>1. Started(p)
      BY <1>2, InvIs, BeginIs
    <2> QED
      BY <1>1, <2>1, BeginCalls DEF Started
  <1>3. ASSUME NEW p \in Procs, Continue(p)
        PROVE  CallsInv'
    BY <1>3, CommitCalls, HarvestCalls, PruneCalls, ObserveCalls, ReturnCalls DEF Continue
  <1>4. CASE NameThread
    BY <1>0, <1>4 DEF NameThread, CallsInv
  <1>5. CASE Tick \/ Speak \/ SyncCodexNames \/ Rebuild
    <2>1. UNCHANGED <<call, transcript>> /\ alone' = [p \in Procs |-> FALSE]
      BY <1>5 DEF Tick, Speak, SyncCodexNames, Rebuild
    <2> QED
      BY <1>0, <2>1, NobodyAlone DEF CallsInv
  <1> QED
    BY <1>1, <1>2, <1>3, <1>4, <1>5, WriteCalls DEF Next, SyncCodexNamesCommand

-----------------------------------------------------------------------------
\* The steps and the harvests.

LEMMA NoHarvest ==
  ASSUME NEW c, c.kind # "harvest"
  PROVE  \A ss, names, records : HarvestHolds(c, ss, names, records)
  BY DEF HarvestHolds

\* What the transcripts say, while nobody writes them.
LEMMA SameTranscripts ==
  ASSUME UNCHANGED transcript
  PROVE  \A x : Window(x)' = Window(x) /\ Candidates(x)' = Candidates(x)
  <1>1. \A x : Window(x)' = Window(x)
    BY DEF Window
  <1>2. \A x : Candidates(x)' = Candidates(x)
    BY <1>1 DEF Candidates
  <1> QED
    BY <1>1, <1>2

\* A step of p that replaces its call by c, as in OneCall.
LEMMA OneHarvest ==
  ASSUME OperationsInv, HarvestInv, NEW p \in Procs, NEW c, call' = [call EXCEPT ![p] = c],
         UNCHANGED transcript,
         alone'[p] => HarvestHolds(c, sessions', Candidates(c.about), Window(c.about)),
         \A q \in Procs \ {p} : alone'[q] => alone[q] /\ UNCHANGED sessions
  PROVE  HarvestInv'
  <1>1. \A q \in Procs : call'[q] = IF q = p THEN c ELSE call[q]
    BY DEF OperationsInv
  <1>2. ASSUME NEW q \in Procs, alone'[q]
        PROVE  HarvestHolds(call'[q], sessions',
                            Candidates(call'[q].about), Window(call'[q].about))
    <2>1. CASE q = p
      BY <1>1, <1>2, <2>1
    <2>2. CASE q # p
      <3>1. alone[q] /\ UNCHANGED sessions /\ call'[q] = call[q]
        BY <1>1, <1>2, <2>2
      <3> QED
        BY <3>1 DEF HarvestInv
    <2> QED
      BY <2>1, <2>2
  <1>3. \A x : Window(x)' = Window(x) /\ Candidates(x)' = Candidates(x)
    BY SameTranscripts
  <1> QED
    BY <1>2, <1>3 DEF HarvestInv

\* The record that a harvest is at; what it may say of names and merge requests.
LEMMA HarvestAt ==
  ASSUME OperationsInv, NEW sid \in Sids
  PROVE  /\ IsRecord(RecordOf(sessions, sid))
         /\ \A c, d \in Candidates(sid) : c.channel = d.channel => c = d
         /\ \A i \in DOMAIN Window(sid) : Window(sid)[i].at \in Nat
  <1>1. AreSessions(sessions) /\ AreTranscripts(transcript)
    BY InvIs DEF OperationsInv
  <1>2. \A i \in DOMAIN Window(sid) : Window(sid)[i].at \in Nat
    BY <1>1, WindowIs
  <1> QED
    BY <1>1, <1>2, RecordIs, CandidatesAre

LEMMA CommitHarvest ==
  ASSUME OperationsInv, HarvestInv, NEW p \in Procs, Commit(p) \/ CommitFails(p)
  PROVE  HarvestInv'
  <1> DEFINE c == call[p]
             rest == Tail(c.plan)
             names == Candidates(c.about)
             records == Window(c.about)
             ss == sessions
             s == RecordOf(ss, c.about)
  <1>1. /\ c = [f \in CallFields |-> c[f]] /\ c.plan # <<>> /\ UNCHANGED transcript
        /\ alone \in [Procs -> BOOLEAN]
        /\ alone[p] => HarvestHolds(c, ss, names, records)
    BY DEF OperationsInv, HarvestInv, IsCall, Commit, CommitFails
  <1>2. ASSUME c.kind = "harvest", alone[p]
        PROVE  /\ c.about \in Sids /\ Fits(c.plan, s, c.about)
               /\ ~c.failed => Covers(c.plan, s, names, records)
               /\ IsRecord(s)
               /\ \A a, b \in names : a.channel = b.channel => a = b
               /\ \A i \in DOMAIN records : records[i].at \in Nat
    <2>1. c.about \in Sids
      BY <1>1, <1>2 DEF HarvestHolds
    <2>2. Fits(c.plan, s, c.about) /\ (~c.failed => Covers(c.plan, s, names, records))
      <3> HIDE DEF c, names, records, s, ss
      <3> QED
        BY <1>1, <1>2, <2>1 DEF HarvestHolds, s
    <2> QED
      BY <2>1, <2>2, HarvestAt
  <1>3. CASE Commit(p)
    <2> DEFINE d == [c EXCEPT !.plan = rest]
    <2>1. /\ call' = [call EXCEPT ![p] = d] /\ Disturb(p)
          /\ sessions' = FoldSession(ss, Head(c.plan))
      BY <1>3 DEF Commit
    <2>2. alone'[p] = alone[p] /\ \A q \in Procs \ {p} : ~alone'[q]
      BY <2>1, DisturbIs
    <2>3. /\ d.kind = c.kind /\ d.about = c.about /\ d.failed = c.failed /\ d.plan = rest
      <3> HIDE DEF c, rest
      <3> QED
        BY <1>1 DEF CallFields, Idle
    <2> DEFINE tt == sessions'
    <2>4. ASSUME c.kind = "harvest", alone[p]
          PROVE  /\ Fits(rest, RecordOf(tt, c.about), c.about)
                 /\ ~c.failed => Covers(rest, RecordOf(tt, c.about), names, records)
      <3>1. AreSessions(ss)
        BY InvIs
      <3>2. tt = FoldSession(ss, Head(c.plan))
        BY <2>1
      <3> HIDE DEF tt, ss, c, names, records
      <3>3. /\ c.about \in Sids /\ Fits(c.plan, RecordOf(ss, c.about), c.about)
            /\ ~c.failed => Covers(c.plan, RecordOf(ss, c.about), names, records)
            /\ \A a, b \in names : a.channel = b.channel => a = b
            /\ \A i \in DOMAIN records : records[i].at \in Nat
        BY <1>2, <2>4
      <3> QED
        BY <1>1, <3>1, <3>2, <3>3, HarvestCommit
    <2>5. alone'[p] => HarvestHolds(d, tt, Candidates(d.about), Window(d.about))
      <3> SUFFICES ASSUME alone[p], c.kind = "harvest"
                   PROVE  HarvestHolds(d, tt, Candidates(d.about), Window(d.about))
        BY <2>2, <2>3, NoHarvest
      <3>1. c.about \in Sids /\ Candidates(d.about) = names /\ Window(d.about) = records
        BY <1>2, <2>3
      <3> HIDE DEF d, c, names, records, rest, tt
      <3> QED
        BY <2>3, <2>4, <3>1 DEF HarvestHolds
    <2> HIDE DEF d
    <2> QED
      BY <1>1, <2>1, <2>2, <2>5, OneHarvest
  <1>4. CASE CommitFails(p)
    <2> DEFINE d == [c EXCEPT !.plan = rest, !.failed = TRUE]
    <2>1. call' = [call EXCEPT ![p] = d] /\ UNCHANGED <<sessions, alone>>
      BY <1>4 DEF CommitFails
    <2>3. /\ d.kind = c.kind /\ d.about = c.about /\ d.failed /\ d.plan = rest
      <3> HIDE DEF c, rest
      <3> QED
        BY <1>1 DEF CallFields, Idle
    <2>4. ASSUME c.kind = "harvest", alone[p]
          PROVE  Fits(rest, s, c.about)
      BY <1>1, <1>2, <2>4, HarvestSkips
    <2>5. alone'[p] => HarvestHolds(d, sessions', Candidates(d.about), Window(d.about))
      <3> SUFFICES ASSUME alone[p], c.kind = "harvest"
                   PROVE  HarvestHolds(d, ss, Candidates(d.about), Window(d.about))
        BY <2>1, <2>3, NoHarvest
      <3>1. c.about \in Sids
        BY <1>2
      <3> HIDE DEF d, c, names, records, rest, ss
      <3> QED
        BY <2>3, <2>4, <3>1 DEF HarvestHolds
    <2> HIDE DEF d
    <2> QED
      BY <1>1, <2>1, <2>5, OneHarvest
  <1> QED
    BY <1>3, <1>4

LEMMA NextHarvest ==
  ASSUME OperationsInv, HarvestInv, NEW p \in Procs, HarvestNext(p)
  PROVE  HarvestInv'
  <1> DEFINE c == call[p]
  <1>1. /\ IsCall(c) /\ c.kind = "harvest" /\ AreSessions(sessions) /\ AreTranscripts(transcript)
        /\ alone \in [Procs -> BOOLEAN]
    BY InvIs DEF OperationsInv, HarvestNext
  <1>2. PICK sid \in c.todo :
          call' = [call EXCEPT ![p] = [c EXCEPT !.todo = c.todo \ {sid},
                                        !.plan = HarvestPlan(sid), !.about = sid]]
    BY DEF HarvestNext
  <1> DEFINE d == [c EXCEPT !.todo = c.todo \ {sid}, !.plan = HarvestPlan(sid), !.about = sid]
  <1>3. sid \in Sids
    BY <1>1 DEF IsCall
  <1>4. sid \in DOMAIN sessions =>
          /\ Fits(HarvestPlan(sid), RecordOf(sessions, sid), sid)
          /\ Covers(HarvestPlan(sid), RecordOf(sessions, sid), Candidates(sid), Window(sid))
    BY <1>1, <1>3, InvIs, HarvestPlanFits
  <1> HIDE DEF c
  <1>5. d.kind = "harvest" /\ d.plan = HarvestPlan(sid) /\ d.about = sid
    BY <1>1 DEF IsCall, CallFields, Idle
  <1>6. call' = [call EXCEPT ![p] = d]
    BY <1>2
  <1> HIDE DEF d
  <1>7. sid \in DOMAIN sessions =>
          HarvestHolds(d, sessions, Candidates(d.about), Window(d.about))
    BY <1>3, <1>4, <1>5 DEF HarvestHolds
  <1>8. /\ UNCHANGED <<sessions, transcript>>
        /\ alone' = [alone EXCEPT ![p] = call'[p].about \in DOMAIN sessions]
    BY DEF HarvestNext
  <1>9. call'[p] = d
    BY <1>6 DEF OperationsInv
  <1>10. alone'[p] => sid \in DOMAIN sessions
    BY <1>1, <1>5, <1>8, <1>9
  <1>11. \A q \in Procs \ {p} : alone'[q] => alone[q]
    BY <1>1, <1>8
  <1> QED
    BY <1>6, <1>7, <1>8, <1>10, <1>11, OneHarvest

\* A call that is no harvest goes on, and is none then.
LEMMA OtherHarvest ==
  ASSUME OperationsInv, HarvestInv, NEW p \in Procs,
         PruneLocked(p) \/ Observe(p) \/ ObserveFails(p) \/ Return(p)
  PROVE  HarvestInv'
  <1>1. /\ IsCall(call[p]) /\ UNCHANGED transcript /\ alone \in [Procs -> BOOLEAN]
        /\ call[p] = [f \in CallFields |-> call[p][f]]
    BY DEF OperationsInv, IsCall, PruneLocked, PruneRest, Observe, ObserveFails, Return
  <1>2. PICK c : call' = [call EXCEPT ![p] = c] /\ c.kind # "harvest"
    <2>1. CASE PruneLocked(p)
      BY <2>1 DEF PruneLocked, PruneRest, Idle
    <2>2. CASE Observe(p) \/ ObserveFails(p)
      <3> DEFINE c == call[p]
      <3>1. /\ c.kind \in {"codex", "hook"}
            /\ \E todo : \/ call' = [call EXCEPT ![p] = [c EXCEPT !.todo = todo]]
                         \/ call' = [call EXCEPT ![p] = [c EXCEPT !.todo = todo, !.failed = TRUE]]
        BY <2>2 DEF Observe, ObserveFails
      <3>2. c = [f \in CallFields |-> c[f]]
        BY <1>1
      <3> HIDE DEF c
      <3>3. \A todo : /\ [c EXCEPT !.todo = todo].kind = c.kind
                      /\ [c EXCEPT !.todo = todo, !.failed = TRUE].kind = c.kind
        BY <3>2 DEF CallFields, Idle
      <3> QED
        BY <3>1, <3>3
    <2>3. CASE Return(p)
      <3> DEFINE c == call[p]
                 d == [c EXCEPT !.step = "done", !.exit = ExitCode(c)]
      <3>1. call' = [call EXCEPT ![p] = IF c.kind # "sweep" THEN Idle ELSE d]
        BY <2>3 DEF Return
      <3>2. c = [f \in CallFields |-> c[f]]
        BY <1>1
      <3> HIDE DEF c
      <3>3. d.kind = c.kind
        BY <3>2 DEF CallFields, Idle
      <3> HIDE DEF d
      <3>4. Idle.kind # "harvest"
        BY DEF Idle
      <3> QED
        BY <3>1, <3>3, <3>4
    <2> QED
      BY <2>1, <2>2, <2>3
  <1>3. \A q \in Procs \ {p} : alone'[q] => alone[q] /\ UNCHANGED sessions
    <2>1. CASE PruneLocked(p) \/ Observe(p)
      <3>1. Disturb(p)
        BY <2>1 DEF PruneLocked, PruneRest, Observe
      <3> QED
        BY <3>1, DisturbIs
    <2>2. CASE ObserveFails(p)
      BY <2>2 DEF ObserveFails, RecordCodexObservation, WriteObservation, RecordsNothing, OnlyLogs
    <2>3. CASE Return(p)
      BY <1>1, <2>3 DEF Return
    <2> QED
      BY <2>1, <2>2, <2>3
  <1> QED
    BY <1>1, <1>2, <1>3, NoHarvest, OneHarvest

LEMMA HarvestStep ==
  ASSUME OperationsInv, HarvestInv, [Next]_vars
  PROVE  HarvestInv'
  <1>1. CASE UNCHANGED <<call, alone, sessions, transcript>>
    BY <1>1, SameTranscripts DEF HarvestInv
  <1>2. ASSUME NEW p \in Procs, Begin(p)
        PROVE  HarvestInv'
    <2>1. Started(p)
      BY <1>2, InvIs, BeginIs
    <2>2. CASE UNCHANGED vars
      BY <1>1, <2>2 DEF vars
    <2>3. ASSUME NEW c, Begins(p, c), Fresh(c)
          PROVE  HarvestInv'
      <3>1. /\ call' = [call EXCEPT ![p] = c] /\ alone' = [alone EXCEPT ![p] = TRUE]
            /\ UNCHANGED <<sessions, transcript>> /\ alone \in [Procs -> BOOLEAN]
        BY <2>3 DEF Begins, OperationsInv
      <3>2. HarvestHolds(c, sessions', Candidates(c.about), Window(c.about))
        BY <2>3, SidsType DEF Fresh, HarvestHolds
      <3>3. \A q \in Procs \ {p} : alone'[q] => alone[q]
        BY <3>1
      <3> QED
        BY <3>1, <3>2, <3>3, OneHarvest
    <2> QED
      BY <2>1, <2>2, <2>3 DEF Started
  <1>3. ASSUME NEW p \in Procs, Continue(p)
        PROVE  HarvestInv'
    BY <1>3, CommitHarvest, NextHarvest, OtherHarvest DEF Continue
  <1>4. CASE NameThread
    BY <1>1, <1>4 DEF NameThread
  <1>5. CASE Tick \/ Speak \/ SyncCodexNames \/ WriteTranscript \/ Rebuild
    <2>1. alone' = [p \in Procs |-> FALSE]
      BY <1>5 DEF Tick, Speak, SyncCodexNames, WriteTranscript, Rebuild
    <2> QED
      BY <2>1 DEF HarvestInv
  <1> QED
    BY <1>1, <1>2, <1>3, <1>4, <1>5 DEF Next, SyncCodexNamesCommand, vars

\* When it has nothing left to log, it has stored everything.
LEMMA HarvestStores ==
  ASSUME OperationsInv, HarvestInv
  PROVE  HarvestStoresAll
  <1> SUFFICES ASSUME NEW p \in Procs, call[p].kind = "harvest",
                      call[p].about \in DOMAIN sessions, Settled(p)
               PROVE  LET sid == call[p].about
                          s == sessions[sid]
                          records == Window(sid)
                      IN  /\ \A c \in Candidates(sid) :
                               IF c.channel \in DOMAIN s.names
                               THEN IsSameNaming(s.names[c.channel], c)
                               ELSE \/ NameValue(s, c.channel) = c.value
                                    \/ Cardinality(DOMAIN s.names) = MaxChannels
                          /\ \A i \in {j \in DOMAIN records : records[j].type = "pr-link"} :
                               LET key == [repository |-> "r1", number |-> records[i].value] IN
                               IF key \in DOMAIN s.prs
                               THEN s.prs[key].first_seen_at <= records[i].at
                               ELSE Cardinality(DOMAIN s.prs) = MaxPrLinks
    BY DEF HarvestStoresAll
  <1> DEFINE sid == call[p].about
             s == sessions[sid]
             names == Candidates(sid)
             records == Window(sid)
  <1>1. sid \in Sids /\ IsRecord(s) /\ RecordOf(sessions, sid) = s
    BY InvIs DEF AreSessions, RecordOf
  <1>2. Covers(<<>>, s, names, records)
    BY <1>1 DEF HarvestInv, HarvestHolds, Settled
  <1> HIDE DEF s, names, records, sid
  <1>3. ToSet(<<>>) = {} /\ LinksOf(<<>>) = {} /\ Linked(<<>>, s) = DOMAIN s.prs
    BY <1>1, NothingFits
  <1>4. ASSUME NEW c \in names
        PROVE  NameHeld(s, c)
    BY <1>2, <1>3 DEF Covers
  <1>5. ASSUME NEW i \in DOMAIN records, records[i].type = "pr-link"
        PROVE  LET key == KeyOf(records[i]) IN
               IF key \in DOMAIN s.prs THEN s.prs[key].first_seen_at <= records[i].at
               ELSE Cardinality(DOMAIN s.prs) = MaxPrLinks
    BY <1>2, <1>3, <1>5 DEF Covers, LinkHeld
  <1> QED
    BY <1>4, <1>5 DEF NameHeld, KeyOf, s, names, records, sid

\* Of the plan, what has been committed and what is left.
LEMMA PrefixIs ==
  ASSUME NEW S, NEW plan \in Seq(S), NEW i \in 1 .. Len(plan)
  PROVE  LET n == Len(plan)
             rest == SubSeq(plan, (i - 1) + 1, n)
         IN  /\ SubSeq(plan, 1, i - 1) \in Seq(S) /\ plan[i] \in S
             /\ SubSeq(plan, 1, i) = Append(SubSeq(plan, 1, i - 1), plan[i])
             /\ rest # <<>> /\ Head(rest) = plan[i] /\ Tail(rest) = SubSeq(plan, i + 1, n)
  <1> DEFINE n == Len(plan)
             rest == SubSeq(plan, (i - 1) + 1, n)
             a == SubSeq(plan, 1, i - 1)
             b == SubSeq(plan, 1, i)
             r == SubSeq(plan, i + 1, n)
  <1>1. n \in Nat /\ i \in Nat /\ i >= 1 /\ i <= n /\ \A j \in 1 .. n : plan[j] \in S
    OBVIOUS
  <1>2. /\ a \in Seq(S) /\ Len(a) = i - 1 /\ \A j \in 1 .. i - 1 : a[j] = plan[j]
        /\ b \in Seq(S) /\ Len(b) = i /\ \A j \in 1 .. i : b[j] = plan[j]
        /\ plan[i] \in S
    BY <1>1
  <1>3. /\ rest \in Seq(S) /\ Len(rest) = n - i + 1
        /\ \A j \in 1 .. n - i + 1 : rest[j] = plan[i + j - 1]
        /\ r \in Seq(S) /\ Len(r) = n - i
        /\ \A j \in 1 .. n - i : r[j] = plan[i + j]
    BY <1>1
  <1> HIDE DEF a, b, rest, r, n
  <1>4. b = Append(a, plan[i])
    <2> DEFINE x == plan[i]
               t == Append(a, x)
    <2>1. /\ x \in S /\ t \in Seq(S) /\ Len(t) = Len(a) + 1
          /\ \A j \in 1 .. Len(a) : t[j] = a[j]
          /\ t[Len(a) + 1] = x
      BY <1>2, AppendProperties
    <2> HIDE DEF t
    <2>2. b \in Seq(S) /\ Len(t) = i /\ Len(b) = i
      BY <1>1, <1>2, <2>1
    <2>3. ASSUME NEW j \in 1 .. i
          PROVE  b[j] = t[j]
      <3>1. CASE j = i
        BY <1>1, <1>2, <2>1, <3>1
      <3>2. CASE j # i
        <4>1. j \in 1 .. i - 1
          BY <1>1, <3>2
        <4>2. t[j] = a[j] /\ a[j] = plan[j] /\ b[j] = plan[j]
          BY <1>2, <2>1, <4>1
        <4> QED
          BY <4>2
      <3> QED
        BY <3>1, <3>2
    <2>4. b = t
      <3>1. Len(b) = Len(t) /\ \A j \in 1 .. Len(b) : b[j] = t[j]
        BY <2>2, <2>3
      <3> QED
        BY <2>1, <2>2, <3>1, SeqEqual
    <2> QED
      BY <2>4 DEF t
  <1>5. rest # <<>> /\ Head(rest) = plan[i]
    BY <1>1, <1>3
  <1>6. Tail(rest) = r
    <2> DEFINE t == Tail(rest)
    <2>1. t \in Seq(S) /\ Len(t) = Len(rest) - 1 /\ \A j \in 1 .. Len(t) : t[j] = rest[j + 1]
      BY <1>3, <1>5, HeadTailProperties
    <2> HIDE DEF t
    <2>2. Len(t) = n - i
      BY <1>1, <1>3, <2>1
    <2>3. ASSUME NEW j \in 1 .. n - i
          PROVE  t[j] = r[j]
      <3>1. j \in 1 .. Len(t) /\ j + 1 \in 1 .. n - i + 1 /\ i + (j + 1) - 1 = i + j
        BY <1>1, <2>2
      <3>2. t[j] = rest[j + 1] /\ rest[j + 1] = plan[i + (j + 1) - 1] /\ r[j] = plan[i + j]
        BY <1>3, <2>1, <3>1
      <3> QED
        BY <3>1, <3>2
    <2>4. t \in Seq(S) /\ r \in Seq(S) /\ Len(t) = Len(r) /\ \A j \in 1 .. Len(t) : t[j] = r[j]
      BY <1>3, <2>1, <2>2, <2>3
    <2>5. t = r
      BY <2>4, SeqEqual
    <2> QED
      BY <2>5 DEF t
  <1> QED
    BY <1>2, <1>4, <1>5, <1>6 DEF a, b, rest, r, n

\* A prefix of a plan has been committed, and the rest still suits the record.
LEMMA PrefixFits ==
  ASSUME AreSessions(sessions), NEW sid \in Sids, NEW plan,
         Fits(plan, RecordOf(sessions, sid), sid), NEW k \in 0 .. Len(plan)
  PROVE  LET u == FoldLeft(FoldSession, sessions, SubSeq(plan, 1, k))
             rest == SubSeq(plan, k + 1, Len(plan))
         IN  AreSessions(u) /\ Fits(rest, RecordOf(u, sid), sid)
  <1> DEFINE n == Len(plan)
             S == ToSet(plan)
             Upto(i) == FoldLeft(FoldSession, sessions, SubSeq(plan, 1, i))
             Rest(i) == SubSeq(plan, i + 1, n)
             Good(i) == AreSessions(Upto(i)) /\ Fits(Rest(i), RecordOf(Upto(i), sid), sid)
             Bad == {i \in 0 .. n : ~Good(i)}
  <1>1. plan \in Seq(S)
    BY DEF Fits
  <1> HIDE DEF S
  <1>2. n \in Nat
    BY <1>1
  <1>3. Good(0)
    <2>1. SubSeq(plan, 1, 0) = <<>> /\ SubSeq(plan, 0 + 1, n) = plan
      BY <1>1
    <2>2. Upto(0) = sessions
      BY <2>1, FoldLeftSame, Storing!FoldEmpty
    <2> QED
      BY <2>1, <2>2
  <1>4. ASSUME NEW i \in 1 .. n, Good(i - 1)
        PROVE  Good(i)
    <2>1. /\ SubSeq(plan, 1, i - 1) \in Seq(S) /\ plan[i] \in S
          /\ SubSeq(plan, 1, i) = Append(SubSeq(plan, 1, i - 1), plan[i])
          /\ Rest(i - 1) # <<>> /\ Head(Rest(i - 1)) = plan[i] /\ Tail(Rest(i - 1)) = Rest(i)
      BY <1>1, <1>2, PrefixIs
    <2>2. Upto(i) = FoldSession(Upto(i - 1), plan[i])
      BY <2>1, FoldOneMore
    <2> HIDE DEF Upto, Rest
    <2> QED
      BY <1>4, <2>1, <2>2, HarvestCommit
  <1> HIDE DEF Good
  <1>5. Bad = {}
    <2> SUFFICES ASSUME Bad # {}
                 PROVE  FALSE
      OBVIOUS
    <2>1. Bad \in SUBSET Nat
      BY <1>2
    <2>2. PICK i \in Bad : \A j \in Bad : i <= j
      BY <2>1, Storing!LeastOfNats
    <2>3. i \in 1 .. n /\ i - 1 \in 0 .. n /\ i - 1 \notin Bad
      BY <1>2, <1>3, <2>2
    <2> QED
      BY <1>4, <2>2, <2>3
  <1>6. Good(k)
    BY <1>5
  <1> QED
    BY <1>6 DEF Good

\* Each merge request that is about to be logged will change the record.
LEMMA HarvestLogs ==
  ASSUME OperationsInv, HarvestInv
  PROVE  HarvestLogsChanges
  <1> SUFFICES ASSUME NEW p \in Procs, call[p].kind = "harvest", alone[p],
                      NEW i \in DOMAIN call[p].plan
               PROVE  LET Upto(k) == FoldLeft(FoldSession, sessions, SubSeq(call[p].plan, 1, k)) IN
                      \/ Upto(i) # Upto(i - 1)
                      \/ /\ call[p].plan[i].op = "name_set"
                         /\ Cardinality(DOMAIN Upto(i)[call[p].about].names) = MaxChannels
    BY DEF HarvestLogsChanges
  <1> DEFINE plan == call[p].plan
             sid == call[p].about
             S == ToSet(plan)
             n == Len(plan)
             Upto(k) == FoldLeft(FoldSession, sessions, SubSeq(plan, 1, k))
             Rest(k) == SubSeq(plan, k + 1, n)
  <1>1. sid \in Sids /\ Fits(plan, RecordOf(sessions, sid), sid)
    BY DEF HarvestInv, HarvestHolds
  <1>2. plan \in Seq(S) /\ AreSessions(sessions)
    BY <1>1, InvIs DEF Fits
  <1> HIDE DEF plan, sid, S
  <1>3. n \in Nat /\ i \in 1 .. n /\ i - 1 \in 0 .. n
    BY <1>2 DEF plan
  <1>4. AreSessions(Upto(i - 1)) /\ Fits(Rest(i - 1), RecordOf(Upto(i - 1), sid), sid)
    BY <1>1, <1>2, <1>3, PrefixFits
  <1>5. /\ SubSeq(plan, 1, i - 1) \in Seq(S) /\ plan[i] \in S
        /\ SubSeq(plan, 1, i) = Append(SubSeq(plan, 1, i - 1), plan[i])
        /\ Rest(i - 1) # <<>> /\ Head(Rest(i - 1)) = plan[i]
    BY <1>2, <1>3, PrefixIs
  <1>6. Upto(i) = FoldSession(Upto(i - 1), plan[i])
    <2> DEFINE before == SubSeq(plan, 1, i - 1)
               last == plan[i]
    <2>1. before \in Seq(S) /\ last \in S /\ SubSeq(plan, 1, i) = Append(before, last)
      BY <1>5
    <2>2. \A seq \in Seq(S), e \in S :
            FoldLeft(FoldSession, sessions, Append(seq, e))
              = FoldSession(FoldLeft(FoldSession, sessions, seq), e)
      BY FoldOneMore
    <2> HIDE DEF before, last
    <2>3. FoldLeft(FoldSession, sessions, SubSeq(plan, 1, i))
            = FoldSession(FoldLeft(FoldSession, sessions, before), last)
      BY <2>1, <2>2
    <2> QED
      BY <2>3 DEF before, last
  <1> DEFINE tt == Upto(i)
             uu == Upto(i - 1)
  <1>7. \/ tt # uu
        \/ plan[i].op = "name_set" /\ Cardinality(DOMAIN tt[sid].names) = MaxChannels
    <2> HIDE DEF Upto, Rest
    <2> QED
      BY <1>1, <1>4, <1>5, <1>6, HarvestCommit
  <1> QED
    BY <1>7 DEF plan, sid

-----------------------------------------------------------------------------
\* The steps and the sweeps.

LEMMA NoSweep ==
  ASSUME NEW c, c.kind # "sweep"
  PROVE  \A ss, times, now : SweepHolds(c, ss, times, now)
  BY DEF SweepHolds

\* A step of p that replaces its call by c, as in OneCall.
LEMMA OneSweep ==
  ASSUME OperationsInv, SweepInv, NEW p \in Procs, NEW c, call' = [call EXCEPT ![p] = c],
         UNCHANGED <<day, indexed>>,
         alone'[p] => SweepHolds(c, sessions', indexed, day),
         \A q \in Procs \ {p} : alone'[q] => alone[q] /\ UNCHANGED sessions
  PROVE  SweepInv'
  <1>1. \A q \in Procs : call'[q] = IF q = p THEN c ELSE call[q]
    BY DEF OperationsInv
  <1>2. ASSUME NEW q \in Procs, alone'[q]
        PROVE  SweepHolds(call'[q], sessions', indexed, day)
    <2>1. CASE q = p
      BY <1>1, <1>2, <2>1
    <2>2. CASE q # p
      <3>1. alone[q] /\ UNCHANGED sessions /\ call'[q] = call[q]
        BY <1>1, <1>2, <2>2
      <3> QED
        BY <3>1 DEF SweepInv
    <2> QED
      BY <2>1, <2>2
  <1> QED
    BY <1>2 DEF SweepInv

\* A session that is moved to its state has come as far as it had.
LEMMA SweepEffect ==
  ASSUME NEW ss, AreSessions(ss), NEW times \in [Sids -> Nat], NEW e, e.op = "sweep",
         e.sid \in DOMAIN ss, e.p.effective = Progress(ss, times, e.sid)
  PROVE  LET tt == FoldSession(ss, e) IN
         /\ DOMAIN tt = DOMAIN ss /\ tt[e.sid].activity = e.p.activity
         /\ \A x \in DOMAIN ss :
              /\ x # e.sid => tt[x].activity = ss[x].activity
              /\ Progress(tt, times, x) = Progress(ss, times, x)
  <1> DEFINE s == ss[e.sid]
             r == Reduce(s, e)
             t == RefreshDerivedNames(Bump(r, e))
             tt == FoldSession(ss, e)
             effective == e.p.effective
  <1>1. /\ s = [f \in SessionFields |-> s[f]] /\ s.last_progress_at \in Nat
        /\ e.sid \in Sids /\ times[e.sid] \in Nat
    BY FieldsAre DEF AreSessions, IsRecord
  <1>2. r = [s EXCEPT !.activity = e.p.activity,
                      !.last_progress_at = Later(s.last_progress_at, effective)]
    BY DEF Reduce, ReduceSweep
  <1>3. Bump(r, e) = r
    BY DEF Bump
  <1>4. tt = Put(ss, e.sid, t)
    BY DEF FoldSession, SessionOrNew
  <1>5. effective = IF s.last_progress_at > times[e.sid] THEN s.last_progress_at
                    ELSE times[e.sid]
    BY DEF Progress
  <1> HIDE DEF s, effective
  <1>6. /\ Later(s.last_progress_at, effective) = effective
        /\ (IF effective > times[e.sid] THEN effective ELSE times[e.sid]) = effective
    BY <1>1, <1>5, NullType DEF Later
  <1> HIDE DEF r
  <1>7. /\ r = [f \in SessionFields |-> r[f]] /\ r.activity = e.p.activity
        /\ r.last_progress_at = effective
    BY <1>1, <1>2, <1>6 DEF SessionFields
  <1>8. t.activity = e.p.activity /\ t.last_progress_at = effective
    BY <1>3, <1>7 DEF RefreshDerivedNames, SessionFields
  <1> HIDE DEF t, tt
  <1>9. /\ DOMAIN tt = DOMAIN ss /\ tt[e.sid] = t
        /\ \A x \in DOMAIN ss : x # e.sid => tt[x] = ss[x]
    BY <1>4 DEF Put
  <1>10. Progress(tt, times, e.sid) = Progress(ss, times, e.sid)
    BY <1>6, <1>8, <1>9 DEF Progress, effective
  <1>11. \A x \in DOMAIN ss : x # e.sid => Progress(tt, times, x) = Progress(ss, times, x)
    BY <1>9 DEF Progress
  <1> QED
    BY <1>8, <1>9, <1>10, <1>11 DEF tt

\* The next event of a sweep is committed.
LEMMA SweepCommit ==
  ASSUME NEW ss, AreSessions(ss), NEW times \in [Sids -> Nat], NEW now, NEW c, NEW d,
         IsPlan(c.plan), c.plan # <<>>, c.kind = "sweep", SweepHolds(c, ss, times, now),
         d.kind = c.kind, d.opts = c.opts, d.step = c.step, d.plan = Tail(c.plan),
         d.failed = c.failed
  PROVE  SweepHolds(d, FoldSession(ss, Head(c.plan)), times, now)
  <1> DEFINE e == Head(c.plan)
             tt == FoldSession(ss, e)
             To(x) == StateAt(Progress(ss, times, x), now, c.opts)
  <1>1. ToSet(c.plan) = {e} \union ToSet(d.plan)
    BY HeadAndTail DEF IsPlan
  <1>2. /\ c.opts.idle \in Nat /\ c.opts.archive \in Nat /\ c.step = "run"
        /\ \A x \in ToSet(c.plan) :
             /\ x.op = "sweep" /\ x.sid \in DOMAIN ss
             /\ x.p.effective = Progress(ss, times, x.sid) /\ x.p.activity = To(x.sid)
        /\ ~c.failed => \A x \in DOMAIN ss :
             ss[x].activity \in {"archived", To(x)} \/ \E y \in ToSet(c.plan) : y.sid = x
    BY DEF SweepHolds
  <1> HIDE DEF e
  <1>3. /\ DOMAIN tt = DOMAIN ss /\ tt[e.sid].activity = e.p.activity
        /\ \A x \in DOMAIN ss :
             /\ x # e.sid => tt[x].activity = ss[x].activity
             /\ Progress(tt, times, x) = Progress(ss, times, x)
    BY <1>1, <1>2, SweepEffect
  <1>4. \A x \in DOMAIN ss : StateAt(Progress(tt, times, x), now, d.opts) = To(x)
    BY <1>3
  <1> HIDE DEF tt, To
  <1>5. \A x \in ToSet(d.plan) :
          /\ x.op = "sweep" /\ x.sid \in DOMAIN tt
          /\ x.p.effective = Progress(tt, times, x.sid)
          /\ x.p.activity = StateAt(Progress(tt, times, x.sid), now, d.opts)
    BY <1>1, <1>2, <1>3, <1>4
  <1>6. ASSUME ~d.failed, NEW x \in DOMAIN tt
        PROVE  \/ tt[x].activity \in {"archived", StateAt(Progress(tt, times, x), now, d.opts)}
               \/ \E y \in ToSet(d.plan) : y.sid = x
    <2>1. CASE x = e.sid
      BY <1>1, <1>2, <1>3, <1>4, <2>1
    <2>2. CASE x # e.sid
      BY <1>1, <1>2, <1>3, <1>4, <1>6, <2>2
    <2> QED
      BY <2>1, <2>2
  <1>7. SweepHolds(d, tt, times, now)
    BY <1>2, <1>5, <1>6 DEF SweepHolds
  <1> QED
    BY <1>7 DEF tt, e

LEMMA CommitSweep ==
  ASSUME OperationsInv, SweepInv, NEW p \in Procs, Commit(p) \/ CommitFails(p)
  PROVE  SweepInv'
  <1> DEFINE c == call[p]
             rest == Tail(c.plan)
             ss == sessions
  <1>1. /\ c = [f \in CallFields |-> c[f]] /\ c.plan # <<>> /\ IsPlan(c.plan)
        /\ UNCHANGED <<day, indexed>> /\ indexed \in [Sids -> Nat]
        /\ alone[p] => SweepHolds(c, ss, indexed, day)
    BY DEF OperationsInv, AreTimes, SweepInv, IsCall, Commit, CommitFails
  <1>2. CASE Commit(p)
    <2> DEFINE d == [c EXCEPT !.plan = rest]
    <2>1. /\ call' = [call EXCEPT ![p] = d] /\ Disturb(p)
          /\ sessions' = FoldSession(ss, Head(c.plan))
      BY <1>2 DEF Commit
    <2>2. alone'[p] = alone[p] /\ \A q \in Procs \ {p} : ~alone'[q]
      BY <2>1, DisturbIs
    <2>3. /\ d.kind = c.kind /\ d.opts = c.opts /\ d.step = c.step
          /\ d.failed = c.failed /\ d.plan = rest
      <3> HIDE DEF c, rest
      <3> QED
        BY <1>1 DEF CallFields, Idle
    <2>4. alone'[p] => SweepHolds(d, sessions', indexed, day)
      <3>1. AreSessions(ss) /\ rest = Tail(c.plan)
        BY InvIs
      <3> HIDE DEF d, c, rest, ss
      <3>2. CASE c.kind = "sweep"
        BY <1>1, <2>1, <2>2, <2>3, <3>1, <3>2, SweepCommit
      <3>3. CASE c.kind # "sweep"
        BY <2>3, <3>3, NoSweep
      <3> QED
        BY <3>2, <3>3
    <2> HIDE DEF d
    <2> QED
      BY <1>1, <2>1, <2>2, <2>4, OneSweep
  <1>3. CASE CommitFails(p)
    <2> DEFINE d == [c EXCEPT !.plan = rest, !.failed = TRUE]
    <2>1. call' = [call EXCEPT ![p] = d] /\ UNCHANGED <<sessions, alone>>
      BY <1>3 DEF CommitFails
    <2>2. /\ d.kind = c.kind /\ d.opts = c.opts /\ d.step = c.step
          /\ d.failed /\ d.plan = rest
      <3> HIDE DEF c, rest
      <3> QED
        BY <1>1 DEF CallFields, Idle
    <2>3. ToSet(rest) \subseteq ToSet(c.plan)
      BY <1>1, PlanHeadTail
    <2>4. alone'[p] => SweepHolds(d, sessions', indexed, day)
      <3> HIDE DEF d, c, rest
      <3> QED
        BY <1>1, <2>1, <2>2, <2>3 DEF SweepHolds
    <2> HIDE DEF d
    <2> QED
      BY <1>1, <2>1, <2>4, OneSweep
  <1> QED
    BY <1>2, <1>3

LEMMA ReturnSweep ==
  ASSUME OperationsInv, SweepInv, NEW p \in Procs, Return(p)
  PROVE  SweepInv'
  <1> DEFINE c == call[p]
             d == [c EXCEPT !.step = "done", !.exit = ExitCode(c)]
             after == IF c.kind # "sweep" THEN Idle ELSE d
  <1>1. /\ c = [f \in CallFields |-> c[f]] /\ c.plan = <<>> /\ UNCHANGED <<sessions, day, indexed>>
        /\ alone \in [Procs -> BOOLEAN] /\ alone' = [alone EXCEPT ![p] = alone[p] /\ c.kind = "sweep"]
        /\ alone[p] => SweepHolds(c, sessions, indexed, day)
    BY DEF OperationsInv, SweepInv, IsCall, Return
  <1>2. call' = [call EXCEPT ![p] = after]
    BY DEF Return
  <1> HIDE DEF c
  <1>3. /\ d.kind = c.kind /\ d.opts = c.opts /\ d.step = "done" /\ d.exit = ExitCode(c)
        /\ d.failed = c.failed /\ d.plan = <<>>
    BY <1>1 DEF CallFields, Idle
  <1>4. Idle.kind # "sweep"
    BY DEF Idle
  <1> HIDE DEF d
  <1>5. alone'[p] => SweepHolds(after, sessions', indexed, day)
    <2>1. CASE c.kind # "sweep"
      BY <1>4, <2>1, NoSweep
    <2>2. CASE c.kind = "sweep"
      <3>1. alone'[p] => alone[p]
        BY <1>1
      <3>2. d.exit = 0 => ~d.failed
        BY <1>3, <2>2 DEF ExitCode
      <3>3. /\ d.kind = c.kind /\ d.opts = c.opts /\ d.plan = c.plan /\ d.failed = c.failed
            /\ d.plan = <<>>
        BY <1>1, <1>3
      <3>4. SweepHolds(c, sessions, indexed, day) => SweepHolds(d, sessions, indexed, day)
        <4> SUFFICES ASSUME SweepHolds(c, sessions, indexed, day)
                     PROVE  SweepHolds(d, sessions, indexed, day)
          OBVIOUS
        <4>1. d.opts.idle \in Nat /\ d.opts.archive \in Nat
          BY <2>2, <3>3 DEF SweepHolds
        <4>2. \A e \in ToSet(d.plan) :
                 /\ e.op = "sweep" /\ e.sid \in DOMAIN sessions
                 /\ e.p.effective = Progress(sessions, indexed, e.sid)
                 /\ e.p.activity = StateAt(Progress(sessions, indexed, e.sid), day, d.opts)
          BY <2>2, <3>3 DEF SweepHolds
        <4>3. ~d.failed => \A x \in DOMAIN sessions :
                 \/ sessions[x].activity
                       \in {"archived", StateAt(Progress(sessions, indexed, x), day, d.opts)}
                 \/ \E e \in ToSet(d.plan) : e.sid = x
          <5>1. ~c.failed => \A x \in DOMAIN sessions :
                   \/ sessions[x].activity
                         \in {"archived", StateAt(Progress(sessions, indexed, x), day, c.opts)}
                   \/ \E e \in ToSet(c.plan) : e.sid = x
            BY <2>2 DEF SweepHolds
          <5> QED
            BY <3>3, <5>1
        <4> QED
          BY <3>2, <3>3, <4>1, <4>2, <4>3 DEF SweepHolds
      <3> QED
        BY <1>1, <2>2, <3>1, <3>4
    <2> QED
      BY <2>1, <2>2
  <1> HIDE DEF after
  <1>6. \A q \in Procs \ {p} : alone'[q] => alone[q]
    BY <1>1
  <1> QED
    BY <1>1, <1>2, <1>5, <1>6, OneSweep

\* A call that is no sweep goes on, and is none then.
LEMMA OtherSweep ==
  ASSUME OperationsInv, SweepInv, NEW p \in Procs,
         PruneLocked(p) \/ Observe(p) \/ ObserveFails(p) \/ HarvestNext(p)
  PROVE  SweepInv'
  <1>1. /\ UNCHANGED <<day, indexed>> /\ alone \in [Procs -> BOOLEAN]
        /\ call[p] = [f \in CallFields |-> call[p][f]]
    BY DEF OperationsInv, IsCall, PruneLocked, PruneRest, Observe, ObserveFails, HarvestNext
  <1>2. PICK c : call' = [call EXCEPT ![p] = c] /\ c.kind # "sweep"
    <2>1. CASE PruneLocked(p)
      BY <2>1 DEF PruneLocked, PruneRest, Idle
    <2>2. CASE Observe(p) \/ ObserveFails(p) \/ HarvestNext(p)
      <3> DEFINE c == call[p]
                 Next1(todo) == [c EXCEPT !.todo = todo]
                 Next2(todo) == [c EXCEPT !.todo = todo, !.failed = TRUE]
                 Next3(todo, plan, sid) == [c EXCEPT !.todo = todo, !.plan = plan, !.about = sid]
      <3>1. /\ c.kind \in {"codex", "hook", "harvest"}
            /\ \E todo, plan, sid : \/ call' = [call EXCEPT ![p] = Next1(todo)]
                                    \/ call' = [call EXCEPT ![p] = Next2(todo)]
                                    \/ call' = [call EXCEPT ![p] = Next3(todo, plan, sid)]
        <4>1. c.kind \in {"codex", "hook", "harvest"}
          BY <2>2 DEF Observe, ObserveFails, HarvestNext
        <4>2. Observe(p) => \E todo : call' = [call EXCEPT ![p] = Next1(todo)]
          BY DEF Observe
        <4>3. ObserveFails(p) => \E todo : call' = [call EXCEPT ![p] = Next2(todo)]
          BY DEF ObserveFails
        <4>4. HarvestNext(p) =>
                \E todo, plan, sid : call' = [call EXCEPT ![p] = Next3(todo, plan, sid)]
          <5> SUFFICES ASSUME HarvestNext(p)
                       PROVE  \E todo, plan, sid : call' = [call EXCEPT ![p] = Next3(todo, plan, sid)]
            OBVIOUS
          <5>1. PICK sid \in c.todo :
                  call' = [call EXCEPT ![p] = [c EXCEPT !.todo = c.todo \ {sid},
                                                !.plan = HarvestPlan(sid), !.about = sid]]
            BY DEF HarvestNext
          <5>2. call' = [call EXCEPT ![p] = Next3(c.todo \ {sid}, HarvestPlan(sid), sid)]
            BY <5>1
          <5> HIDE DEF Next3, c
          <5> QED
            BY <5>2
        <4> HIDE DEF Next1, Next2, Next3, c
        <4> QED
          BY <2>2, <4>1, <4>2, <4>3, <4>4, Zenon
      <3>2. c = [f \in CallFields |-> c[f]]
        BY <1>1
      <3> HIDE DEF c
      <3>3. \A todo, plan, sid : /\ Next1(todo).kind = c.kind /\ Next2(todo).kind = c.kind
                                 /\ Next3(todo, plan, sid).kind = c.kind
        BY <3>2 DEF CallFields, Idle
      <3> HIDE DEF Next1, Next2, Next3
      <3> QED
        BY <3>1, <3>3
    <2> QED
      BY <2>1, <2>2
  <1>3. \A q \in Procs \ {p} : alone'[q] => alone[q] /\ UNCHANGED sessions
    <2>1. CASE PruneLocked(p) \/ Observe(p)
      <3>1. Disturb(p)
        BY <2>1, Zenon DEF PruneLocked, PruneRest, Observe
      <3> QED
        BY <3>1, DisturbIs
    <2>2. CASE ObserveFails(p)
      BY <2>2 DEF ObserveFails, RecordCodexObservation, WriteObservation, RecordsNothing, OnlyLogs
    <2>3. CASE HarvestNext(p)
      BY <1>1, <2>3 DEF HarvestNext
    <2> QED
      BY <2>1, <2>2, <2>3
  <1> QED
    BY <1>1, <1>2, <1>3, NoSweep, OneSweep

LEMMA SweepStep ==
  ASSUME OperationsInv, SweepInv, [Next]_vars
  PROVE  SweepInv'
  <1>1. CASE UNCHANGED <<call, alone, sessions, indexed, day>>
    BY <1>1 DEF SweepInv
  <1>2. ASSUME NEW p \in Procs, Begin(p)
        PROVE  SweepInv'
    <2>1. Started(p)
      BY <1>2, InvIs, BeginIs
    <2>2. CASE UNCHANGED vars
      BY <1>1, <2>2 DEF vars
    <2>3. ASSUME NEW c, Begins(p, c), Fresh(c)
          PROVE  SweepInv'
      <3>1. /\ call' = [call EXCEPT ![p] = c] /\ alone' = [alone EXCEPT ![p] = TRUE]
            /\ UNCHANGED <<sessions, day, indexed>> /\ alone \in [Procs -> BOOLEAN]
        BY <2>3 DEF Begins, OperationsInv
      <3>2. SweepHolds(c, sessions', indexed, day)
        BY <2>3, <3>1 DEF Fresh
      <3>3. \A q \in Procs \ {p} : alone'[q] => alone[q]
        BY <3>1
      <3> QED
        BY <3>1, <3>2, <3>3, OneSweep
    <2> QED
      BY <2>1, <2>2, <2>3 DEF Started
  <1>3. ASSUME NEW p \in Procs, Continue(p)
        PROVE  SweepInv'
    BY <1>3, CommitSweep, ReturnSweep, OtherSweep DEF Continue
  <1>4. CASE NameThread
    BY <1>1, <1>4 DEF NameThread
  <1>5. CASE Tick \/ Speak \/ SyncCodexNames \/ WriteTranscript \/ Rebuild
    <2>1. alone' = [p \in Procs |-> FALSE]
      BY <1>5 DEF Tick, Speak, SyncCodexNames, WriteTranscript, Rebuild
    <2> QED
      BY <2>1 DEF SweepInv
  <1> QED
    BY <1>1, <1>2, <1>3, <1>4, <1>5 DEF Next, SyncCodexNamesCommand, vars

-----------------------------------------------------------------------------
\* What find lists, and under which label.

LEMMA MinIs ==
  ASSUME NEW S \in SUBSET Nat, S # {}
  PROVE  Min(S) \in S /\ \A m \in S : Min(S) <= m
  <1>1. \E d \in S : \A k \in S : d <= k
    BY Storing!LeastOfNats
  <1> QED
    BY <1>1 DEF Min

\* A filter on the state lets only sessions in that state through.
LEMMA FoundIs ==
  ASSUME OperationsInv, NEW state \in {"active", "idle"}, NEW sid \in Find(state)
  PROVE  sid \in DOMAIN sessions /\ sessions[sid].activity = state
  <1> DEFINE filters == [Everything EXCEPT !.state = state]
             match == {x \in DOMAIN sessions : Matches(sessions[x], filters)}
             found == SetToSeq(match)
  <1>1. IsFiniteSet(match)
    <2>1. match \in SUBSET Sids
      BY InvIs DEF AreSessions
    <2> HIDE DEF match
    <2> QED
      BY <2>1, SidsType, FS_Subset
  <1>2. PICK i \in DOMAIN found : sid = found[i]
    BY DEF Find, SearchSessions
  <1>3. filters.state = state
    BY DEF Everything
  <1> HIDE DEF filters
  <1>4. found[i] \in match
    <2> HIDE DEF match
    <2>1. found \in Seq(match)
      BY <1>1, SetToSeqIs, Zenon
    <2> QED
      BY <2>1
  <1>5. sid \in DOMAIN sessions /\ state \in {Null, sessions[sid].activity}
    BY <1>2, <1>3, <1>4 DEF Matches
  <1> QED
    BY <1>5, NoFilterType

\* The age in days, which is none on a clock that is behind.
LEMMA AgeIs ==
  ASSUME OperationsInv, NEW sid \in DOMAIN sessions
  PROVE  LET progress == Progress(sessions, indexed, sid)
             latest == Max({sessions[sid].last_progress_at, indexed[sid]})
         IN  /\ day - Min({day, latest}) = IF progress > day THEN 0 ELSE day - progress
             /\ progress \in Nat
  <1> DEFINE progress == Progress(sessions, indexed, sid)
             S == {day, progress}
  <1>1. progress \in Nat /\ Max({sessions[sid].last_progress_at, indexed[sid]}) = progress
    BY InvIs, ProgressIs DEF EffectiveLastProgress
  <1>2. day \in Nat
    BY InvIs
  <1> HIDE DEF progress
  <1>3. Min(S) \in S /\ \A m \in S : Min(S) <= m
    <2>1. S \in SUBSET Nat /\ S # {}
      BY <1>1, <1>2
    <2> HIDE DEF S
    <2> QED
      BY <2>1, MinIs
  <1>4. day - Min(S) = IF progress > day THEN 0 ELSE day - progress
    BY <1>1, <1>2, <1>3
  <1> QED
    BY <1>1, <1>4 DEF progress

LEMMA SweptAreFound ==
  ASSUME OperationsInv, SweepInv
  PROVE  SweepThenFind
  <1> DEFINE Age(sid) ==
               day - Min({day, Max({sessions[sid].last_progress_at, indexed[sid]})})
  <1> SUFFICES ASSUME NEW p \in Procs, call[p].kind = "sweep", call[p].step = "done",
                      call[p].exit = 0, alone[p]
               PROVE  LET opts == call[p].opts IN
                      /\ \A sid \in Find("active") : Age(sid) < opts.idle /\ Age(sid) < opts.archive
                      /\ \A sid \in Find("idle") : opts.idle <= Age(sid) /\ Age(sid) < opts.archive
    BY DEF SweepThenFind
  <1> DEFINE c == call[p]
  <1>1. SweepHolds(c, sessions, indexed, day) /\ ToSet(<<>>) = {}
    BY ShortPlans DEF SweepInv
  <1>2. /\ c.opts.idle \in Nat /\ c.opts.archive \in Nat
        /\ \A x \in DOMAIN sessions :
             sessions[x].activity
               \in {"archived", StateAt(Progress(sessions, indexed, x), day, c.opts)}
    BY <1>1 DEF SweepHolds
  <1> DEFINE idle == c.opts.idle
             archive == c.opts.archive
  <1>3. ASSUME NEW state \in {"active", "idle"}, NEW sid \in Find(state)
        PROVE  /\ Age(sid) \in Nat /\ Age(sid) < archive
               /\ IF state = "active" THEN Age(sid) < idle ELSE idle <= Age(sid)
    <2> DEFINE progress == Progress(sessions, indexed, sid)
    <2>1. sid \in DOMAIN sessions /\ sessions[sid].activity = state
      BY FoundIs
    <2>2. state = StateAt(progress, day, c.opts)
      BY <1>2, <2>1
    <2>3. /\ Age(sid) = IF progress > day THEN 0 ELSE day - progress
          /\ progress \in Nat /\ day \in Nat
      BY <2>1, AgeIs, InvIs
    <2>4. Age(sid) \in Nat
      <3> HIDE DEF Age, progress
      <3> QED
        BY <2>3
    <2>5. state = IF Age(sid) >= archive THEN "archived"
                  ELSE IF Age(sid) >= idle THEN "idle" ELSE "active"
      <3> HIDE DEF Age, progress, c
      <3> QED
        BY <2>2, <2>3 DEF StateAt
    <2> HIDE DEF Age
    <2>6. idle \in Nat /\ archive \in Nat
      BY <1>2
    <2> HIDE DEF idle, archive
    <2> QED
      BY <2>4, <2>5, <2>6
  <1> HIDE DEF Age
  <1> QED
    BY <1>2, <1>3

\* The alias is the first of the chain, and both copies of it are the same.
LEMMA AliasIsShown ==
  ASSUME OperationsInv
  PROVE  AliasAgrees
  <1> SUFFICES ASSUME NEW sid \in DOMAIN sessions
               PROVE  LET s == sessions[sid]
                          label == TableRow(sid).label
                      IN  IF s.alias = Null THEN label.channel # "alias"
                          ELSE label = [channel |-> "alias", name |-> s.alias]
    BY DEF AliasAgrees
  <1> DEFINE s == sessions[sid]
             values == [c \in ToSet(Precedence) |-> NameValue(s, c)]
             named == {i \in DOMAIN Precedence : values[Precedence[i]] # Null}
             first == Min(named)
             label == TableRow(sid).label
  <1>1. IsRecord(s)
    BY InvIs DEF AreSessions
  <1>2. NameValue(s, "alias") = s.alias
    BY <1>1 DEF IsRecord, NameValue, Cleaned
  <1>3. /\ DOMAIN Precedence \subseteq Nat /\ 1 \in DOMAIN Precedence
        /\ \A i \in DOMAIN Precedence : 1 <= i /\ Precedence[i] \in ToSet(Precedence)
        /\ Precedence[1] = "alias" /\ Null \notin ToSet(Precedence)
    <2> DEFINE S == ToSet(Precedence)
               q == Precedence
    <2>1. q \in Seq(S) /\ q # <<>> /\ q[1] = "alias" /\ Null \notin S
      BY PrecedenceType
    <2> HIDE DEF S
    <2>2. /\ DOMAIN q \subseteq Nat /\ 1 \in DOMAIN q
          /\ \A i \in DOMAIN q : 1 <= i /\ q[i] \in S
      BY <2>1
    <2> QED
      BY <2>1, <2>2 DEF S
  <1>4. label = ResolveDisplayName(values)
    <2>1. s = [f \in SessionFields |-> s[f]]
      BY <1>1, FieldsAre DEF IsRecord
    <2> HIDE DEF s
    <2>2. RefreshDerivedNames(s).display = ResolveDisplayName(values)
      BY <2>1 DEF RefreshDerivedNames, SessionFields
    <2> QED
      BY <2>2 DEF TableRow, PickLabel, s
  <1>5. values["alias"] = s.alias
    BY <1>2, <1>3
  <1>6. named \in SUBSET Nat
    BY <1>3
  <1>7. /\ named = {} => label = NoName
        /\ named # {} => label = [channel |-> Precedence[first], name |-> values[Precedence[first]]]
    BY <1>4 DEF ResolveDisplayName
  <1>8. /\ \A i \in named : i \in DOMAIN Precedence /\ values[Precedence[i]] # Null
        /\ values[Precedence[1]] # Null => 1 \in named
    BY <1>3
  <1> HIDE DEF s, values, named, label
  <1>9. named # {} => first \in named /\ \A i \in named : first <= i
    BY <1>6, MinIs
  <1> HIDE DEF first
  <1>10. CASE s.alias = Null
    <2>1. CASE named = {}
      <3>1. label.channel = Null /\ "alias" # Null
        BY <1>3, <1>7, <2>1 DEF NoName
      <3> QED
        BY <1>10, <3>1 DEF s, label
    <2>2. CASE named # {}
      <3>1. label.channel = Precedence[first] /\ values[Precedence[first]] # Null
        BY <1>7, <1>8, <1>9, <2>2
      <3>2. label.channel # "alias"
        BY <1>5, <1>10, <3>1
      <3> QED
        BY <1>10, <3>2 DEF s, label
    <2> QED
      BY <2>1, <2>2
  <1>11. CASE s.alias # Null
    <2>1. 1 \in named
      BY <1>3, <1>5, <1>8, <1>11
    <2>2. first = 1
      <3>1. first \in named /\ first <= 1 /\ first \in Nat
        BY <1>6, <1>9, <2>1
      <3>2. first \in DOMAIN Precedence
        BY <1>8, <3>1
      <3>3. 1 <= first
        BY <1>3, <3>2
      <3> QED
        BY <3>1, <3>3
    <2>3. label = [channel |-> "alias", name |-> s.alias]
      BY <1>3, <1>5, <1>7, <2>1, <2>2
    <2> QED
      BY <1>11, <2>3 DEF s, label
  <1> QED
    BY <1>10, <1>11

-----------------------------------------------------------------------------
\* The theorems.

LEMMA InitInv ==
  ASSUME Init
  PROVE  OperationsInv
  <1>1. workload \in Workloads /\ sessions \in StartWith[workload] /\ IsStart(sessions)
    BY StartsType DEF Init
  <1>2. /\ AreSessions(sessions) /\ OneThread(sessions) /\ Apart(sessions)
        /\ NoCycle(sessions) /\ \A x \in DOMAIN sessions : ThreadName(sessions[x]) = 0
    BY <1>1 DEF IsStart, AreSessions, OneThread, Apart, NoCycle
  <1>3. Paired(sessions, logged, unfolded, threadIndex)
    <2>1. NamedByIndex(sessions, threadIndex)
      BY <1>2 DEF NamedByIndex
    <2>2. Trails(sessions, sessions, {})
      BY <1>2 DEF Trails, Orphans
    <2> QED
      BY <1>2, <2>1, <2>2 DEF Init, Paired
  <1>4. threadIndex \in Seq(Threads)
    BY DEF Init
  <1>5. AreTranscripts(transcript)
    <2>1. <<>> \in Seq(ToSet(<<>>))
      OBVIOUS
    <2> DEFINE none == <<>>
    <2> HIDE DEF none
    <2>2. transcript = [sid \in Sids |-> [where |-> "none", records |-> none]]
      BY DEF Init, none
    <2>3. none = <<>> /\ DOMAIN none = {}
      BY DEF none
    <2>4. none \in Seq(ToSet(none))
      BY <2>1, <2>3
    <2> QED
      BY <2>2, <2>3, <2>4 DEF AreTranscripts
  <1>6. /\ call = [p \in Procs |-> call[p]] /\ \A p \in Procs : call[p] = Idle
        /\ alone \in [Procs -> BOOLEAN] /\ \A p \in Procs : ~alone[p]
        /\ crossed \in BOOLEAN
    BY DEF Init
  <1>7. AreTimes(day, indexed)
    BY DEF Init, AreTimes
  <1> QED
    BY <1>2, <1>3, <1>4, <1>5, <1>6, <1>7, IdleIs DEF OperationsInv

\* The clock goes forward, and a file is dated by it.
LEMMA ClockStep ==
  ASSUME OperationsInv, [Next]_vars
  PROVE  AreTimes(day', indexed')
  <1>0. AreTimes(day, indexed)
    BY InvIs
  <1>1. CASE UNCHANGED <<day, indexed>>
    BY <1>0, <1>1
  <1>2. ASSUME NEW p \in Procs, Begin(p)
        PROVE  UNCHANGED <<day, indexed>>
    <2>1. Started(p)
      BY <1>2, InvIs, BeginIs
    <2> QED
      BY <2>1 DEF Started, Begins, vars
  <1>3. ASSUME NEW p \in Procs, Continue(p)
        PROVE  UNCHANGED <<day, indexed>>
    BY <1>3 DEF Continue, Commit, CommitFails, HarvestNext, PruneLocked, PruneRest, Observe,
       ObserveFails, Return
  <1>4. CASE SyncCodexNamesCommand \/ NameThread \/ WriteTranscript \/ Rebuild \/ UNCHANGED vars
    BY <1>1, <1>4 DEF SyncCodexNamesCommand, SyncCodexNames, NameThread, WriteTranscript,
       Rebuild, vars
  <1>5. CASE Tick
    BY <1>0, <1>5 DEF Tick, AreTimes
  <1>6. CASE Speak
    <2>1. UNCHANGED day /\ \E sid : indexed' \in {indexed, [indexed EXCEPT ![sid] = day + 1]}
      BY <1>6 DEF Speak
    <2> QED
      BY <1>0, <2>1 DEF AreTimes
  <1> QED
    BY <1>1, <1>2, <1>3, <1>4, <1>5, <1>6 DEF Next

LEMMA StepInv ==
  ASSUME OperationsInv, [Next]_vars
  PROVE  OperationsInv'
  BY SessionsStep, CallsStep, ClockStep DEF StepGood, OperationsInv, CallsInv

THEOREM OperationsInvariant == Spec => []OperationsInv
  <1>1. Init => OperationsInv
    BY InitInv
  <1>2. OperationsInv /\ [Next]_vars => OperationsInv'
    BY StepInv
  <1> QED
    BY <1>1, <1>2, PTL DEF Spec

\* However ingestion and the hook cross, a Codex thread is one session, as long
\* as no rebuild has folded an observation of a call that failed.
THEOREM OperationsOneSession == Spec => []OneSessionPerThread
  <1>1. OperationsInv => OneSessionPerThread
    <2> SUFFICES ASSUME OperationsInv, "codex_session_seen" \notin late, NEW thread \in Threads
                 PROVE  Cardinality(ThreadOwners(thread)) <= 1
      BY DEF OneSessionPerThread
    <2>1. \A x, y \in ThreadOwners(thread) : x = y
      BY DEF OperationsInv, Apart, ThreadOwners
    <2> DEFINE owners == ThreadOwners(thread)
    <2> HIDE DEF owners
    <2>2. owners = {} \/ \E x : owners = {x}
      BY <2>1 DEF owners
    <2>3. Cardinality({}) = 0 /\ \A x : Cardinality({x}) = 1
      BY FS_EmptySet, FS_Singleton
    <2>4. Cardinality(owners) \in {0, 1}
      BY <2>2, <2>3
    <2> QED
      BY <2>4 DEF owners
  <1> QED
    BY <1>1, OperationsInvariant, PTL

\* setParent looks without the lock; unless two calls overlapped, or a rebuild
\* has folded the event of one that had failed, no cycle is closed that setParent
\* would itself find.
THEOREM OperationsCycleNeedsOverlap == Spec => []CycleNeedsOverlap
  <1>1. OperationsInv => CycleNeedsOverlap
    BY DEF OperationsInv, CycleNeedsOverlap, NoCycle, Ancestor
  <1> QED
    BY <1>1, OperationsInvariant, PTL

\* What a harvest has in mind stays true while nobody interferes with it.
THEOREM HarvestInvariant == Spec => []HarvestInv
  <1>1. Init => HarvestInv
    BY DEF Init, HarvestInv
  <1>2. OperationsInv /\ HarvestInv /\ [Next]_vars => HarvestInv'
    BY HarvestStep
  <1> QED
    BY <1>1, <1>2, OperationsInvariant, PTL DEF Spec

\* A harvest that nobody interferes with, and whose writes go through, stores
\* everything the tail of the transcript says, and each merge request that it
\* logs changes the record: to log and not to log is decided by what the reducers
\* will do, whatever the names, the merge requests and the caps.
THEOREM OperationsHarvestIsExact == Spec => []HarvestIsExact
  <1>1. OperationsInv /\ HarvestInv => HarvestIsExact
    BY HarvestStores, HarvestLogs DEF HarvestIsExact
  <1> QED
    BY <1>1, OperationsInvariant, HarvestInvariant, PTL

\* What a sweep has in mind stays true while nobody interferes with it.
THEOREM SweepInvariant == Spec => []SweepInv
  <1>1. Init => SweepInv
    BY DEF Init, SweepInv
  <1>2. OperationsInv /\ SweepInv /\ [Next]_vars => SweepInv'
    BY SweepStep
  <1> QED
    BY <1>1, <1>2, OperationsInvariant, PTL DEF Spec

\* After a sweep that reported success, and until anybody writes or the day ends,
\* `find --state` tells the sessions apart by their age, whatever the thresholds,
\* the transcripts and the sessions there are.
THEOREM OperationsSweepThenFind == Spec => []SweepThenFind
  <1>1. OperationsInv /\ SweepInv => SweepThenFind
    BY SweptAreFound
  <1> QED
    BY <1>1, OperationsInvariant, SweepInvariant, PTL

\* The alias that `tree` shows and the one that the table of `find` shows are the
\* same, whoever wrote last, whatever other names there are and however few of
\* them a session may have.
THEOREM OperationsAliasAgrees == Spec => []AliasAgrees
  <1>1. OperationsInv => AliasAgrees
    BY AliasIsShown
  <1> QED
    BY <1>1, OperationsInvariant, PTL

\* A session that has room for the name never falls back to one that an earlier
\* row of Codex's index gave its thread, whatever the order of ingestion, hook,
\* sync and rebuild.
THEOREM OperationsThreadNamesAdvance == Spec => ThreadNamesAdvance
  <1>1. OperationsInv /\ [Next]_vars =>
          [\A sid \in DOMAIN sessions \intersect DOMAIN sessions' :
             \/ ThreadName(sessions[sid]) <= ThreadName(sessions'[sid])
             \/ NoRoomForName(sessions'[sid])]_vars
    BY SessionsStep DEF StepGood, IsFull, NoRoomForName, Threaded
  <1> QED
    BY <1>1, OperationsInvariant, PTL DEF Spec, ThreadNamesAdvance

\* A prune leaves its step when it holds the lock, and in no other way.
LEMMA PruneMoves ==
  ASSUME OperationsInv, [Next]_vars, NEW p \in Procs, call[p].kind = "prune",
         call[p].step # call'[p].step, sessions # sessions'
  PROVE  PruneLocked(p)
  <1>1. call = [q \in Procs |-> call[q]] /\ call[p] = [f \in CallFields |-> call[p][f]]
    BY DEF OperationsInv, IsCall
  <1>2. ~UNCHANGED call /\ ~UNCHANGED vars
    BY DEF vars
  <1>3. ASSUME NEW q \in Procs, Begin(q)
        PROVE  FALSE
    <2>1. Started(q)
      BY <1>3, InvIs, BeginIs
    <2> QED
      BY <2>1 DEF Started, Begins, vars
  <1>4. ~(Tick \/ Speak \/ SyncCodexNamesCommand \/ NameThread \/ WriteTranscript \/ Rebuild)
    BY <1>2 DEF Tick, Speak, SyncCodexNamesCommand, SyncCodexNames, NameThread,
                WriteTranscript, Rebuild
  <1>5. PICK q \in Procs : Continue(q)
    BY <1>2, <1>3, <1>4 DEF Next
  <1>6. ~(CommitFails(q) \/ HarvestNext(q) \/ ObserveFails(q) \/ Return(q))
    BY DEF CommitFails, HarvestNext, ObserveFails, Return, RecordCodexObservation,
           WriteObservation, RecordsNothing, OnlyLogs
  <1>7. CASE Commit(q)
    <2>1. call' = [call EXCEPT ![q] = [call[q] EXCEPT !.plan = Tail(call[q].plan)]]
      BY <1>7 DEF Commit
    <2>2. call'[p].step = call[p].step
      BY <1>1, <2>1 DEF CallFields, Idle
    <2> QED
      BY <2>2
  <1>8. CASE Observe(q)
    <2>1. call[q].kind \in {"codex", "hook"}
      BY <1>8 DEF Observe
    <2>2. \E todo : call' = [call EXCEPT ![q] = [call[q] EXCEPT !.todo = todo]]
      BY <1>8 DEF Observe
    <2>3. call'[p].step = call[p].step
      BY <1>1, <2>1, <2>2 DEF CallFields, Idle
    <2> QED
      BY <2>3
  <1>9. CASE PruneLocked(q)
    <2>1. call' = [call EXCEPT ![q] = Idle]
      BY <1>9 DEF PruneLocked, PruneRest
    <2>2. q = p
      BY <1>1, <2>1
    <2> QED
      BY <1>9, <2>2
  <1> QED
    BY <1>5, <1>6, <1>7, <1>8, <1>9 DEF Continue

\* Prune removes ghosts only: under the lock it looks again, and its scan has
\* seen every transcript that was there, unless the operator accepts any scan.  No
\* other step removes what somebody has touched, a rebuild that folds the late
\* tombstones of a prune included.
THEOREM OperationsPruneSparesTheLiving == Spec => PruneSparesTheLiving
  <1> DEFINE Spared(p, sid) ==
               /\ IsGhost(sessions, sid)
               /\ \/ call[p].opts
                  \/ transcript[sid].where = "none"
                  \/ transcript[sid].where = "elsewhere" /\ ~alone[p]
             Spares == \A p \in Procs :
               call[p].kind = "prune" /\ call[p].step # call'[p].step =>
                 \A sid \in DOMAIN sessions \ DOMAIN sessions' : Spared(p, sid)
             Left == \A sid \in DOMAIN sessions \ DOMAIN sessions' : IsUntouched(sessions[sid])
  <1>1. ASSUME OperationsInv, [Next]_vars, NEW p \in Procs,
               call[p].kind = "prune", call[p].step # call'[p].step,
               NEW sid \in DOMAIN sessions \ DOMAIN sessions'
        PROVE  Spared(p, sid)
    <2>1. PruneLocked(p)
      BY <1>1, PruneMoves
    <2>3. sid \in PruneCandidates(call[p].scan)
      BY <1>1, <2>1, InvIs, PruneIs
    <2>4. IsGhost(sessions, sid) /\ ~OnDisk(sid, call[p].scan)
      BY <2>3 DEF PruneCandidates
    <2>5. /\ IsCall(call[p]) /\ AreTranscripts(transcript) /\ sid \in Sids
          /\ alone[p] => IsCurrent(call[p], sessions, transcript)
      BY <1>1, InvIs DEF OperationsInv, AreSessions
    <2>6. ASSUME ~call[p].opts
          PROVE  IsCautious(call[p])
      BY <1>1, <2>1, <2>6 DEF IsCautious, PruneLocked, PruneRest
    <2> QED
      BY <2>4, <2>5, <2>6 DEF IsCall, IsCurrent, AreTranscripts, OnDisk, OnDiskNow
  <1>2. OperationsInv /\ [Next]_vars => [Spares /\ Left]_vars
    BY <1>1, SessionsStep DEF StepGood
  <1> QED
    BY <1>2, OperationsInvariant, PTL DEF Spec, PruneSparesTheLiving
=============================================================================
