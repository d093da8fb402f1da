---------------------------- MODULE IdentityProofs ----------------------------
(***************************************************************************)
(* Which session an id is bound to, proved for any number of ids, any      *)
(* places, any bounds and any order of the conversations' and the hooks'   *)
(* steps.                                                                  *)
(***************************************************************************)
EXTENDS Identity, FiniteSetTheorems, SequenceTheorems, NaturalsInduction,
        WellFoundedInduction, TLAPS

-----------------------------------------------------------------------------
\* The types of the variables.

Uuids == Csids \X Nat
UuidOrNull == Uuids \union {Null}
Texts == Prompts \union {Null}
Lineages == (UuidOrNull \X UuidOrNull) \union {Null}
PlaceValues == {p.cwd : p \in Places} \union {p.worktree : p \in Places}
                 \union {p.branch : p \in Places} \union {Null}
Folders == {Folder[p.cwd] : p \in Places} \union {Null}
Transcripts ==
  [first : UuidOrNull, parent : UuidOrNull, last : UuidOrNull, prompt : Texts,
   folder : Folders, size : Nat]
HookReads == [file : Csids \union {Null}, meta : Transcripts, where : Places]
FileTables == UNION {[files -> UuidOrNull] : files \in SUBSET Csids}
Records ==
  [csids : SUBSET Csids, files : FileTables, human : Texts, lineage : Lineages,
   cwd : PlaceValues, worktree : PlaceValues, branch : PlaceValues,
   candidates : SUBSET Nat, omitted : Nat, last_progress_at : Nat]

TypeOK ==
  /\ now \in Nat
  /\ place \in [Csids -> Places \union {Null}]
  /\ transcripts \in [Csids -> Transcripts]
  /\ sessions \in Seq(Records)
  /\ hook \in [Csids -> HookReads \union {Null}]
  /\ budget \in [Kinds -> Int]
  /\ root \in [Csids -> Csids]
  /\ handed \in [Csids -> SUBSET Csids]
  /\ stood \in [Csids -> SUBSET Places]
  /\ said \in [Csids -> SUBSET Prompts]

LEMMA MinIn ==
  ASSUME NEW S \in SUBSET Nat, S # {}
  PROVE  Min(S) \in S
  <1>1. PICK m \in S : \A n \in S : ~(<<n, m>> \in OpToRel(<, Nat))
    BY NatLessThanWellFounded, WFMin
  <1>2. \A n \in S : ~(n < m)
    BY <1>1 DEF OpToRel
  <1>3. \A n \in S : m <= n
    BY <1>2
  <1> QED
    BY <1>3 DEF Min

LEMMA SidsAre ==
  ASSUME NEW S, sessions \in Seq(S)
  PROVE  Sids = 1 .. Len(sessions) /\ Len(sessions) \in Nat /\ Fresh \notin Sids
  BY DEF Sids, Fresh

-----------------------------------------------------------------------------
\* What resolveIdentity answers.

\* The kept hints are some of those found, and the others are counted.
LEMMA CapIs ==
  ASSUME NEW found \in SUBSET Sids, IsFiniteSet(found), NEW where
  PROVE  LET kept == CapParentCandidates(found, where) IN
         /\ kept \subseteq found
         /\ Cardinality(found \ kept) \in Nat
         /\ Cardinality(found) = Cardinality(kept) + Cardinality(found \ kept)
  <1> DEFINE kept == CapParentCandidates(found, where)
  <1>1. kept \subseteq found
    BY DEF CapParentCandidates
  <1> HIDE DEF kept
  <1>2. IsFiniteSet(kept) /\ IsFiniteSet(found \ kept)
    BY <1>1, FS_Subset
  <1>3. /\ Cardinality(found) \in Nat /\ Cardinality(kept) \in Nat
        /\ Cardinality(found \ kept) \in Nat
    BY <1>2, FS_CardinalityType
  <1>4. Cardinality(found \ kept) = Cardinality(found) - Cardinality(found \cap kept)
    BY FS_Difference
  <1>5. found \cap kept = kept
    BY <1>1
  <1>6. Cardinality(found) = Cardinality(kept) + Cardinality(found \ kept)
    BY <1>3, <1>4, <1>5
  <1> QED
    BY <1>1, <1>3, <1>6 DEF kept

\* An answer names a session only for a reason.
Alike(s, prints) ==
  Same(sessions[s].human, prints.human) \/ Same(sessions[s].lineage, prints.lineage)
Nearby(s, where) == \E f \in {"cwd", "worktree"} : Same(sessions[s][f], where[f])
HasReason(s, c, meta, where, prints) ==
  \/ c \in sessions[s].csids
  \/ \E f \in DOMAIN sessions[s].files : Same(sessions[s].files[f], meta.parent)
  \/ Alike(s, prints) /\ Nearby(s, where)

LEMMA StrongIsNear ==
  ASSUME NEW s, NEW where, MeetsThreshold(s, where)
  PROVE  Nearby(s, where)
  <1> SUFFICES ASSUME ~Nearby(s, where)
               PROVE  FALSE
    OBVIOUS
  <1>1. {f \in {"cwd", "worktree"} : Same(sessions[s][f], where[f])} = {}
    BY DEF Nearby
  <1>2. Strong(s, where) = 0
    BY <1>1, FS_EmptySet DEF Strong
  <1> QED
    BY <1>2 DEF MeetsThreshold

LEMMA SomeIsNotNone ==
  ASSUME NEW S, Cardinality(S) = 1
  PROVE  S # {}
  BY FS_EmptySet

LEMMA FingerprintIs ==
  ASSUME NEW where, NEW prints, NEW S, sessions \in Seq(S)
  PROVE  LET r == ResolveByFingerprint(where, prints)
             found == ScanFingerprintCandidates(prints) IN
         /\ r.sid \in Sids \union {Fresh}
         /\ r.candidates \in SUBSET Sids
         /\ r.omitted \in Nat
         /\ r.sid \in Sids => Alike(r.sid, prints) /\ Nearby(r.sid, where)
         /\ r.sid = Fresh => /\ r.candidates \subseteq found
                             /\ Cardinality(found) = Cardinality(r.candidates) + r.omitted
  <1> DEFINE r == ResolveByFingerprint(where, prints)
             found == ScanFingerprintCandidates(prints)
             above == {s \in found : MeetsThreshold(s, where)}
             accepted == Min(above)
  <1>1. Sids \in SUBSET Nat /\ IsFiniteSet(Sids) /\ Fresh \notin Sids
    <2>1. Sids = 1 .. Len(sessions) /\ Len(sessions) \in Nat /\ Fresh \notin Sids
      BY SidsAre
    <2> HIDE DEF Sids
    <2> QED
      BY <2>1, FS_Interval
  <1>2. found \in SUBSET Sids /\ IsFiniteSet(found)
    <2>1. found \in SUBSET Sids
      BY DEF ScanFingerprintCandidates
    <2> QED
      BY <1>1, <2>1, FS_Subset
  <1>3. \A s \in found : Alike(s, prints)
    BY DEF ScanFingerprintCandidates, Alike
  <1> HIDE DEF found
  <1>4. CASE Cardinality(above) = 1
    <2>1. r = Hints(accepted, found \ {accepted}, where)
      BY <1>4 DEF ResolveByFingerprint, found
    <2>2. above # {}
      BY <1>4, SomeIsNotNone
    <2>3. above \in SUBSET Nat
      BY <1>1, <1>2
    <2>4. accepted \in above
      BY <2>2, <2>3, MinIn
    <2> HIDE DEF accepted
    <2>5. accepted \in Sids /\ Alike(accepted, prints) /\ Nearby(accepted, where)
      BY <1>2, <1>3, <2>4, StrongIsNear
    <2> DEFINE rest == found \ {accepted}
    <2>6. rest \in SUBSET Sids /\ IsFiniteSet(rest)
      BY <1>2, FS_Subset
    <2> HIDE DEF rest
    <2>7. /\ r.sid = accepted /\ r.candidates = CapParentCandidates(rest, where)
          /\ r.omitted = Cardinality(rest \ r.candidates)
      BY <2>1 DEF Hints, rest
    <2> HIDE DEF r
    <2>8. r.candidates \in SUBSET Sids /\ r.omitted \in Nat
      BY <2>6, <2>7, CapIs
    <2> QED
      BY <1>1, <2>5, <2>7, <2>8 DEF r
  <1>5. CASE Cardinality(above) # 1
    <2>1. r = Hints(Fresh, found, where)
      BY <1>5 DEF ResolveByFingerprint, found
    <2>2. /\ r.sid = Fresh /\ r.candidates = CapParentCandidates(found, where)
          /\ r.omitted = Cardinality(found \ r.candidates)
      BY <2>1 DEF Hints
    <2> HIDE DEF r
    <2>3. /\ r.candidates \subseteq found /\ r.omitted \in Nat
          /\ Cardinality(found) = Cardinality(r.candidates) + r.omitted
      BY <1>2, <2>2, CapIs
    <2> QED
      BY <1>1, <1>2, <2>2, <2>3 DEF r, found
  <1> QED
    BY <1>4, <1>5

LEMMA ResolveIs ==
  ASSUME NEW c, NEW meta, NEW where, NEW prints, NEW S, sessions \in Seq(S)
  PROVE  LET r == ResolveIdentity(c, meta, where, prints)
             found == ScanFingerprintCandidates(prints) IN
         /\ r.sid \in Sids \union {Fresh}
         /\ r.candidates \in SUBSET Sids
         /\ r.omitted \in Nat
         /\ Indexed(c) => r.sid \in Sids /\ c \in sessions[r.sid].csids
         /\ r.sid \in Sids => HasReason(r.sid, c, meta, where, prints)
         /\ r.sid = Fresh => /\ r.candidates \subseteq found
                             /\ Cardinality(found) = Cardinality(r.candidates) + r.omitted
  <1> DEFINE r == ResolveIdentity(c, meta, where, prints)
  <1>1. Sids \in SUBSET Nat /\ Fresh \notin Sids
    BY SidsAre
  <1>2. CASE FindByClaudeSessionId(c) # {}
    <2>1. r = Resolved(Min(FindByClaudeSessionId(c)))
      BY <1>2 DEF ResolveIdentity
    <2>2. FindByClaudeSessionId(c) \in SUBSET Nat
      BY <1>1 DEF FindByClaudeSessionId
    <2>3. Min(FindByClaudeSessionId(c)) \in FindByClaudeSessionId(c)
      BY <1>2, <2>2, MinIn
    <2>4. r.sid \in FindByClaudeSessionId(c) /\ r.candidates = {} /\ r.omitted = 0
      BY <2>1, <2>3 DEF Resolved
    <2> QED
      BY <1>1, <2>4 DEF FindByClaudeSessionId, HasReason
  <1>3. CASE FindByClaudeSessionId(c) = {} /\ FindByTranscriptLineage(meta) # {}
    <2>1. r = Resolved(Min(FindByTranscriptLineage(meta)))
      BY <1>3 DEF ResolveIdentity
    <2>2. FindByTranscriptLineage(meta) \in SUBSET Nat
      BY <1>1 DEF FindByTranscriptLineage
    <2>3. Min(FindByTranscriptLineage(meta)) \in FindByTranscriptLineage(meta)
      BY <1>3, <2>2, MinIn
    <2>4. r.sid \in FindByTranscriptLineage(meta) /\ r.candidates = {} /\ r.omitted = 0
      BY <2>1, <2>3 DEF Resolved
    <2> QED
      BY <1>1, <1>3, <2>4 DEF FindByTranscriptLineage, HasReason, Indexed
  <1>4. CASE FindByClaudeSessionId(c) = {} /\ FindByTranscriptLineage(meta) = {}
    <2>1. r = ResolveByFingerprint(where, prints)
      BY <1>4 DEF ResolveIdentity
    <2> HIDE DEF r
    <2> QED
      BY <1>4, <2>1, FingerprintIs DEF HasReason, Indexed, r
  <1> QED
    BY <1>2, <1>3, <1>4

-----------------------------------------------------------------------------
\* What recordSessionSeen does to the records.

LEMMA NewRecord ==
  ASSUME now \in Nat
  PROVE  EmptySession \in Records
  <1>1. [x \in {} |-> Null] \in FileTables
    <2>1. [x \in {} |-> Null] \in [{} -> UuidOrNull] /\ {} \in SUBSET Csids
      OBVIOUS
    <2> QED
      BY <2>1 DEF FileTables
  <1>2. Null \in Texts /\ Null \in Lineages /\ Null \in PlaceValues
    BY DEF Texts, Lineages, PlaceValues
  <1> QED
    BY <1>1, <1>2 DEF EmptySession, Records

LEMMA WithFileType ==
  ASSUME NEW files \in FileTables, NEW file \in Csids, NEW last \in UuidOrNull
  PROVE  WithFile(files, file, last) \in FileTables
  <1>1. PICK D \in SUBSET Csids : files \in [D -> UuidOrNull]
    BY DEF FileTables
  <1>2. WithFile(files, file, last) \in [D \union {file} -> UuidOrNull]
    BY <1>1 DEF WithFile
  <1>3. D \union {file} \in SUBSET Csids
    BY <1>1
  <1> QED
    BY <1>2, <1>3 DEF FileTables

\* A payload as the hooks make them, and an answer of resolveIdentity.
IsPayload(p) ==
  /\ p.csid \in Csids /\ p.file \in Csids \union {Null} /\ p.last \in UuidOrNull
  /\ p.prints.human \in Texts /\ p.prints.lineage \in Lineages
  /\ p.start.cwd \in PlaceValues /\ p.start.worktree \in PlaceValues
  /\ p.start.branch \in PlaceValues
  /\ p.hints.candidates \in SUBSET Nat /\ p.hints.omitted \in Nat

LEMMA ReduceIs ==
  ASSUME NEW s \in Records, NEW p, IsPayload(p), now \in Nat
  PROVE  LET t == ReduceSessionSeen(s, p) IN
         /\ t \in Records
         /\ t.csids = s.csids \union {p.csid}
         /\ t.files = IF p.file = Null THEN s.files ELSE WithFile(s.files, p.file, p.last)
         /\ t.human = SetIfMissing(s.human, p.prints.human)
         /\ t.lineage = SetIfMissing(s.lineage, p.prints.lineage)
         /\ t.cwd = SetIfMissing(s.cwd, p.start.cwd)
         /\ t.worktree = SetIfPresent(s.worktree, p.start.worktree)
         /\ t.candidates = s.candidates \union p.hints.candidates
         /\ t.omitted = IF p.hints.omitted > 0 THEN p.hints.omitted ELSE s.omitted
  <1> DEFINE t == ReduceSessionSeen(s, p)
             files == IF p.file = Null THEN s.files ELSE WithFile(s.files, p.file, p.last)
  <1>1. files \in FileTables
    <2>1. s.files \in FileTables
      BY DEF Records
    <2> QED
      BY <2>1, WithFileType DEF IsPayload
  <1> HIDE DEF files
  <1>2. t = [s EXCEPT !.csids = @ \union {p.csid},
                      !.files = files,
                      !.human = SetIfMissing(@, p.prints.human),
                      !.lineage = SetIfMissing(@, p.prints.lineage),
                      !.cwd = SetIfMissing(@, p.start.cwd),
                      !.worktree = SetIfPresent(@, p.start.worktree),
                      !.branch = SetIfMissing(@, p.start.branch),
                      !.candidates = @ \union p.hints.candidates,
                      !.omitted = IF p.hints.omitted > 0 THEN p.hints.omitted ELSE @,
                      !.last_progress_at = now]
    BY DEF ReduceSessionSeen, files
  <1> HIDE DEF t
  <1>3. /\ t.csids = s.csids \union {p.csid}
        /\ t.files = files
        /\ t.human = SetIfMissing(s.human, p.prints.human)
        /\ t.lineage = SetIfMissing(s.lineage, p.prints.lineage)
        /\ t.cwd = SetIfMissing(s.cwd, p.start.cwd)
        /\ t.worktree = SetIfPresent(s.worktree, p.start.worktree)
        /\ t.candidates = s.candidates \union p.hints.candidates
        /\ t.omitted = IF p.hints.omitted > 0 THEN p.hints.omitted ELSE s.omitted
    BY <1>2 DEF Records
  <1>4. t \in Records
    <2>1. /\ s.csids \union {p.csid} \in SUBSET Csids
          /\ SetIfMissing(s.human, p.prints.human) \in Texts
          /\ SetIfMissing(s.lineage, p.prints.lineage) \in Lineages
          /\ SetIfMissing(s.cwd, p.start.cwd) \in PlaceValues
          /\ SetIfPresent(s.worktree, p.start.worktree) \in PlaceValues
          /\ SetIfMissing(s.branch, p.start.branch) \in PlaceValues
          /\ s.candidates \union p.hints.candidates \in SUBSET Nat
          /\ (IF p.hints.omitted > 0 THEN p.hints.omitted ELSE s.omitted) \in Nat
      <3>1. /\ s.csids \in SUBSET Csids /\ s.human \in Texts /\ s.lineage \in Lineages
            /\ s.cwd \in PlaceValues /\ s.worktree \in PlaceValues
            /\ s.branch \in PlaceValues /\ s.candidates \in SUBSET Nat /\ s.omitted \in Nat
        BY DEF Records
      <3> QED
        BY <3>1 DEF IsPayload, SetIfMissing, SetIfPresent
    <2> QED
      BY <1>1, <1>2, <2>1 DEF Records
  <1> QED
    BY <1>3, <1>4 DEF t, files

\* The record that an observation reaches, and what it does to it.
Payload(c, file, meta, prints, start, where) ==
  [csid |-> c, file |-> file, last |-> meta.last, prints |-> prints,
   start |-> start, hints |-> ResolveIdentity(c, meta, where, prints)]
RecordOrNew(sid) == IF sid \in Sids THEN sessions[sid] ELSE EmptySession

Effect(p) ==
  LET sid == p.hints.sid IN
  /\ IsPayload(p)
  /\ RecordOrNew(sid) \in Records
  /\ sessions' \in Seq(Records)
  /\ DOMAIN sessions' = Sids \union {sid}
  /\ sessions'[sid] = ReduceSessionSeen(RecordOrNew(sid), p)
  /\ \A s \in Sids \ {sid} : sessions'[s] = sessions[s]

LEMMA RecordIs ==
  ASSUME sessions \in Seq(Records), now \in Nat,
         NEW c \in Csids, NEW file \in Csids \union {Null}, NEW meta \in Transcripts,
         NEW prints, prints.human \in Texts, prints.lineage \in Lineages,
         NEW start, start.cwd \in PlaceValues, start.worktree \in PlaceValues,
         start.branch \in PlaceValues,
         NEW where,
         RecordSessionSeen(c, file, meta, prints, start, where)
  PROVE  Effect(Payload(c, file, meta, prints, start, where))
  <1> DEFINE p == Payload(c, file, meta, prints, start, where)
             sid == p.hints.sid
             old == RecordOrNew(sid)
             new == ReduceSessionSeen(old, p)
  <1>1. /\ p.hints.sid \in Sids \union {Fresh}
        /\ p.hints.candidates \in SUBSET Sids /\ p.hints.omitted \in Nat
    BY ResolveIs DEF Payload
  <1>2. Sids = 1 .. Len(sessions) /\ Len(sessions) \in Nat /\ Fresh \notin Sids
    BY SidsAre
  <1>3. IsPayload(p)
    <2>1. p.hints.candidates \in SUBSET Nat
      BY <1>1, <1>2
    <2>2. meta.last \in UuidOrNull
      BY DEF Transcripts
    <2>3. /\ p.csid = c /\ p.file = file /\ p.last = meta.last
          /\ p.prints = prints /\ p.start = start
      BY DEF Payload
    <2> HIDE DEF p
    <2> QED
      BY <1>1, <2>1, <2>2, <2>3 DEF IsPayload
  <1>4. sessions' = IF sid \in Sids THEN [sessions EXCEPT ![sid] = new]
                    ELSE Append(sessions, new)
    BY DEF RecordSessionSeen, Payload, RecordOrNew
  <1> HIDE DEF p
  <1>5. old \in Records
    BY NewRecord DEF RecordOrNew, Sids
  <1> HIDE DEF old
  <1>6. new \in Records
    BY <1>3, <1>5, ReduceIs
  <1> HIDE DEF new
  <1>7. CASE sid \in Sids
    <2>1. sessions' = [sessions EXCEPT ![sid] = new]
      BY <1>4, <1>7
    <2>2. sessions' \in Seq(Records)
      BY <1>2, <1>6, <1>7, <2>1
    <2>3. DOMAIN sessions' = Sids \union {sid}
      BY <1>7, <2>1 DEF Sids
    <2>4. sessions'[sid] = new /\ \A s \in Sids \ {sid} : sessions'[s] = sessions[s]
      BY <1>7, <2>1 DEF Sids
    <2> QED
      BY <1>3, <1>5, <2>2, <2>3, <2>4 DEF Effect, new, old, p
  <1>8. CASE sid \notin Sids
    <2>1. sid = Len(sessions) + 1
      BY <1>1, <1>8 DEF Fresh
    <2>2. sessions' = Append(sessions, new)
      BY <1>4, <1>8
    <2>3. /\ sessions' \in Seq(Records) /\ Len(sessions') = Len(sessions) + 1
          /\ sessions'[Len(sessions) + 1] = new
          /\ \A s \in 1 .. Len(sessions) : sessions'[s] = sessions[s]
      BY <1>6, <2>2
    <2>4. DOMAIN sessions' = 1 .. Len(sessions) + 1
      BY <2>3
    <2>5. 1 .. Len(sessions) + 1 = (1 .. Len(sessions)) \union {Len(sessions) + 1}
      BY <1>2
    <2> QED
      BY <1>2, <1>3, <1>5, <2>1, <2>3, <2>4, <2>5 DEF Effect, new, old, p
  <1> QED
    BY <1>7, <1>8

-----------------------------------------------------------------------------
\* The steps keep the types.

LEMMA PlaceFields ==
  ASSUME NEW p \in Places
  PROVE  /\ p # Null
         /\ p.cwd \in PlaceValues /\ p.worktree \in PlaceValues /\ p.branch \in PlaceValues
         /\ Folder[p.cwd] \in Folders
  <1>1. p.cwd \in PlaceValues /\ p.worktree \in PlaceValues /\ p.branch \in PlaceValues
    BY DEF PlaceValues
  <1> QED
    BY <1>1, NullIsNoPlace DEF Folders

\* What the payload says of the start of a session is a place the id ran in, or
\* such a place without its worktree.
LEMMA StartPlaceIs ==
  ASSUME NEW c, NEW p \in Places, place[c] = p, NEW staged \in Places \union {Null}
  PROVE  LET q == StartPlace(c, staged) IN
         /\ q.cwd \in PlaceValues /\ q.worktree \in PlaceValues /\ q.branch \in PlaceValues
         /\ \E at \in Places \intersect {p, staged} :
              q.cwd = at.cwd /\ q.worktree \in {at.worktree, Null}
         /\ PromptPlace(c).cwd = p.cwd /\ PromptPlace(c).worktree = Null
  <1>0. PromptPlace(c) = [p EXCEPT !.worktree = Null] /\ DOMAIN p = {"cwd", "worktree", "branch"}
    BY PlacesType DEF PromptPlace
  <1>1. CASE staged = Null
    <2>1. StartPlace(c, staged) = [p EXCEPT !.worktree = Null]
      BY <1>0, <1>1 DEF StartPlace
    <2>2. /\ StartPlace(c, staged).cwd = p.cwd
          /\ StartPlace(c, staged).worktree = Null
          /\ StartPlace(c, staged).branch = p.branch
      BY <2>1, PlacesType
    <2>3. Null \in PlaceValues
      BY DEF PlaceValues
    <2> QED
      BY <1>0, <2>2, <2>3, PlaceFields
  <1>2. CASE staged # Null
    BY <1>0, <1>2, PlaceFields DEF StartPlace
  <1> QED
    BY <1>1, <1>2

LEMMA NoFileType == NoFile \in Transcripts
  BY DEF NoFile, Transcripts, UuidOrNull, Texts, Folders

LEMMA ParseType ==
  ASSUME transcripts \in [Csids -> Transcripts], NEW c \in Csids,
         NEW explicit \in Csids \union {Null}
  PROVE  LET file == LocateTranscript(c, explicit)
             meta == ParseTranscriptFile(file) IN
         /\ file \in Csids \union {Null} /\ meta \in Transcripts
         /\ meta \in IF explicit = Null THEN {transcripts[c], NoFile}
                     ELSE {transcripts[explicit], NoFile}
  BY NoFileType DEF LocateTranscript, ParseTranscriptFile

LEMMA FingerprintsType ==
  ASSUME NEW meta \in Transcripts
  PROVE  /\ Fingerprints(meta).human \in Texts
         /\ Fingerprints(meta).lineage \in Lineages
  <1>1. /\ Fingerprints(meta).human = meta.prompt
        /\ Fingerprints(meta).lineage =
             IF meta.first = Null THEN Null ELSE <<meta.first, meta.parent>>
    BY DEF Fingerprints
  <1>2. meta.prompt \in Texts /\ meta.first \in UuidOrNull /\ meta.parent \in UuidOrNull
    BY DEF Transcripts
  <1> QED
    BY <1>1, <1>2 DEF Lineages

LEMMA TurnIs ==
  ASSUME NEW t \in Transcripts, NEW c \in Csids, place[c] \in Places, NEW prompt \in Texts
  PROVE  LET u == WithTurn(t, c, prompt) IN
         /\ u \in Transcripts
         /\ u.first \in {t.first, <<c, t.size + 1>>}
         /\ u.last = <<c, t.size + 1>>
         /\ u.parent = t.parent
         /\ u.prompt \in {t.prompt, prompt}
         /\ u.size # 0
  <1> DEFINE n == t.size + 1
             u == [t EXCEPT !.first = SetIfMissing(@, <<c, n>>), !.last = <<c, n>>,
                            !.prompt = SetIfMissing(@, prompt),
                            !.folder = SetIfMissing(@, Folder[place[c].cwd]), !.size = n]
  <1>1. /\ t.first \in UuidOrNull /\ t.parent \in UuidOrNull /\ t.last \in UuidOrNull
        /\ t.prompt \in Texts /\ t.folder \in Folders /\ t.size \in Nat
    BY DEF Transcripts
  <1>2. n \in Nat /\ n # 0
    BY <1>1
  <1> HIDE DEF n
  <1>3. <<c, n>> \in UuidOrNull
    BY <1>2 DEF UuidOrNull, Uuids
  <1>4. Folder[place[c].cwd] \in Folders
    BY PlaceFields
  <1>5. /\ SetIfMissing(t.first, <<c, n>>) \in UuidOrNull \intersect {t.first, <<c, n>>}
        /\ SetIfMissing(t.prompt, prompt) \in Texts \intersect {t.prompt, prompt}
        /\ SetIfMissing(t.folder, Folder[place[c].cwd]) \in Folders
    BY <1>1, <1>3, <1>4 DEF SetIfMissing
  <1>6. u \in Transcripts
    BY <1>2, <1>3, <1>5 DEF Transcripts
  <1>7. /\ u.first \in {t.first, <<c, n>>} /\ u.last = <<c, n>> /\ u.parent = t.parent
        /\ u.prompt \in {t.prompt, prompt} /\ u.size # 0
    BY <1>2, <1>5 DEF Transcripts
  <1>8. WithTurn(t, c, prompt) = u
    BY DEF WithTurn, n
  <1> HIDE DEF u
  <1> QED
    BY <1>6, <1>7, <1>8 DEF n

LEMMA ForkType ==
  ASSUME NEW c \in Csids, NEW u \in UuidOrNull, NEW p \in Places
  PROVE  [NoFile EXCEPT !.first = <<c, 1>>, !.last = <<c, 1>>, !.parent = u,
                        !.folder = Folder[p.cwd], !.size = 1] \in Transcripts
  <1>1. <<c, 1>> \in UuidOrNull /\ Folder[p.cwd] \in Folders
    BY PlaceFields DEF UuidOrNull, Uuids
  <1> QED
    BY <1>1, NoFileType DEF Transcripts

\* A session_progress touches one record, and of the fields the resolution
\* looks at the directory only.
LEMMA HeartbeatIs ==
  ASSUME TypeOK, NEW c \in Csids, place[c] \in Places,
         FindByClaudeSessionId(c) # {}, Heartbeat(c)
  PROVE  \E s \in Sids :
           /\ c \in sessions[s].csids
           /\ sessions' \in Seq(Records) /\ DOMAIN sessions' = Sids
           /\ sessions'[s].csids = sessions[s].csids
           /\ sessions'[s].files = sessions[s].files
           /\ sessions'[s].human = sessions[s].human
           /\ sessions'[s].lineage = sessions[s].lineage
           /\ sessions'[s].worktree = sessions[s].worktree
           /\ sessions'[s].cwd = SetIfMissing(sessions[s].cwd, place[c].cwd)
           /\ \A t \in Sids \ {s} : sessions'[t] = sessions[t]
  <1> DEFINE s == Min(FindByClaudeSessionId(c))
  <1>1. sessions \in Seq(Records) /\ now \in Nat
    BY DEF TypeOK
  <1>2. Sids = 1 .. Len(sessions) /\ Len(sessions) \in Nat
    BY <1>1, SidsAre
  <1>3. FindByClaudeSessionId(c) \in SUBSET Nat
    BY <1>2 DEF FindByClaudeSessionId
  <1>4. s \in FindByClaudeSessionId(c)
    BY <1>3, MinIn
  <1>5. sessions' = [sessions EXCEPT ![s].cwd = SetIfMissing(@, place[c].cwd),
                                     ![s].last_progress_at = now]
    BY DEF Heartbeat
  <1> HIDE DEF s
  <1>6. s \in Sids /\ c \in sessions[s].csids
    BY <1>4 DEF FindByClaudeSessionId
  <1> DEFINE r == sessions[s]
             q == [r EXCEPT !.cwd = SetIfMissing(@, place[c].cwd), !.last_progress_at = now]
  <1>7. r \in Records
    BY <1>1, <1>2, <1>6
  <1>8. sessions' = [sessions EXCEPT ![s] = q]
    <2>1. DOMAIN r = {"csids", "files", "human", "lineage", "cwd", "worktree", "branch",
                      "candidates", "omitted", "last_progress_at"}
      BY <1>7 DEF Records
    <2> QED
      BY <1>5, <1>6, <2>1 DEF Sids
  <1> HIDE DEF r
  <1>9. q \in Records
    <2>1. r.cwd \in PlaceValues /\ place[c].cwd \in PlaceValues
      BY <1>7, PlaceFields DEF Records
    <2>2. SetIfMissing(r.cwd, place[c].cwd) \in PlaceValues
      BY <2>1 DEF SetIfMissing
    <2> QED
      BY <1>1, <1>7, <2>2 DEF Records
  <1>10. /\ q.csids = r.csids /\ q.files = r.files /\ q.human = r.human
         /\ q.lineage = r.lineage /\ q.worktree = r.worktree
         /\ q.cwd = SetIfMissing(r.cwd, place[c].cwd)
    BY <1>7 DEF Records
  <1> HIDE DEF q
  <1>11. sessions' \in Seq(Records)
    BY <1>1, <1>2, <1>6, <1>8, <1>9
  <1>12. DOMAIN sessions' = Sids
    BY <1>8 DEF Sids
  <1>13. sessions'[s] = q /\ \A t \in Sids \ {s} : sessions'[t] = sessions[t]
    BY <1>6, <1>8 DEF Sids
  <1> QED
    BY <1>6, <1>10, <1>11, <1>12, <1>13 DEF r

\* An observation recorded for c, with whatever a hook can have read.
Observes(c, file, meta, prints, start, where) ==
  /\ file \in Csids \union {Null} /\ meta \in Transcripts
  /\ prints.human \in Texts /\ prints.lineage \in Lineages
  /\ start.cwd \in PlaceValues /\ start.worktree \in PlaceValues
  /\ start.branch \in PlaceValues
  /\ RecordSessionSeen(c, file, meta, prints, start, where)
Observed(c) ==
  \E file, meta, prints, start, where : Observes(c, file, meta, prints, start, where)

LEMMA StartHookObserves ==
  ASSUME TypeOK, NEW c \in Csids, StartHookRecords(c)
  PROVE  LET h == hook[c] IN
         /\ h \in HookReads
         /\ Observes(c, h.file, h.meta, Fingerprints(h.meta), h.where, h.where)
  <1> DEFINE h == hook[c]
  <1>1. h \in HookReads
    BY DEF TypeOK, StartHookRecords
  <1>2. RecordSessionSeen(c, h.file, h.meta, Fingerprints(h.meta), h.where, h.where)
    BY DEF StartHookRecords
  <1> HIDE DEF h
  <1>3. h.file \in Csids \union {Null} /\ h.meta \in Transcripts /\ h.where \in Places
    BY <1>1 DEF HookReads
  <1>4. Observes(c, h.file, h.meta, Fingerprints(h.meta), h.where, h.where)
    BY <1>2, <1>3, FingerprintsType, PlaceFields DEF Observes
  <1> QED
    BY <1>1, <1>4 DEF h

LEMMA PromptObserves ==
  ASSUME TypeOK, NEW c \in Csids, NEW prompt \in Prompts,
         NEW staged \in stood[c] \union {Null}, Running(c),
         RecordFirstPrompt(c, prompt, staged)
  PROVE  Observes(c, Null, NoFile, [human |-> prompt, lineage |-> Null],
                  StartPlace(c, staged), PromptPlace(c))
  <1>1. place[c] \in Places /\ staged \in Places \union {Null}
    BY DEF TypeOK, Running
  <1>2. prompt \in Texts /\ Null \in Lineages
    BY DEF Texts, Lineages
  <1> QED
    BY <1>1, <1>2, NoFileType, StartPlaceIs DEF Observes, RecordFirstPrompt

LEMMA ObservedType ==
  ASSUME sessions \in Seq(Records), now \in Nat, NEW c \in Csids, Observed(c)
  PROVE  sessions' \in Seq(Records)
  <1>1. PICK file, meta, prints, start, where :
               Observes(c, file, meta, prints, start, where)
    BY DEF Observed
  <1>2. Effect(Payload(c, file, meta, prints, start, where))
    BY <1>1, RecordIs DEF Observes
  <1> QED
    BY <1>2 DEF Effect

\* All the steps can do to the records.
LEMMA SessionsStep ==
  ASSUME TypeOK, [Next]_vars
  PROVE  \/ sessions' = sessions
         \/ \E c \in Csids : Observed(c)
         \/ \E c \in Csids : /\ place[c] \in Places /\ FindByClaudeSessionId(c) # {}
                             /\ Heartbeat(c)
  <1>1. ASSUME NEW c \in Csids, Conversation(c)
        PROVE  sessions' = sessions
    BY <1>1 DEF Conversation, Begin, Fork, Copy, Move, TurnUnseen, Started
  <1>2. ASSUME NEW c \in Csids, Hook(c)
        PROVE  \/ sessions' = sessions
               \/ Observed(c)
               \/ place[c] \in Places /\ FindByClaudeSessionId(c) # {} /\ Heartbeat(c)
    <2>1. ASSUME NEW explicit, StartHookReads(c, explicit)
          PROVE  sessions' = sessions
      BY <2>1 DEF StartHookReads
    <2>2. CASE StartHookRecords(c)
      BY <2>2, StartHookObserves DEF Observed
    <2>3. CASE StartHookEnds(c)
      BY <2>3 DEF StartHookEnds
    <2>4. ASSUME NEW prompt \in Prompts, NEW staged \in stood[c] \union {Null},
                 PromptTurn(c, prompt, staged)
          PROVE  \/ Observed(c)
                 \/ place[c] \in Places /\ FindByClaudeSessionId(c) # {} /\ Heartbeat(c)
      <3>1. Running(c) /\ place[c] \in Places
        BY <2>4 DEF PromptTurn, Turn, Running, TypeOK
      <3>2. CASE RecordFirstPrompt(c, prompt, staged)
        BY <3>1, <3>2, PromptObserves DEF Observed
      <3>3. CASE FindByClaudeSessionId(c) # {} /\ Heartbeat(c)
        BY <3>1, <3>3
      <3> QED
        BY <2>4, <3>2, <3>3 DEF PromptTurn
    <2> QED
      BY <1>2, <2>1, <2>2, <2>3, <2>4 DEF Hook
  <1> QED
    BY <1>1, <1>2 DEF Next, Tick, vars

LEMMA TypeInit == Init => TypeOK
  <1> SUFFICES ASSUME Init
               PROVE  TypeOK
    OBVIOUS
  <1>1. budget \in [Kinds -> Int]
    BY BudgetsType DEF Init
  <1> QED
    BY <1>1, NoFileType DEF Init, TypeOK

LEMMA StartedType ==
  ASSUME TypeOK, NEW c \in Csids, NEW p \in Places, NEW file \in Transcripts,
         NEW origin \in Csids, NEW k \in Kinds, Spend(k), Started(c, p, file, origin)
  PROVE  TypeOK'
  <1>1. budget' \in [Kinds -> Int]
    BY DEF TypeOK, Spend
  <1>2. file.prompt # Null => file.prompt \in Prompts
    BY DEF Transcripts, Texts
  <1>3. place' \in [Csids -> Places \union {Null}] /\ transcripts' \in [Csids -> Transcripts]
    BY DEF TypeOK, Started
  <1>4. /\ root' \in [Csids -> Csids] /\ stood' \in [Csids -> SUBSET Places]
        /\ handed' \in [Csids -> SUBSET Csids]
        /\ said' \in [Csids -> SUBSET Prompts]
    BY <1>2 DEF TypeOK, Started
  <1> QED
    BY <1>1, <1>3, <1>4 DEF TypeOK, Started

LEMMA TypeStep == TypeOK /\ [Next]_vars => TypeOK'
  <1> SUFFICES ASSUME TypeOK, [Next]_vars
               PROVE  TypeOK'
    OBVIOUS
  <1>1. sessions' \in Seq(Records)
    BY SessionsStep, ObservedType, HeartbeatIs DEF TypeOK
  <1>2. \A k \in Kinds : Spend(k) => budget' \in [Kinds -> Int]
    BY DEF TypeOK, Spend
  <1>3. Null \in Texts /\ Prompts \subseteq Texts
    BY DEF Texts
  <1>4. CASE UNCHANGED vars
    BY <1>4 DEF TypeOK, vars, truth
  <1>5. CASE Tick
    BY <1>2, <1>5 DEF TypeOK, Tick, truth, Kinds
  <1>6. ASSUME NEW c \in Csids, NEW p \in Places, Begin(c, p)
        PROVE  TypeOK'
    BY <1>6, NoFileType, StartedType DEF Begin, Kinds
  <1>7. ASSUME NEW c \in Csids, NEW p \in Places, NEW d \in Csids, Fork(c, d, p)
        PROVE  TypeOK'
    <2>1. transcripts[d].last \in UuidOrNull
      BY DEF TypeOK, Transcripts
    <2> DEFINE file == [NoFile EXCEPT !.first = <<c, 1>>, !.last = <<c, 1>>,
                                      !.parent = transcripts[d].last,
                                      !.folder = Folder[p.cwd], !.size = 1]
    <2>2. file \in Transcripts
      BY <2>1, ForkType
    <2>3. Spend("fork") /\ Started(c, p, file, d)
      BY <1>7 DEF Fork
    <2> HIDE DEF file
    <2> QED
      BY <2>2, <2>3, StartedType DEF Kinds
  <1>8. ASSUME NEW c \in Csids, NEW p \in Places, NEW d \in Csids, Copy(c, d, p)
        PROVE  TypeOK'
    <2> DEFINE file == [transcripts[d] EXCEPT !.folder = Folder[p.cwd]]
    <2>1. file \in Transcripts
      <3>1. transcripts[d] \in Transcripts /\ Folder[p.cwd] \in Folders
        BY PlaceFields DEF TypeOK
      <3> QED
        BY <3>1 DEF Transcripts
    <2>2. Spend("copy") /\ Started(c, p, file, d)
      BY <1>8 DEF Copy
    <2> HIDE DEF file
    <2> QED
      BY <2>1, <2>2, StartedType DEF Kinds
  <1>9. ASSUME NEW c \in Csids, NEW p \in Places, Move(c, p)
        PROVE  TypeOK'
    BY <1>2, <1>9 DEF TypeOK, Move, Kinds
  <1>10. ASSUME NEW c \in Csids, NEW prompt \in Texts, NEW k \in Kinds,
                Spend(k), Turn(c, prompt)
         PROVE  TypeOK'
    <2>1. place[c] \in Places
      BY <1>10 DEF TypeOK, Turn, Running
    <2>2. WithTurn(transcripts[c], c, prompt) \in Transcripts
      BY <2>1, TurnIs DEF TypeOK
    <2>3. transcripts' = [transcripts EXCEPT ![c] = WithTurn(transcripts[c], c, prompt)]
      BY <1>10 DEF Turn
    <2>4. transcripts' \in [Csids -> Transcripts]
      BY <2>2, <2>3 DEF TypeOK
    <2>5. said' \in [Csids -> SUBSET Prompts]
      BY <1>10 DEF Turn, TypeOK, Texts
    <2> QED
      BY <1>1, <1>2, <1>10, <2>4, <2>5 DEF TypeOK, Turn
  <1>11. ASSUME NEW c \in Csids, NEW explicit \in Csids \union {Null},
                StartHookReads(c, explicit)
         PROVE  TypeOK'
    <2>1. place[c] \in Places
      BY <1>11 DEF TypeOK, StartHookReads, Running
    <2> DEFINE file == LocateTranscript(c, explicit)
               h == [file |-> file, meta |-> ParseTranscriptFile(file), where |-> place[c]]
    <2>2. h \in HookReads
      BY <2>1, ParseType DEF TypeOK, HookReads
    <2>3. hook' = [hook EXCEPT ![c] = h]
      BY <1>11 DEF StartHookReads
    <2> HIDE DEF h
    <2>4. hook' \in [Csids -> HookReads \union {Null}]
      BY <2>2, <2>3 DEF TypeOK
    <2>5. handed' \in [Csids -> SUBSET Csids] /\ said' \in [Csids -> SUBSET Prompts]
      <3>1. CASE explicit = Null
        BY <1>11, <3>1 DEF TypeOK, StartHookReads
      <3>2. CASE explicit # Null
        <4>1. transcripts[explicit].prompt \in Prompts \union {Null} /\ root[explicit] \in Csids
          BY <3>2 DEF TypeOK, Transcripts, Texts
        <4>2. handed[c] \union {root[explicit]} \in SUBSET Csids
          BY <4>1 DEF TypeOK
        <4>3. said[c] \union ({transcripts[explicit].prompt} \ {Null}) \in SUBSET Prompts
          BY <4>1 DEF TypeOK
        <4> DEFINE hands == handed[c] \union {root[explicit]}
                   heard == said[c] \union ({transcripts[explicit].prompt} \ {Null})
        <4>4. handed' = [handed EXCEPT ![c] = hands] /\ said' = [said EXCEPT ![c] = heard]
          BY <1>11, <3>2 DEF StartHookReads
        <4> HIDE DEF hands, heard
        <4>5. hands \in SUBSET Csids /\ heard \in SUBSET Prompts
          BY <4>2, <4>3 DEF hands, heard
        <4> QED
          BY <4>4, <4>5 DEF TypeOK
      <3> QED
        BY <3>1, <3>2
    <2>6. budget' \in [Kinds -> Int]
      BY <1>2, <1>11 DEF StartHookReads, Kinds
    <2> QED
      BY <1>11, <2>4, <2>5, <2>6 DEF TypeOK, StartHookReads
  <1>12. ASSUME NEW c \in Csids, StartHookRecords(c)
         PROVE  TypeOK'
    BY <1>1, <1>12 DEF TypeOK, StartHookRecords, truth
  <1>13. ASSUME NEW c \in Csids, StartHookEnds(c)
         PROVE  TypeOK'
    BY <1>13 DEF TypeOK, StartHookEnds, truth
  <1>14. ASSUME NEW c \in Csids, Conversation(c)
         PROVE  TypeOK'
    BY <1>3, <1>6, <1>7, <1>8, <1>9, <1>10, <1>14 DEF Conversation, TurnUnseen, Kinds
  <1>15. ASSUME NEW c \in Csids, Hook(c)
         PROVE  TypeOK'
    BY <1>3, <1>10, <1>11, <1>12, <1>13, <1>15 DEF Hook, PromptTurn, Kinds
  <1> QED
    BY <1>4, <1>5, <1>14, <1>15 DEF Next

\* The variables keep their types.
THEOREM IdentityType == Spec => []TypeOK
  BY TypeInit, TypeStep, PTL DEF Spec

-----------------------------------------------------------------------------
\* To which session an id belongs, once it belongs to one.

LEMMA ObservedSticks ==
  ASSUME TypeOK, NEW c \in Csids, Observed(c), NEW d \in Csids, Indexed(d)
  PROVE  FindByClaudeSessionId(d)' = FindByClaudeSessionId(d)
  <1>1. PICK file, meta, prints, start, where :
               Observes(c, file, meta, prints, start, where)
    BY DEF Observed
  <1> DEFINE p == Payload(c, file, meta, prints, start, where)
             sid == p.hints.sid
             old == RecordOrNew(sid)
  <1>2. /\ IsPayload(p) /\ old \in Records
        /\ DOMAIN sessions' = Sids \union {sid}
        /\ sessions'[sid] = ReduceSessionSeen(old, p)
        /\ \A s \in Sids \ {sid} : sessions'[s] = sessions[s]
    <2>1. Effect(p)
      BY <1>1, RecordIs DEF Observes, TypeOK
    <2> HIDE DEF p
    <2> QED
      BY <2>1 DEF Effect
  <1>3. Indexed(c) => sid \in Sids /\ c \in sessions[sid].csids
    BY ResolveIs DEF Payload, TypeOK
  <1>4. p.csid = c
    BY DEF Payload
  <1>5. sessions'[sid].csids = old.csids \union {c}
    BY <1>2, <1>4, ReduceIs DEF TypeOK
  <1>6. old.csids = IF sid \in Sids THEN sessions[sid].csids ELSE {}
    BY DEF RecordOrNew, EmptySession
  <1> HIDE DEF old, p
  <1>7. \A s : s \in DOMAIN sessions' /\ d \in sessions'[s].csids
                 <=> s \in Sids /\ d \in sessions[s].csids
    <2>1. CASE d = c
      BY <1>2, <1>3, <1>5, <1>6, <2>1
    <2>2. CASE d # c
      BY <1>2, <1>5, <1>6, <2>2
    <2> QED
      BY <2>1, <2>2
  <1> QED
    BY <1>7 DEF FindByClaudeSessionId, Sids

\* Once an id is bound to a session it stays bound to that one alone
\* (resolveIdentity looks at the index first, and reduceSessionSeen adds the id
\* of its own event only).
THEOREM IdentityStays == Spec => IdentitySticks
  <1>1. ASSUME TypeOK, [Next]_vars, NEW c \in Csids, Indexed(c)
        PROVE  FindByClaudeSessionId(c)' = FindByClaudeSessionId(c)
    <2>1. CASE sessions' = sessions
      BY <2>1 DEF FindByClaudeSessionId, Sids
    <2>2. ASSUME NEW d \in Csids, Observed(d)
          PROVE  FindByClaudeSessionId(c)' = FindByClaudeSessionId(c)
      BY <1>1, <2>2, ObservedSticks
    <2>3. ASSUME NEW d \in Csids, place[d] \in Places, FindByClaudeSessionId(d) # {},
                 Heartbeat(d)
          PROVE  FindByClaudeSessionId(c)' = FindByClaudeSessionId(c)
      <3>1. PICK s \in Sids :
              /\ DOMAIN sessions' = Sids
              /\ sessions'[s].csids = sessions[s].csids
              /\ \A t \in Sids \ {s} : sessions'[t] = sessions[t]
        BY <1>1, <2>3, HeartbeatIs
      <3> QED
        BY <3>1 DEF FindByClaudeSessionId, Sids
    <2> QED
      BY <1>1, <2>1, <2>2, <2>3, SessionsStep
  <1>2. TypeOK /\ [Next]_vars =>
          [\A c \in Csids : Indexed(c) =>
             FindByClaudeSessionId(c)' = FindByClaudeSessionId(c)]_vars
    BY <1>1
  <1> QED
    BY <1>2, IdentityType, PTL DEF Spec, IdentitySticks

LEMMA ObservedHints ==
  ASSUME TypeOK, NEW c \in Csids, Observed(c), NEW s \in Sids' \ Sids
  PROVE  LET likes == {t \in Sids : \/ Same(sessions[t].human, sessions'[s].human)
                                    \/ Same(sessions[t].lineage, sessions'[s].lineage)}
         IN  /\ sessions'[s].candidates \subseteq likes
             /\ Cardinality(likes) = Cardinality(sessions'[s].candidates)
                                       + sessions'[s].omitted
  <1>1. PICK file, meta, prints, start, where :
               Observes(c, file, meta, prints, start, where)
    BY DEF Observed
  <1> DEFINE p == Payload(c, file, meta, prints, start, where)
             r == p.hints
             old == RecordOrNew(r.sid)
             found == ScanFingerprintCandidates(prints)
             new == sessions'[s]
  <1>2. /\ IsPayload(p) /\ old \in Records
        /\ DOMAIN sessions' = Sids \union {r.sid}
        /\ sessions'[r.sid] = ReduceSessionSeen(old, p)
    <2>1. Effect(p)
      BY <1>1, RecordIs DEF Observes, TypeOK
    <2> HIDE DEF p
    <2> QED
      BY <2>1 DEF Effect
  <1>3. s = r.sid /\ r.sid \notin Sids
    BY <1>2 DEF Sids
  <1>4. /\ r.candidates \subseteq found
        /\ Cardinality(found) = Cardinality(r.candidates) + r.omitted
    <2>1. /\ r.sid \in Sids \union {Fresh}
          /\ r.sid = Fresh => /\ r.candidates \subseteq found
                              /\ Cardinality(found) = Cardinality(r.candidates) + r.omitted
      BY ResolveIs DEF Payload, TypeOK
    <2> HIDE DEF r, found
    <2> QED
      BY <1>3, <2>1
  <1>5. p.prints = prints
    BY DEF Payload
  <1>6. /\ old.human = Null /\ old.lineage = Null
        /\ old.candidates = {} /\ old.omitted = 0
    BY <1>3 DEF RecordOrNew, EmptySession
  <1>7. /\ new.human = SetIfMissing(old.human, p.prints.human)
        /\ new.lineage = SetIfMissing(old.lineage, p.prints.lineage)
        /\ new.candidates = old.candidates \union r.candidates
        /\ new.omitted = IF r.omitted > 0 THEN r.omitted ELSE old.omitted
    BY <1>2, <1>3, ReduceIs DEF TypeOK
  <1>8. r.omitted \in Nat
    BY <1>2 DEF IsPayload
  <1> HIDE DEF p, old
  <1>9. /\ new.human = prints.human /\ new.lineage = prints.lineage
        /\ new.candidates = r.candidates /\ new.omitted = r.omitted
    BY <1>5, <1>6, <1>7, <1>8 DEF SetIfMissing
  <1>10. {t \in Sids : \/ Same(sessions[t].human, new.human)
                       \/ Same(sessions[t].lineage, new.lineage)} = found
    BY <1>9 DEF ScanFingerprintCandidates
  <1> QED
    BY <1>4, <1>9, <1>10

\* The hints of a new session account for every session that starts like it:
\* named, or counted as left out (capParentCandidates, resolveIdentity).
THEOREM IdentityHintsAreComplete == Spec => HintsAreComplete
  <1> DEFINE Complete(s) ==
        LET likes == {t \in Sids : \/ Same(sessions[t].human, sessions'[s].human)
                                   \/ Same(sessions[t].lineage, sessions'[s].lineage)}
        IN  /\ sessions'[s].candidates \subseteq likes
            /\ Cardinality(likes) = Cardinality(sessions'[s].candidates)
                                      + sessions'[s].omitted
  <1>1. ASSUME TypeOK, [Next]_vars, NEW s \in Sids' \ Sids
        PROVE  Complete(s)
    <2>1. sessions' # sessions
      BY DEF Sids
    <2>2. ASSUME NEW c \in Csids, place[c] \in Places, FindByClaudeSessionId(c) # {},
                 Heartbeat(c)
          PROVE  FALSE
      BY <1>1, <2>2, HeartbeatIs DEF Sids
    <2> QED
      BY <1>1, <2>1, <2>2, SessionsStep, ObservedHints
  <1>2. TypeOK /\ [Next]_vars => [\A s \in Sids' \ Sids : Complete(s)]_vars
    BY <1>1
  <1> QED
    BY <1>2, IdentityType, PTL DEF Spec, HintsAreComplete

-----------------------------------------------------------------------------
\* What ties the records to the conversations.  The operators take the truth,
\* rt, hd, st and sd for root, handed, stood and said, as parameters: a hook may add to it
\* what it records.

\* A uuid of the conversation that c belongs to, or of one whose transcript it
\* was handed.
OwnIn(c, u, rt, st) ==
  u # Null => \E d \in Csids, n \in Nat : u = <<d, n>> /\ st[d] # {} /\ rt[d] = rt[c]
RootsIn(c, rt, hd) == {rt[c]} \union hd[c]
OursIn(c, u, rt, hd, st) ==
  u # Null =>
    \E d \in Csids, n \in Nat : u = <<d, n>> /\ st[d] # {} /\ rt[d] \in RootsIn(c, rt, hd)

\* WeakEvidenceNeverJoins, for the ids cs.
Near(c, d, st) ==
  \E p \in st[c], q \in st[d] : \E f \in {"cwd", "worktree"} : Same(p[f], q[f])
JoinedFor(c, others, rt, hd, st, sd) ==
  \/ \E d \in others : RootsIn(c, rt, hd) \intersect RootsIn(d, rt, hd) # {}
  \/ /\ \E d \in others : sd[c] \intersect sd[d] # {}
     /\ \E d \in others : Near(c, d, st)
Joined(cs, rt, hd, st, sd) ==
  \A c \in cs : cs \ {c} # {} => JoinedFor(c, cs \ {c}, rt, hd, st, sd)

\* Each field of a record came from one of its ids.
RecordOK(r, rt, hd, st, sd) ==
  /\ \A c \in r.csids : st[c] # {}
  /\ \A f \in DOMAIN r.files : \E c \in r.csids : OursIn(c, r.files[f], rt, hd, st)
  /\ r.human # Null => \E c \in r.csids : r.human \in sd[c]
  /\ r.lineage # Null =>
       r.lineage[1] # Null /\ \E c \in r.csids : OursIn(c, r.lineage[1], rt, hd, st)
  /\ r.cwd # Null => \E c \in r.csids : \E p \in st[c] : r.cwd = p.cwd
  /\ r.worktree # Null => \E c \in r.csids : \E p \in st[c] : r.worktree = p.worktree
  /\ Joined(r.csids, rt, hd, st, sd)

\* So did what a hook has read, and what is in a transcript.
OwnTranscript(t, c, rt, st, sd) ==
  /\ OwnIn(c, t.first, rt, st) /\ OwnIn(c, t.parent, rt, st) /\ OwnIn(c, t.last, rt, st)
  /\ t.prompt # Null => t.prompt \in sd[c]
TranscriptOK(t, c, rt, hd, st, sd) ==
  /\ OursIn(c, t.first, rt, hd, st) /\ OursIn(c, t.parent, rt, hd, st) /\ OursIn(c, t.last, rt, hd, st)
  /\ t.prompt # Null => t.prompt \in sd[c]
ObservationOK(c, file, meta, prints, start, where, rt, hd, st, sd) ==
  /\ st[c] # {}
  /\ OursIn(c, meta.parent, rt, hd, st) /\ OursIn(c, meta.last, rt, hd, st)
  /\ prints.human # Null => prints.human \in sd[c]
  /\ prints.lineage # Null =>
       prints.lineage[1] # Null /\ OursIn(c, prints.lineage[1], rt, hd, st)
  /\ start.cwd # Null => \E p \in st[c] : start.cwd = p.cwd
  /\ start.worktree # Null => \E p \in st[c] : start.worktree = p.worktree
  /\ \A f \in {"cwd", "worktree"} : where[f] # Null => \E p \in st[c] : where[f] = p[f]

IdOK(c) ==
  /\ IF stood[c] = {} THEN place[c] = Null ELSE place[c] \in stood[c]
  /\ stood[c] = {} => transcripts[c] = NoFile
  /\ OwnTranscript(transcripts[c], c, root, stood, said)
  /\ hook[c] # Null =>
       /\ TranscriptOK(hook[c].meta, c, root, handed, stood, said)
       /\ hook[c].where \in stood[c]
IdentityInv ==
  /\ TypeOK
  /\ \A c \in Csids : IdOK(c)
  /\ \A s \in Sids : RecordOK(sessions[s], root, handed, stood, said)

\* The truth grows: of an id that runs nothing is forgotten.
Grows(rt, hd, st, sd, rt2, hd2, st2, sd2) ==
  \A c \in Csids : st[c] # {} => /\ rt2[c] = rt[c]
                                 /\ hd[c] \subseteq hd2[c]
                                 /\ st[c] \subseteq st2[c] /\ sd[c] \subseteq sd2[c]

LEMMA OursGrows ==
  ASSUME NEW rt, NEW hd, NEW st, NEW sd, NEW rt2, NEW hd2, NEW st2, NEW sd2,
         Grows(rt, hd, st, sd, rt2, hd2, st2, sd2),
         NEW c \in Csids, st[c] # {}, NEW u, OursIn(c, u, rt, hd, st)
  PROVE  OursIn(c, u, rt2, hd2, st2)
  BY DEF Grows, OursIn, RootsIn

LEMMA JoinedForGrows ==
  ASSUME NEW rt, NEW hd, NEW st, NEW sd, NEW rt2, NEW hd2, NEW st2, NEW sd2,
         Grows(rt, hd, st, sd, rt2, hd2, st2, sd2),
         NEW c \in Csids, st[c] # {}, NEW others \in SUBSET Csids,
         \A d \in others : st[d] # {},
         JoinedFor(c, others, rt, hd, st, sd)
  PROVE  JoinedFor(c, others, rt2, hd2, st2, sd2)
  <1>1. CASE \E d \in others : RootsIn(c, rt, hd) \intersect RootsIn(d, rt, hd) # {}
    <2>1. \A d \in others \union {c} : RootsIn(d, rt, hd) \subseteq RootsIn(d, rt2, hd2)
      BY DEF Grows, RootsIn
    <2>2. \E d \in others : RootsIn(c, rt2, hd2) \intersect RootsIn(d, rt2, hd2) # {}
      BY <1>1, <2>1
    <2> QED
      BY <2>2 DEF JoinedFor
  <1>2. CASE /\ \E d \in others : sd[c] \intersect sd[d] # {}
             /\ \E d \in others : Near(c, d, st)
    <2>1. \E d \in others : sd2[c] \intersect sd2[d] # {}
      BY <1>2 DEF Grows
    <2>2. \E d \in others : Near(c, d, st2)
      BY <1>2 DEF Grows, Near
    <2> QED
      BY <2>1, <2>2 DEF JoinedFor
  <1> QED
    BY <1>1, <1>2 DEF JoinedFor

LEMMA RecordGrows ==
  ASSUME NEW rt, NEW hd, NEW st, NEW sd, NEW rt2, NEW hd2, NEW st2, NEW sd2,
         Grows(rt, hd, st, sd, rt2, hd2, st2, sd2),
         NEW r \in Records, RecordOK(r, rt, hd, st, sd)
  PROVE  RecordOK(r, rt2, hd2, st2, sd2)
  <1>1. r.csids \in SUBSET Csids
    BY DEF Records
  <1>2. \A c \in r.csids : st[c] # {} /\ st2[c] # {}
    BY <1>1 DEF Grows, RecordOK
  <1>3. \A f \in DOMAIN r.files : \E c \in r.csids : OursIn(c, r.files[f], rt2, hd2, st2)
    BY <1>1, <1>2, OursGrows DEF RecordOK
  <1>4. r.human # Null => \E c \in r.csids : r.human \in sd2[c]
    BY <1>1, <1>2 DEF RecordOK, Grows
  <1>5. r.lineage # Null =>
          r.lineage[1] # Null /\ \E c \in r.csids : OursIn(c, r.lineage[1], rt2, hd2, st2)
    BY <1>1, <1>2, OursGrows DEF RecordOK
  <1>6. /\ r.cwd # Null => \E c \in r.csids : \E p \in st2[c] : r.cwd = p.cwd
        /\ r.worktree # Null =>
             \E c \in r.csids : \E p \in st2[c] : r.worktree = p.worktree
    BY <1>1, <1>2 DEF RecordOK, Grows
  <1>7. Joined(r.csids, rt2, hd2, st2, sd2)
    <2> SUFFICES ASSUME NEW c \in r.csids, r.csids \ {c} # {}
                 PROVE  JoinedFor(c, r.csids \ {c}, rt2, hd2, st2, sd2)
      BY DEF Joined
    <2>1. JoinedFor(c, r.csids \ {c}, rt, hd, st, sd)
      BY DEF RecordOK, Joined
    <2>2. r.csids \ {c} \in SUBSET Csids /\ \A d \in r.csids \ {c} : st[d] # {}
      BY <1>1, <1>2
    <2>3. c \in Csids /\ st[c] # {}
      BY <1>1, <1>2
    <2> QED
      BY <2>1, <2>2, <2>3, JoinedForGrows
  <1> QED
    BY <1>2, <1>3, <1>4, <1>5, <1>6, <1>7 DEF RecordOK

\* One id more, for a reason.
LEMMA OneJoins ==
  ASSUME NEW rt, NEW hd, NEW st, NEW sd, NEW cs \in SUBSET Csids, NEW c \in Csids, c \notin cs,
         Joined(cs, rt, hd, st, sd),
         cs # {} => JoinedFor(c, cs, rt, hd, st, sd)
  PROVE  Joined(cs \union {c}, rt, hd, st, sd)
  <1> SUFFICES ASSUME NEW x \in cs \union {c}, (cs \union {c}) \ {x} # {}
               PROVE  JoinedFor(x, (cs \union {c}) \ {x}, rt, hd, st, sd)
    BY DEF Joined
  <1>1. CASE x = c
    <2>1. (cs \union {c}) \ {x} = cs
      BY <1>1
    <2> QED
      BY <1>1, <2>1
  <1>2. CASE x # c /\ cs = {x}
    <2>1. (cs \union {c}) \ {x} = {c}
      BY <1>2
    <2>2. JoinedFor(c, {x}, rt, hd, st, sd)
      BY <1>2
    <2>3. JoinedFor(x, {c}, rt, hd, st, sd)
      <3>1. CASE RootsIn(c, rt, hd) \intersect RootsIn(x, rt, hd) # {}
        BY <3>1 DEF JoinedFor
      <3>2. CASE sd[c] \intersect sd[x] # {} /\ Near(c, x, st)
        <4>1. Near(x, c, st)
          BY <3>2 DEF Near, Same
        <4>2. sd[x] \intersect sd[c] # {}
          BY <3>2
        <4> QED
          BY <4>1, <4>2 DEF JoinedFor
      <3> QED
        BY <2>2, <3>1, <3>2 DEF JoinedFor
    <2> QED
      BY <2>1, <2>3
  <1>3. CASE x # c /\ cs # {x}
    <2>1. x \in cs /\ cs \ {x} # {}
      BY <1>3
    <2>2. JoinedFor(x, cs \ {x}, rt, hd, st, sd)
      BY <2>1 DEF Joined
    <2>3. cs \ {x} \subseteq (cs \union {c}) \ {x}
      OBVIOUS
    <2> QED
      BY <2>2, <2>3 DEF JoinedFor
  <1> QED
    BY <1>1, <1>2, <1>3

\* A uuid is of one conversation.
LEMMA OneRoot ==
  ASSUME NEW rt, NEW hd, NEW st, NEW c, NEW d, NEW u, u # Null,
         OursIn(c, u, rt, hd, st), OursIn(d, u, rt, hd, st)
  PROVE  RootsIn(c, rt, hd) \intersect RootsIn(d, rt, hd) # {}
  <1>1. PICK x \in Csids, n \in Nat : u = <<x, n>> /\ rt[x] \in RootsIn(c, rt, hd)
    BY DEF OursIn
  <1>2. PICK y \in Csids, m \in Nat : u = <<y, m>> /\ rt[y] \in RootsIn(d, rt, hd)
    BY DEF OursIn
  <1>3. x = y
    BY <1>1, <1>2
  <1> QED
    BY <1>1, <1>2, <1>3

\* resolveIdentity binds an id to a session only if there is one.
LEMMA ReasonJoins ==
  ASSUME NEW rt, NEW hd, NEW st, NEW sd, NEW s \in Sids, sessions[s] \in Records,
         RecordOK(sessions[s], rt, hd, st, sd),
         NEW c \in Csids, NEW file, NEW meta, NEW prints, NEW start, NEW where,
         ObservationOK(c, file, meta, prints, start, where, rt, hd, st, sd),
         HasReason(s, c, meta, where, prints), c \notin sessions[s].csids
  PROVE  JoinedFor(c, sessions[s].csids, rt, hd, st, sd)
  <1> DEFINE r == sessions[s]
  <1>1. CASE \E f \in DOMAIN r.files : Same(r.files[f], meta.parent)
    <2>1. PICK f \in DOMAIN r.files : r.files[f] = meta.parent /\ meta.parent # Null
      BY <1>1 DEF Same
    <2>2. PICK d \in r.csids : OursIn(d, r.files[f], rt, hd, st)
      BY DEF RecordOK
    <2>3. OursIn(c, meta.parent, rt, hd, st)
      BY DEF ObservationOK
    <2>4. RootsIn(c, rt, hd) \intersect RootsIn(d, rt, hd) # {}
      BY <2>1, <2>2, <2>3, OneRoot
    <2> QED
      BY <2>4 DEF JoinedFor
  <1>2. CASE Same(r.lineage, prints.lineage)
    <2>1. r.lineage = prints.lineage /\ prints.lineage # Null
      BY <1>2 DEF Same
    <2>2. PICK d \in r.csids : OursIn(d, r.lineage[1], rt, hd, st)
      BY <2>1 DEF RecordOK
    <2>3. r.lineage[1] # Null /\ OursIn(c, r.lineage[1], rt, hd, st)
      BY <2>1 DEF ObservationOK
    <2>4. RootsIn(c, rt, hd) \intersect RootsIn(d, rt, hd) # {}
      BY <2>1, <2>2, <2>3, OneRoot
    <2> QED
      BY <2>4 DEF JoinedFor
  <1>3. CASE Same(r.human, prints.human) /\ Nearby(s, where)
    <2>1. \E d \in r.csids : sd[c] \intersect sd[d] # {}
      <3>1. r.human = prints.human /\ prints.human # Null
        BY <1>3 DEF Same
      <3>2. PICK d \in r.csids : r.human \in sd[d]
        BY <3>1 DEF RecordOK
      <3>3. prints.human \in sd[c]
        BY <3>1 DEF ObservationOK
      <3> QED
        BY <3>1, <3>2, <3>3
    <2>2. \E d \in r.csids : Near(c, d, st)
      <3>1. \A f \in {"cwd", "worktree"} :
              where[f] # Null => \E p \in st[c] : where[f] = p[f]
        BY DEF ObservationOK
      <3>2. CASE Same(r.cwd, where.cwd)
        <4>1. PICK d \in r.csids : \E p \in st[d] : r.cwd = p.cwd
          BY <3>2 DEF RecordOK, Same
        <4>2. PICK p \in st[d] : r.cwd = p.cwd
          BY <4>1
        <4>3. PICK q \in st[c] : q.cwd = p.cwd /\ p.cwd # Null
          BY <3>1, <3>2, <4>2 DEF Same
        <4> QED
          BY <4>3 DEF Near, Same
      <3>3. CASE Same(r.worktree, where.worktree)
        <4>1. PICK d \in r.csids : \E p \in st[d] : r.worktree = p.worktree
          BY <3>3 DEF RecordOK, Same
        <4>2. PICK p \in st[d] : r.worktree = p.worktree
          BY <4>1
        <4>3. PICK q \in st[c] : q.worktree = p.worktree /\ p.worktree # Null
          BY <3>1, <3>3, <4>2 DEF Same
        <4> QED
          BY <4>3 DEF Near, Same
      <3> QED
        BY <1>3, <3>2, <3>3 DEF Nearby
    <2> QED
      BY <2>1, <2>2 DEF JoinedFor
  <1> QED
    BY <1>1, <1>2, <1>3 DEF HasReason, Alike

\* What an observation adds to a record came from its id.
LEMMA ReducedOK ==
  ASSUME NEW rt, NEW hd, NEW st, NEW sd, NEW r \in Records, RecordOK(r, rt, hd, st, sd), now \in Nat,
         NEW c \in Csids, NEW file, NEW meta, NEW prints, NEW start, NEW where,
         ObservationOK(c, file, meta, prints, start, where, rt, hd, st, sd),
         NEW p, IsPayload(p), p.csid = c, p.file = file, p.last = meta.last,
         p.prints = prints, p.start = start,
         c \notin r.csids /\ r.csids # {} => JoinedFor(c, r.csids, rt, hd, st, sd)
  PROVE  RecordOK(ReduceSessionSeen(r, p), rt, hd, st, sd)
  <1> DEFINE t == ReduceSessionSeen(r, p)
  <1>1. /\ t.csids = r.csids \union {c}
        /\ t.files = IF file = Null THEN r.files ELSE WithFile(r.files, file, meta.last)
        /\ t.human = SetIfMissing(r.human, prints.human)
        /\ t.lineage = SetIfMissing(r.lineage, prints.lineage)
        /\ t.cwd = SetIfMissing(r.cwd, start.cwd)
        /\ t.worktree = SetIfPresent(r.worktree, start.worktree)
    BY ReduceIs
  <1> HIDE DEF t
  <1>2. r.csids \in SUBSET Csids /\ r.files \in FileTables
    BY DEF Records
  <1>3. \A d \in t.csids : st[d] # {}
    BY <1>1 DEF RecordOK, ObservationOK
  <1>4. \A f \in DOMAIN t.files : \E d \in t.csids : OursIn(d, t.files[f], rt, hd, st)
    <2>1. \A f \in DOMAIN r.files : \E d \in r.csids : OursIn(d, r.files[f], rt, hd, st)
      BY DEF RecordOK
    <2>2. CASE file = Null
      BY <1>1, <2>1, <2>2
    <2>3. CASE file # Null
      <3>1. OursIn(c, meta.last, rt, hd, st)
        BY DEF ObservationOK
      <3>2. t.files = WithFile(r.files, file, meta.last)
        BY <1>1, <2>3
      <3>3. \A f \in DOMAIN t.files :
              \/ t.files[f] = meta.last
              \/ f \in DOMAIN r.files /\ t.files[f] = r.files[f]
        BY <3>2 DEF WithFile
      <3> QED
        BY <1>1, <2>1, <3>1, <3>3
    <2> QED
      BY <2>2, <2>3
  <1>5. t.human # Null => \E d \in t.csids : t.human \in sd[d]
    <2>1. CASE r.human = Null
      BY <1>1, <2>1 DEF SetIfMissing, ObservationOK
    <2>2. CASE r.human # Null
      BY <1>1, <2>2 DEF SetIfMissing, RecordOK
    <2> QED
      BY <2>1, <2>2
  <1>6. t.lineage # Null =>
          t.lineage[1] # Null /\ \E d \in t.csids : OursIn(d, t.lineage[1], rt, hd, st)
    <2>1. CASE r.lineage = Null
      BY <1>1, <2>1 DEF SetIfMissing, ObservationOK
    <2>2. CASE r.lineage # Null
      BY <1>1, <2>2 DEF SetIfMissing, RecordOK
    <2> QED
      BY <2>1, <2>2
  <1>7. t.cwd # Null => \E d \in t.csids : \E q \in st[d] : t.cwd = q.cwd
    <2>1. CASE r.cwd = Null
      BY <1>1, <2>1 DEF SetIfMissing, ObservationOK
    <2>2. CASE r.cwd # Null
      BY <1>1, <2>2 DEF SetIfMissing, RecordOK
    <2> QED
      BY <2>1, <2>2
  <1>8. t.worktree # Null => \E d \in t.csids : \E q \in st[d] : t.worktree = q.worktree
    <2>1. CASE start.worktree = Null
      BY <1>1, <2>1 DEF SetIfPresent, RecordOK
    <2>2. CASE start.worktree # Null
      BY <1>1, <2>2 DEF SetIfPresent, ObservationOK
    <2> QED
      BY <2>1, <2>2
  <1>9. Joined(t.csids, rt, hd, st, sd)
    <2>1. Joined(r.csids, rt, hd, st, sd)
      BY DEF RecordOK
    <2>2. CASE c \in r.csids
      <3>1. t.csids = r.csids
        BY <1>1, <2>2
      <3> QED
        BY <2>1, <3>1
    <2>3. CASE c \notin r.csids
      BY <1>1, <1>2, <2>1, <2>3, OneJoins
    <2> QED
      BY <2>2, <2>3
  <1>10. RecordOK(t, rt, hd, st, sd)
    BY <1>3, <1>4, <1>5, <1>6, <1>7, <1>8, <1>9 DEF RecordOK
  <1> QED
    BY <1>10 DEF t

LEMMA NewRecordOK ==
  ASSUME NEW rt, NEW hd, NEW st, NEW sd
  PROVE  RecordOK(EmptySession, rt, hd, st, sd)
  BY DEF EmptySession, RecordOK, Joined

LEMMA ObservedOK ==
  ASSUME sessions \in Seq(Records), now \in Nat, NEW rt, NEW hd, NEW st, NEW sd,
         \A s \in Sids : RecordOK(sessions[s], rt, hd, st, sd),
         NEW c \in Csids, NEW file, NEW meta, NEW prints, NEW start, NEW where,
         Observes(c, file, meta, prints, start, where),
         ObservationOK(c, file, meta, prints, start, where, rt, hd, st, sd)
  PROVE  \A s \in DOMAIN sessions' : RecordOK(sessions'[s], rt, hd, st, sd)
  <1> DEFINE p == Payload(c, file, meta, prints, start, where)
             sid == p.hints.sid
             old == RecordOrNew(sid)
  <1>1. Effect(p)
    BY RecordIs DEF Observes
  <1>2. sid \in Sids => HasReason(sid, c, meta, where, prints)
    BY ResolveIs DEF Payload
  <1>3. /\ p.csid = c /\ p.file = file /\ p.last = meta.last
        /\ p.prints = prints /\ p.start = start
    BY DEF Payload
  <1> HIDE DEF p
  <1>4. /\ IsPayload(p) /\ old \in Records
        /\ DOMAIN sessions' = Sids \union {sid}
        /\ sessions'[sid] = ReduceSessionSeen(old, p)
        /\ \A s \in Sids \ {sid} : sessions'[s] = sessions[s]
    BY <1>1 DEF Effect
  <1>5. /\ RecordOK(old, rt, hd, st, sd)
        /\ c \notin old.csids /\ old.csids # {} => JoinedFor(c, old.csids, rt, hd, st, sd)
    <2>1. CASE sid \in Sids
      <3>1. old = sessions[sid] /\ sessions[sid] \in Records
        BY <1>4, <2>1 DEF RecordOrNew
      <3> QED
        BY <1>2, <2>1, <3>1, ReasonJoins
    <2>2. CASE sid \notin Sids
      <3>1. old = EmptySession
        BY <2>2 DEF RecordOrNew
      <3>2. EmptySession.csids = {}
        BY DEF EmptySession
      <3> QED
        BY <3>1, <3>2, NewRecordOK
    <2> QED
      BY <2>1, <2>2
  <1> HIDE DEF old
  <1>6. RecordOK(ReduceSessionSeen(old, p), rt, hd, st, sd)
    BY <1>3, <1>4, <1>5, ReducedOK
  <1> QED
    BY <1>4, <1>6

-----------------------------------------------------------------------------
\* The steps keep the invariant.

LEMMA NoTranscript ==
  ASSUME NEW c, NEW rt, NEW hd, NEW st, NEW sd
  PROVE  OwnTranscript(NoFile, c, rt, st, sd) /\ TranscriptOK(NoFile, c, rt, hd, st, sd)
  BY DEF OwnTranscript, TranscriptOK, NoFile, OwnIn, OursIn

LEMMA InvInit == Init => IdentityInv
  <1> SUFFICES ASSUME Init
               PROVE  IdentityInv
    OBVIOUS
  <1>1. TypeOK
    BY TypeInit
  <1>2. Sids = {}
    BY DEF Init, Sids
  <1>3. \A c \in Csids : /\ stood[c] = {} /\ place[c] = Null /\ hook[c] = Null
                         /\ transcripts[c] = NoFile
    BY DEF Init
  <1>4. \A c : OwnTranscript(NoFile, c, root, stood, said)
    BY NoTranscript
  <1> QED
    BY <1>1, <1>2, <1>3, <1>4 DEF IdentityInv, IdOK

LEMMA TranscriptGrows ==
  ASSUME NEW rt, NEW hd, NEW st, NEW sd, NEW rt2, NEW hd2, NEW st2, NEW sd2,
         Grows(rt, hd, st, sd, rt2, hd2, st2, sd2),
         NEW c \in Csids, st[c] # {}, NEW t, TranscriptOK(t, c, rt, hd, st, sd)
  PROVE  TranscriptOK(t, c, rt2, hd2, st2, sd2)
  <1>1. /\ OursIn(c, t.first, rt2, hd2, st2) /\ OursIn(c, t.parent, rt2, hd2, st2)
        /\ OursIn(c, t.last, rt2, hd2, st2)
    <2>1. /\ OursIn(c, t.first, rt, hd, st) /\ OursIn(c, t.parent, rt, hd, st)
          /\ OursIn(c, t.last, rt, hd, st)
      BY DEF TranscriptOK
    <2>2. \A u : OursIn(c, u, rt, hd, st) => OursIn(c, u, rt2, hd2, st2)
      BY OursGrows
    <2> QED
      BY <2>1, <2>2
  <1>2. t.prompt # Null => t.prompt \in sd2[c]
    BY DEF TranscriptOK, Grows
  <1> QED
    BY <1>1, <1>2 DEF TranscriptOK

LEMMA OwnGrows ==
  ASSUME NEW rt, NEW hd, NEW st, NEW sd, NEW rt2, NEW hd2, NEW st2, NEW sd2,
         Grows(rt, hd, st, sd, rt2, hd2, st2, sd2),
         NEW c \in Csids, st[c] # {}, NEW t, OwnTranscript(t, c, rt, st, sd)
  PROVE  OwnTranscript(t, c, rt2, st2, sd2)
  <1>1. \A u : OwnIn(c, u, rt, st) => OwnIn(c, u, rt2, st2)
    BY DEF Grows, OwnIn
  <1>2. t.prompt # Null => t.prompt \in sd2[c]
    BY DEF OwnTranscript, Grows
  <1> QED
    BY <1>1, <1>2 DEF OwnTranscript

\* The transcript of d, read by a hook of c, which is d or was handed it.
LEMMA OwnIsRead ==
  ASSUME NEW rt, NEW hd, NEW st, NEW sd, NEW c, NEW d, NEW t,
         OwnTranscript(t, d, rt, st, sd), rt[d] \in RootsIn(c, rt, hd),
         t.prompt # Null => t.prompt \in sd[c]
  PROVE  TranscriptOK(t, c, rt, hd, st, sd)
  <1>1. \A u : OwnIn(d, u, rt, st) => OursIn(c, u, rt, hd, st)
    BY DEF OwnIn, OursIn
  <1> QED
    BY <1>1 DEF OwnTranscript, TranscriptOK

\* An id that does not run has left nothing; one that does has its own.
LEMMA RunningIs ==
  ASSUME IdentityInv, NEW c \in Csids
  PROVE  /\ Running(c) <=> stood[c] # {}
         /\ Running(c) => place[c] \in stood[c] /\ place[c] \in Places
         /\ OnDisk(c) => stood[c] # {}
         /\ hook[c] # Null => stood[c] # {}
  <1>1. stood[c] \in SUBSET Places
    BY DEF IdentityInv, TypeOK
  <1>2. /\ IF stood[c] = {} THEN place[c] = Null ELSE place[c] \in stood[c]
        /\ stood[c] = {} => transcripts[c] = NoFile
        /\ hook[c] # Null => hook[c].where \in stood[c]
    BY DEF IdentityInv, IdOK
  <1>3. NoFile.size = 0
    BY DEF NoFile
  <1> QED
    BY <1>1, <1>2, <1>3, NullIsNoPlace DEF Running, OnDisk

\* Growth keeps what holds of the ids and the records that a step does not touch.
LEMMA UntouchedId ==
  ASSUME IdentityInv, Grows(root, handed, stood, said, root', handed', stood', said'),
         NEW d \in Csids, place'[d] = place[d], stood'[d] = stood[d],
         transcripts'[d] = transcripts[d], hook'[d] = hook[d]
  PROVE  IdOK(d)'
  <1>1. IdOK(d)
    BY DEF IdentityInv
  <1>2. CASE stood[d] = {}
    BY <1>1, <1>2, NoTranscript DEF IdOK
  <1>3. CASE stood[d] # {}
    <2>1. OwnTranscript(transcripts[d], d, root', stood', said')
      BY <1>1, <1>3, OwnGrows DEF IdOK
    <2>2. hook[d] # Null => TranscriptOK(hook[d].meta, d, root', handed', stood', said')
      BY <1>1, <1>3, TranscriptGrows DEF IdOK
    <2> QED
      BY <1>1, <1>3, <2>1, <2>2 DEF IdOK
  <1> QED
    BY <1>2, <1>3

LEMMA RecordsGrow ==
  ASSUME IdentityInv, Grows(root, handed, stood, said, root', handed', stood', said')
  PROVE  \A s \in Sids : RecordOK(sessions[s], root', handed', stood', said')
  <1> SUFFICES ASSUME NEW s \in Sids
               PROVE  RecordOK(sessions[s], root', handed', stood', said')
    OBVIOUS
  <1>1. sessions[s] \in Records /\ RecordOK(sessions[s], root, handed, stood, said)
    BY DEF IdentityInv, TypeOK, Sids
  <1> QED
    BY <1>1, RecordGrows

LEMMA StartedKeeps ==
  ASSUME IdentityInv, TypeOK', NEW c \in Csids, NEW p \in Places, NEW file, NEW origin \in Csids,
         Started(c, p, file, origin),
         OwnTranscript(file, c, root', stood', said')
  PROVE  IdentityInv'
  <1>1. stood[c] = {} /\ hook[c] = Null /\ sessions' = sessions /\ hook' = hook
    BY RunningIs DEF Started
  <1>2. /\ place' = [place EXCEPT ![c] = p]
        /\ transcripts' = [transcripts EXCEPT ![c] = file]
        /\ root' = [root EXCEPT ![c] = root[origin]]
        /\ stood' = [stood EXCEPT ![c] = {p}]
        /\ said' = [said EXCEPT ![c] = IF file.prompt = Null THEN {} ELSE {file.prompt}]
        /\ handed' = handed
    BY DEF Started
  <1>3. /\ DOMAIN place = Csids /\ DOMAIN transcripts = Csids /\ DOMAIN root = Csids
        /\ DOMAIN stood = Csids /\ DOMAIN said = Csids
    BY DEF IdentityInv, TypeOK
  <1>4. Grows(root, handed, stood, said, root', handed', stood', said')
    BY <1>1, <1>2, <1>3 DEF Grows
  <1>5. ASSUME NEW d \in Csids, d # c
        PROVE  IdOK(d)'
    <2>1. /\ place'[d] = place[d] /\ stood'[d] = stood[d]
          /\ transcripts'[d] = transcripts[d] /\ hook'[d] = hook[d]
      BY <1>1, <1>2, <1>3, <1>5
    <2> QED
      BY <1>4, <2>1, UntouchedId
  <1>6. IdOK(c)'
    <2>1. place'[c] = p /\ stood'[c] = {p} /\ transcripts'[c] = file /\ hook'[c] = Null
      BY <1>1, <1>2, <1>3
    <2> QED
      BY <2>1 DEF IdOK
  <1>7. \A s \in Sids' : RecordOK(sessions'[s], root', handed', stood', said')
    BY <1>1, <1>4, RecordsGrow DEF Sids
  <1> QED
    BY <1>5, <1>6, <1>7 DEF IdentityInv

LEMMA MoveKeeps ==
  ASSUME IdentityInv, TypeOK', NEW c \in Csids, NEW p \in Places, Move(c, p)
  PROVE  IdentityInv'
  <1>1. /\ place' = [place EXCEPT ![c] = p] /\ stood' = [stood EXCEPT ![c] = @ \union {p}]
        /\ hook[c] = Null /\ place[c] # Null
        /\ transcripts' = transcripts /\ sessions' = sessions /\ hook' = hook
        /\ root' = root /\ handed' = handed /\ said' = said
    BY DEF Move, Running
  <1>2. DOMAIN place = Csids /\ DOMAIN stood = Csids
    BY DEF IdentityInv, TypeOK
  <1>3. Grows(root, handed, stood, said, root', handed', stood', said')
    BY <1>1, <1>2 DEF Grows
  <1>4. ASSUME NEW d \in Csids, d # c
        PROVE  IdOK(d)'
    <2>1. /\ place'[d] = place[d] /\ stood'[d] = stood[d]
          /\ transcripts'[d] = transcripts[d] /\ hook'[d] = hook[d]
      BY <1>1, <1>2, <1>4
    <2> QED
      BY <1>3, <2>1, UntouchedId
  <1>5. IdOK(c)'
    <2>1. place'[c] = p /\ stood'[c] = stood[c] \union {p} /\ hook'[c] = Null
      BY <1>1, <1>2
    <2>2. stood[c] # {} /\ OwnTranscript(transcripts[c], c, root, stood, said)
      BY <1>1 DEF IdentityInv, IdOK
    <2>3. OwnTranscript(transcripts[c], c, root', stood', said')
      BY <1>3, <2>2, OwnGrows
    <2> QED
      BY <1>1, <2>1, <2>3 DEF IdOK
  <1>6. \A s \in Sids' : RecordOK(sessions'[s], root', handed', stood', said')
    BY <1>1, <1>3, RecordsGrow DEF Sids
  <1> QED
    BY <1>4, <1>5, <1>6 DEF IdentityInv

\* A turn: what it adds to the transcript is of its id.
LEMMA TurnKeeps ==
  ASSUME IdentityInv, NEW c \in Csids, NEW prompt \in Texts, Turn(c, prompt)
  PROVE  /\ Grows(root, handed, stood, said, root', handed', stood', said')
         /\ \A d \in Csids : IdOK(d)'
         /\ prompt # Null => prompt \in said'[c]
         /\ stood' = stood /\ place' = place
         /\ stood[c] # {} /\ place[c] \in stood[c] /\ place[c] \in Places
  <1>1. /\ stood[c] # {} /\ place[c] \in stood[c] /\ place[c] \in Places
    BY RunningIs DEF Turn
  <1> DEFINE t == transcripts[c]
             u == WithTurn(t, c, prompt)
  <1>2. /\ transcripts' = [transcripts EXCEPT ![c] = u]
        /\ said' = [said EXCEPT ![c] = @ \union ({prompt} \ {Null})]
        /\ place' = place /\ hook' = hook /\ root' = root /\ handed' = handed
        /\ stood' = stood
    BY DEF Turn
  <1>3. DOMAIN transcripts = Csids /\ DOMAIN said = Csids /\ t \in Transcripts
    BY DEF IdentityInv, TypeOK
  <1>4. Grows(root, handed, stood, said, root', handed', stood', said')
    BY <1>2, <1>3 DEF Grows
  <1>5. /\ u.first \in {t.first, <<c, t.size + 1>>} /\ u.last = <<c, t.size + 1>>
        /\ u.parent = t.parent /\ u.prompt \in {t.prompt, prompt}
    BY <1>1, <1>3, TurnIs
  <1>6. t.size + 1 \in Nat
    BY <1>3 DEF Transcripts
  <1> HIDE DEF u
  <1>7. prompt # Null => prompt \in said'[c]
    BY <1>2, <1>3
  <1>8. ASSUME NEW d \in Csids, d # c
        PROVE  IdOK(d)'
    <2>1. /\ place'[d] = place[d] /\ stood'[d] = stood[d]
          /\ transcripts'[d] = transcripts[d] /\ hook'[d] = hook[d]
      BY <1>2, <1>3, <1>8
    <2> QED
      BY <1>4, <2>1, UntouchedId
  <1>9. IdOK(c)'
    <2>1. IdOK(c)
      BY DEF IdentityInv
    <2>2. OwnTranscript(t, c, root', stood', said')
      BY <1>1, <1>4, <2>1, OwnGrows DEF IdOK
    <2>3. OwnIn(c, <<c, t.size + 1>>, root', stood')
      BY <1>1, <1>2, <1>6 DEF OwnIn
    <2>4. OwnTranscript(u, c, root', stood', said')
      BY <1>5, <1>7, <2>2, <2>3 DEF OwnTranscript
    <2>5. hook[c] # Null => TranscriptOK(hook[c].meta, c, root', handed', stood', said')
      BY <1>1, <1>4, <2>1, TranscriptGrows DEF IdOK
    <2>6. transcripts'[c] = u
      BY <1>2, <1>3
    <2> QED
      BY <1>1, <1>2, <2>1, <2>4, <2>5, <2>6 DEF IdOK
  <1> QED
    BY <1>1, <1>2, <1>4, <1>7, <1>8, <1>9

LEMMA StartHookReadsKeeps ==
  ASSUME IdentityInv, TypeOK', NEW c \in Csids, NEW explicit \in Csids \union {Null},
         StartHookReads(c, explicit)
  PROVE  IdentityInv'
  <1> DEFINE file == LocateTranscript(c, explicit)
             h == [file |-> file, meta |-> ParseTranscriptFile(file), where |-> place[c]]
             d == IF explicit = Null THEN c ELSE explicit
  <1>1. /\ hook' = [hook EXCEPT ![c] = h] /\ Running(c)
        /\ place' = place /\ transcripts' = transcripts /\ sessions' = sessions
        /\ root' = root /\ stood' = stood
        /\ explicit = Null => handed' = handed /\ said' = said
        /\ explicit # Null =>
             /\ handed' = [handed EXCEPT ![c] = @ \union {root[explicit]}]
             /\ said' = [said EXCEPT ![c] = @ \union ({transcripts[explicit].prompt} \ {Null})]
             /\ OnDisk(explicit)
    BY DEF StartHookReads
  <1>2. DOMAIN hook = Csids /\ DOMAIN handed = Csids /\ DOMAIN said = Csids
    BY DEF IdentityInv, TypeOK
  <1>3. Grows(root, handed, stood, said, root', handed', stood', said')
    BY <1>1, <1>2 DEF Grows
  <1>4. ASSUME NEW x \in Csids, x # c
        PROVE  IdOK(x)'
    <2>1. /\ place'[x] = place[x] /\ stood'[x] = stood[x]
          /\ transcripts'[x] = transcripts[x] /\ hook'[x] = hook[x]
      BY <1>1, <1>2, <1>4
    <2> QED
      BY <1>3, <2>1, UntouchedId
  <1>5. IdOK(c)'
    <2>1. IdOK(c) /\ place[c] \in stood[c] /\ stood[c] # {}
      BY <1>1, RunningIs DEF IdentityInv
    <2>2. d \in Csids /\ stood[d] # {} /\ OwnTranscript(transcripts[d], d, root, stood, said)
      BY <1>1, RunningIs DEF IdentityInv, IdOK
    <2>3. h.meta \in {transcripts[d], NoFile} /\ h.where = place[c]
      BY ParseType DEF IdentityInv, TypeOK
    <2> HIDE DEF h
    <2>4. OwnTranscript(transcripts[d], d, root', stood', said')
      BY <1>3, <2>2, OwnGrows
    <2>5. root'[d] \in RootsIn(c, root', handed')
      BY <1>1, <1>2 DEF RootsIn
    <2>6. transcripts[d].prompt # Null => transcripts[d].prompt \in said'[c]
      BY <1>1, <1>2, <2>2, <2>4 DEF OwnTranscript
    <2>7. TranscriptOK(transcripts[d], c, root', handed', stood', said')
      BY <2>4, <2>5, <2>6, OwnIsRead
    <2>8. TranscriptOK(h.meta, c, root', handed', stood', said')
      BY <2>3, <2>7, NoTranscript
    <2>9. OwnTranscript(transcripts[c], c, root', stood', said')
      BY <1>3, <2>1, OwnGrows DEF IdOK
    <2>10. hook'[c] = h
      BY <1>1, <1>2
    <2> QED
      BY <1>1, <2>1, <2>3, <2>8, <2>9, <2>10 DEF IdOK
  <1>6. \A s \in Sids' : RecordOK(sessions'[s], root', handed', stood', said')
    BY <1>1, <1>3, RecordsGrow DEF Sids
  <1> QED
    BY <1>4, <1>5, <1>6 DEF IdentityInv

\* The hook is done with, recorded or not.
LEMMA HookDone ==
  ASSUME IdentityInv, NEW c \in Csids, hook' = [hook EXCEPT ![c] = Null],
         UNCHANGED <<place, transcripts, truth>>
  PROVE  \A d \in Csids : IdOK(d)'
  <1>1. root' = root /\ handed' = handed /\ stood' = stood /\ said' = said
    BY DEF truth
  <1>2. DOMAIN hook = Csids
    BY DEF IdentityInv, TypeOK
  <1> SUFFICES ASSUME NEW d \in Csids
               PROVE  IdOK(d)'
    OBVIOUS
  <1>3. IdOK(d) /\ hook'[d] \in {hook[d], Null}
    BY <1>2 DEF IdentityInv
  <1> QED
    BY <1>1, <1>3 DEF IdOK

LEMMA StartHookRecordsKeeps ==
  ASSUME IdentityInv, TypeOK', NEW c \in Csids, StartHookRecords(c)
  PROVE  IdentityInv'
  <1> DEFINE h == hook[c]
             prints == Fingerprints(h.meta)
  <1>1. /\ root' = root /\ handed' = handed /\ stood' = stood /\ said' = said
        /\ \A d \in Csids : IdOK(d)'
    BY HookDone DEF StartHookRecords, truth
  <1>2. Observes(c, h.file, h.meta, prints, h.where, h.where)
    BY StartHookObserves DEF IdentityInv
  <1>3. ObservationOK(c, h.file, h.meta, prints, h.where, h.where, root, handed, stood, said)
    <2>1. /\ h.where \in stood[c]
          /\ TranscriptOK(h.meta, c, root, handed, stood, said)
      BY DEF IdentityInv, IdOK, StartHookRecords
    <2>2. /\ prints.human = h.meta.prompt
          /\ prints.lineage = IF h.meta.first = Null THEN Null
                              ELSE <<h.meta.first, h.meta.parent>>
      BY DEF Fingerprints
    <2>3. prints.lineage # Null => h.meta.first # Null /\ prints.lineage[1] = h.meta.first
      BY <2>2
    <2> HIDE DEF h, prints
    <2> QED
      BY <2>1, <2>2, <2>3 DEF ObservationOK, TranscriptOK
  <1>4. /\ sessions \in Seq(Records) /\ now \in Nat
        /\ \A s \in Sids : RecordOK(sessions[s], root, handed, stood, said)
    BY DEF IdentityInv, TypeOK
  <1> HIDE DEF h, prints
  <1>5. \A s \in DOMAIN sessions' : RecordOK(sessions'[s], root, handed, stood, said)
    BY <1>2, <1>3, <1>4, ObservedOK
  <1> QED
    BY <1>1, <1>5 DEF IdentityInv, Sids

LEMMA HeartbeatOK ==
  ASSUME TypeOK, NEW rt, NEW hd, NEW st, NEW sd, \A s \in Sids : RecordOK(sessions[s], rt, hd, st, sd),
         NEW c \in Csids, place[c] \in Places, place[c] \in st[c],
         FindByClaudeSessionId(c) # {}, Heartbeat(c)
  PROVE  \A s \in DOMAIN sessions' : RecordOK(sessions'[s], rt, hd, st, sd)
  <1>1. PICK s \in Sids :
          /\ c \in sessions[s].csids
          /\ sessions' \in Seq(Records) /\ DOMAIN sessions' = Sids
          /\ sessions'[s].csids = sessions[s].csids
          /\ sessions'[s].files = sessions[s].files
          /\ sessions'[s].human = sessions[s].human
          /\ sessions'[s].lineage = sessions[s].lineage
          /\ sessions'[s].worktree = sessions[s].worktree
          /\ sessions'[s].cwd = SetIfMissing(sessions[s].cwd, place[c].cwd)
          /\ \A t \in Sids \ {s} : sessions'[t] = sessions[t]
    BY HeartbeatIs
  <1>2. RecordOK(sessions[s], rt, hd, st, sd)
    OBVIOUS
  <1> DEFINE r == sessions[s]
             t == sessions'[s]
  <1>3. /\ c \in r.csids /\ t.csids = r.csids /\ t.files = r.files /\ t.human = r.human
        /\ t.lineage = r.lineage /\ t.worktree = r.worktree
        /\ t.cwd = SetIfMissing(r.cwd, place[c].cwd)
    BY <1>1
  <1> HIDE DEF r, t
  <1>4. t.cwd # Null => \E d \in t.csids : \E p \in st[d] : t.cwd = p.cwd
    <2>1. CASE r.cwd = Null
      BY <1>3, <2>1 DEF SetIfMissing
    <2>2. CASE r.cwd # Null
      BY <1>2, <1>3, <2>2 DEF SetIfMissing, RecordOK, r
    <2> QED
      BY <2>1, <2>2
  <1>5. RecordOK(t, rt, hd, st, sd)
    BY <1>2, <1>3, <1>4 DEF RecordOK, r
  <1> QED
    BY <1>1, <1>5 DEF t

LEMMA PromptTurnKeeps ==
  ASSUME IdentityInv, TypeOK', NEW c \in Csids, NEW prompt \in Prompts,
         NEW staged \in stood[c] \union {Null}, PromptTurn(c, prompt, staged)
  PROVE  IdentityInv'
  <1>1. Turn(c, prompt) /\ prompt \in Texts
    BY DEF PromptTurn, Texts
  <1>2. /\ Grows(root, handed, stood, said, root', handed', stood', said')
        /\ \A d \in Csids : IdOK(d)'
        /\ prompt # Null => prompt \in said'[c]
        /\ stood' = stood /\ place' = place
        /\ stood[c] # {} /\ place[c] \in stood[c] /\ place[c] \in Places
    BY <1>1, TurnKeeps
  <1>3. \A s \in Sids : RecordOK(sessions[s], root', handed', stood', said')
    BY <1>2, RecordsGrow
  <1>4. TypeOK /\ sessions \in Seq(Records) /\ now \in Nat
    BY DEF IdentityInv, TypeOK
  <1>5. CASE RecordFirstPrompt(c, prompt, staged)
    <2> DEFINE prints == [human |-> prompt, lineage |-> Null]
               start == StartPlace(c, staged)
    <2>1. Observes(c, Null, NoFile, prints, start, PromptPlace(c))
      BY <1>1, <1>4, <1>5, PromptObserves DEF Turn
    <2>2. /\ start.cwd # Null => \E p \in stood'[c] : start.cwd = p.cwd
          /\ start.worktree # Null => \E p \in stood'[c] : start.worktree = p.worktree
          /\ PromptPlace(c).cwd = place[c].cwd /\ PromptPlace(c).worktree = Null
      <3>1. staged \in Places \union {Null}
        BY <1>4 DEF TypeOK
      <3>2. /\ \E at \in Places \intersect {place[c], staged} :
                 start.cwd = at.cwd /\ start.worktree \in {at.worktree, Null}
            /\ PromptPlace(c).cwd = place[c].cwd /\ PromptPlace(c).worktree = Null
        BY <1>2, <3>1, StartPlaceIs
      <3>3. Null \notin Places
        BY NullIsNoPlace
      <3> HIDE DEF start
      <3> QED
        BY <1>2, <3>2, <3>3
    <2>3. prints.human = prompt /\ prints.lineage = Null
      OBVIOUS
    <2>4. OursIn(c, NoFile.parent, root', handed', stood') /\ OursIn(c, NoFile.last, root', handed', stood')
      BY DEF OursIn, NoFile
    <2> DEFINE where == PromptPlace(c)
    <2>5. \A f \in {"cwd", "worktree"} : where[f] # Null => \E p \in stood'[c] : where[f] = p[f]
      BY <1>2, <2>2
    <2> HIDE DEF prints, start, where
    <2>6. ObservationOK(c, Null, NoFile, prints, start, where, root', handed', stood', said')
      BY <1>2, <2>2, <2>3, <2>4, <2>5 DEF ObservationOK
    <2>7. \A s \in DOMAIN sessions' : RecordOK(sessions'[s], root', handed', stood', said')
      BY <1>3, <1>4, <2>1, <2>6, ObservedOK DEF where
    <2> QED
      BY <1>2, <2>7 DEF IdentityInv, Sids
  <1>6. CASE FindByClaudeSessionId(c) # {} /\ Heartbeat(c)
    <2>1. \A s \in DOMAIN sessions' : RecordOK(sessions'[s], root', handed', stood', said')
      BY <1>2, <1>3, <1>4, <1>6, HeartbeatOK
    <2> QED
      BY <1>2, <2>1 DEF IdentityInv, Sids
  <1> QED
    BY <1>5, <1>6 DEF PromptTurn

LEMMA ConversationKeeps ==
  ASSUME IdentityInv, TypeOK', NEW c \in Csids, Conversation(c)
  PROVE  IdentityInv'
  <1>1. ASSUME NEW p \in Places, Begin(c, p)
        PROVE  IdentityInv'
    BY <1>1, NoTranscript, StartedKeeps DEF Begin
  <1>2. ASSUME NEW p \in Places, NEW d \in Csids \ {c}, Fork(c, d, p)
        PROVE  IdentityInv'
    <2> DEFINE file == [NoFile EXCEPT !.first = <<c, 1>>, !.last = <<c, 1>>,
                                      !.parent = transcripts[d].last,
                                      !.folder = Folder[p.cwd], !.size = 1]
    <2>1. Started(c, p, file, d) /\ stood[d] # {} /\ ~Running(c)
      BY <1>2, RunningIs DEF Fork, Started
    <2>2. /\ root'[c] = root[d] /\ stood'[c] = {p} /\ stood[c] = {}
          /\ root'[d] = root[d] /\ stood'[d] = stood[d]
          /\ \A x \in Csids : stood[x] # {} => root'[x] = root[x] /\ stood'[x] = stood[x]
      BY <2>1, RunningIs DEF Started, IdentityInv, TypeOK
    <2>3. file.first = <<c, 1>> /\ file.last = <<c, 1>> /\ file.parent = transcripts[d].last
          /\ file.prompt = Null
      BY DEF NoFile
    <2>4. OwnIn(c, <<c, 1>>, root', stood')
      BY <2>2 DEF OwnIn
    <2>5. OwnIn(d, transcripts[d].last, root, stood)
      BY DEF IdentityInv, IdOK, OwnTranscript
    <2>6. OwnIn(c, transcripts[d].last, root', stood')
      BY <2>2, <2>5 DEF OwnIn
    <2> HIDE DEF file
    <2>7. OwnTranscript(file, c, root', stood', said')
      BY <2>3, <2>4, <2>6 DEF OwnTranscript
    <2> QED
      BY <2>1, <2>7, StartedKeeps
  <1>3. ASSUME NEW p \in Places, NEW d \in Csids \ {c}, Copy(c, d, p)
        PROVE  IdentityInv'
    <2> DEFINE t == transcripts[d]
               file == [t EXCEPT !.folder = Folder[p.cwd]]
    <2>1. Started(c, p, file, d) /\ stood[d] # {} /\ ~Running(c)
      BY <1>3, RunningIs DEF Copy, Started
    <2>2. t \in Transcripts /\ OwnTranscript(t, d, root, stood, said)
      BY DEF IdentityInv, IdOK, TypeOK
    <2>3. /\ file.first = t.first /\ file.last = t.last /\ file.parent = t.parent
          /\ file.prompt = t.prompt
      BY <2>2 DEF Transcripts
    <2> HIDE DEF file, t
    <2>4. /\ root'[c] = root[d]
          /\ \A x \in Csids : stood[x] # {} => root'[x] = root[x] /\ stood'[x] = stood[x]
          /\ said'[c] = IF file.prompt = Null THEN {} ELSE {file.prompt}
      BY <2>1, RunningIs DEF Started, IdentityInv, TypeOK
    <2>5. \A u : OwnIn(d, u, root, stood) => OwnIn(c, u, root', stood')
      BY <2>1, <2>4 DEF OwnIn
    <2>6. OwnTranscript(file, c, root', stood', said')
      BY <2>2, <2>3, <2>4, <2>5 DEF OwnTranscript
    <2> QED
      BY <2>1, <2>6, StartedKeeps
  <1>4. ASSUME NEW p \in Places, Move(c, p)
        PROVE  IdentityInv'
    BY <1>4, MoveKeeps
  <1>5. ASSUME NEW prompt \in Texts, TurnUnseen(c, prompt)
        PROVE  IdentityInv'
    <2>1. Turn(c, prompt) /\ sessions' = sessions
      BY <1>5 DEF TurnUnseen
    <2>2. Grows(root, handed, stood, said, root', handed', stood', said') /\ \A d \in Csids : IdOK(d)'
      BY <2>1, TurnKeeps
    <2>3. \A s \in Sids' : RecordOK(sessions'[s], root', handed', stood', said')
      BY <2>1, <2>2, RecordsGrow DEF Sids
    <2> QED
      BY <2>2, <2>3 DEF IdentityInv
  <1> QED
    BY <1>1, <1>2, <1>3, <1>4, <1>5 DEF Conversation, Texts

LEMMA InvStep == IdentityInv /\ [Next]_vars => IdentityInv'
  <1> SUFFICES ASSUME IdentityInv, [Next]_vars
               PROVE  IdentityInv'
    OBVIOUS
  <1>1. TypeOK'
    BY TypeStep DEF IdentityInv
  <1>2. ASSUME UNCHANGED <<place, transcripts, sessions, hook, root, handed, stood, said>>
        PROVE  IdentityInv'
    BY <1>1, <1>2 DEF IdentityInv, IdOK, Sids
  <1>3. CASE Tick \/ UNCHANGED vars
    BY <1>2, <1>3 DEF Tick, vars, truth
  <1>4. ASSUME NEW c \in Csids, Conversation(c)
        PROVE  IdentityInv'
    BY <1>1, <1>4, ConversationKeeps
  <1>5. ASSUME NEW c \in Csids, StartHookEnds(c)
        PROVE  IdentityInv'
    <2>1. /\ sessions' = sessions /\ root' = root /\ handed' = handed /\ stood' = stood
          /\ said' = said /\ \A d \in Csids : IdOK(d)'
      BY <1>5, HookDone DEF StartHookEnds, truth
    <2> QED
      BY <1>1, <2>1 DEF IdentityInv, Sids
  <1>6. ASSUME NEW c \in Csids, Hook(c)
        PROVE  IdentityInv'
    BY <1>1, <1>5, <1>6, StartHookReadsKeeps, StartHookRecordsKeeps, PromptTurnKeeps
       DEF Hook
  <1> QED
    BY <1>3, <1>4, <1>6 DEF Next

\* What the records hold came from their ids, and what is on disk or in the
\* hands of a hook from the id it is about.
THEOREM IdentityInvariant == Spec => []IdentityInv
  BY InvInit, InvStep, PTL DEF Spec

\* A session holds two ids only if each of them continues another's
\* conversation, or was handed a transcript of it, or started like one of the others and ran where one of the
\* others ran (resolveIdentity, meetsThreshold), whatever the thresholds and
\* the caps are and however the fields of the record came together.
THEOREM IdentityNeedsEvidence == Spec => []WeakEvidenceNeverJoins
  <1>1. IdentityInv => WeakEvidenceNeverJoins
    <2> SUFFICES ASSUME IdentityInv, NEW s \in Sids, NEW c \in sessions[s].csids,
                        sessions[s].csids \ {c} # {}
                 PROVE  LET others == sessions[s].csids \ {c} IN
                        \/ \E d \in others : Kin(c, d)
                        \/ /\ \E d \in others : said[c] \intersect said[d] # {}
                           /\ \E d \in others : SamePlace(c, d)
      BY DEF WeakEvidenceNeverJoins
    <2>1. JoinedFor(c, sessions[s].csids \ {c}, root, handed, stood, said)
      BY DEF IdentityInv, RecordOK, Joined
    <2> QED
      BY <2>1 DEF JoinedFor, RootsIn, Near, Roots, Kin, SamePlace
  <1> QED
    BY <1>1, IdentityInvariant, PTL
=============================================================================
