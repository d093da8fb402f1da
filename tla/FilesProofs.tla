----------------------------- MODULE FilesProofs -----------------------------
(***************************************************************************)
(* Theorems about Files, as part of Watch: for any initial logs and caches,*)
(* any events, and any number of writes, torn lines, rotations, losses,    *)
(* initialisations and rebuilds.                                           *)
(***************************************************************************)
EXTENDS Watch, SequenceTheorems, TLAPS

-----------------------------------------------------------------------------
(* The watch does not touch the files.                                     *)

LEMMA WatchLeavesFiles == [Next]_vars => [FileNext]_fileVars
  <1> SUFFICES ASSUME [Next]_vars
               PROVE  [FileNext]_fileVars
    OBVIOUS
  <1>1. FileStep => FileNext
    BY DEF FileStep
  <1>2. StartWatching \/ TakeBaseline \/ PollAttaches \/ PollReads \/ WatcherFails
          \/ Fire \/ Dispose => UNCHANGED fileVars
    BY DEF StartWatching, TakeBaseline, PollAttaches, PollReads, WatcherFails, Fire, Dispose
  <1>3. ASSUME NEW signal \in {"change", "rename"}, Deliver(signal)
        PROVE  UNCHANGED fileVars
    BY <1>3 DEF Deliver
  <1>4. UNCHANGED vars => UNCHANGED fileVars
    BY DEF vars
  <1> QED
    BY <1>1, <1>2, <1>3, <1>4 DEF Next

-----------------------------------------------------------------------------
(* initProjection overwrites nothing.                                      *)

\* The file that initProjection is about to fill is empty, gone, or no longer
\* the one at the path.
FillsItsOwn ==
  /\ cache = [ino |-> cache.ino, mtime |-> cache.mtime, body |-> cache.body]
  /\ cache.ino \in Nat
  /\ init = [step |-> init.step, ino |-> init.ino]
  /\ init.step = "fill" =>
       /\ init.ino \in Nat /\ init.ino <= cache.ino
       /\ cache.ino = init.ino => cache.body \in {Null, Unwritten}

LEMMA InitFillsItsOwn == FileInit => FillsItsOwn
  BY DEF FileInit, FillsItsOwn, NoInit

\* A file that replaces the one at the path is another.
LEMMA SavedIsNew ==
  ASSUME FillsItsOwn, NEW body, cache' = Saved(body), UNCHANGED init
  PROVE  FillsItsOwn'
  BY DEF FillsItsOwn, Saved

LEMMA StepFillsItsOwn == FillsItsOwn /\ [FileNext]_fileVars => FillsItsOwn'
  <1> SUFFICES ASSUME FillsItsOwn, [FileNext]_fileVars
               PROVE  FillsItsOwn'
    OBVIOUS
  <1>1. ASSUME NEW t, Update(t)
        PROVE  FillsItsOwn'
    <2>1. UNCHANGED init
      BY <1>1 DEF Update
    <2>2. UNCHANGED cache \/ \E body : cache' = Saved(body)
      BY <1>1 DEF Update
    <2>3. CASE UNCHANGED cache
      BY <2>1, <2>3 DEF FillsItsOwn
    <2> QED
      BY <2>1, <2>2, <2>3, SavedIsNew
  <1>2. ASSUME NEW t, TornAppend(t)
        PROVE  FillsItsOwn'
    BY <1>2 DEF TornAppend, FillsItsOwn
  <1>3. CASE Rebuild
    <2>1. UNCHANGED init
      BY <1>3 DEF Rebuild
    <2>2. UNCHANGED cache \/ \E body : cache' = Saved(body)
      BY <1>3 DEF Rebuild
    <2>3. CASE UNCHANGED cache
      BY <2>1, <2>3 DEF FillsItsOwn
    <2> QED
      BY <2>1, <2>2, <2>3, SavedIsNew
  <1>4. CASE Rotate
    BY <1>4 DEF Rotate, FillsItsOwn
  <1>5. CASE DeleteCache
    BY <1>5 DEF DeleteCache, FillsItsOwn
  <1>6. CASE InitLooks
    BY <1>6 DEF InitLooks, NoInit, FillsItsOwn
  <1>7. CASE InitCreates
    <2>1. CASE HasCache
      BY <1>7, <2>1 DEF InitCreates, NoInit, FillsItsOwn
    <2>2. CASE ~HasCache
      BY <1>7, <2>2 DEF InitCreates, Saved, FillsItsOwn
    <2> QED
      BY <2>1, <2>2
  <1>8. CASE InitFills
    <2>1. init' = NoInit
      BY <1>8 DEF InitFills
    <2>2. \/ cache' = cache
          \/ cache' = [cache EXCEPT !.mtime = @ + 1, !.body = Body(EmptyProjection, TRUE)]
      BY <1>8 DEF InitFills
    <2> QED
      BY <2>1, <2>2 DEF NoInit, FillsItsOwn
  <1>9. CASE InitDies
    BY <1>9 DEF InitDies, NoInit, FillsItsOwn
  <1>10. CASE UNCHANGED fileVars
    BY <1>10 DEF fileVars, FillsItsOwn
  <1> QED
    BY <1>1, <1>2, <1>3, <1>4, <1>5, <1>6, <1>7, <1>8, <1>9, <1>10 DEF FileNext

\* initProjection writes where there was nothing, or into the empty file it has
\* created, whoever writes or deletes the database between its steps.
THEOREM FilesInitOverwritesNothing == Spec => InitOverwritesNothing
  <1>1. FillsItsOwn /\ [FileNext]_fileVars
          => [init' # init /\ cache' # cache =>
                ~HasCache \/ (cache.ino = init.ino /\ cache.body = Unwritten)]_fileVars
    <2> SUFFICES ASSUME FillsItsOwn, FileNext, init' # init, cache' # cache, HasCache
                 PROVE  cache.ino = init.ino /\ cache.body = Unwritten
      OBVIOUS
    <2>1. ASSUME NEW t, Update(t) \/ TornAppend(t)
          PROVE  FALSE
      BY <2>1 DEF Update, TornAppend
    <2>2. ~Rebuild /\ ~Rotate /\ ~DeleteCache /\ ~InitLooks /\ ~InitDies
      BY DEF Rebuild, Rotate, DeleteCache, InitLooks, InitDies
    <2>3. ~InitCreates
      BY DEF InitCreates
    <2>4. InitFills
      BY <2>1, <2>2, <2>3 DEF FileNext
    <2> QED
      BY <2>4 DEF InitFills, FillsItsOwn, HasCache
  <1> QED
    BY InitFillsItsOwn, StepFillsItsOwn, WatchLeavesFiles, <1>1, PTL
    DEF Spec, Init, InitOverwritesNothing

-----------------------------------------------------------------------------
(* What a reader of the log sees.                                          *)

Numbered(n, t) == [id |-> n, op |-> t.op, sid |-> t.sid, ts |-> t.ts, p |-> t.p]
EventSet ==
  {Null} \union (UNION {ToSet(s.told) : s \in Scenes})
    \union {Numbered(n, t) : n \in Nat, t \in UNION {s.templates : s \in Scenes}}
IdSet == {e.id : e \in EventSet}
LineSet == [event : EventSet, bad : SUBSET IdSet]

\* Every line that parses has been read.
AllRead(lines, events) ==
  /\ events \in Seq(EventSet)
  /\ \A i \in DOMAIN lines : ~IsBad(lines[i]) => lines[i].event \in ToSet(events)

Reading == INSTANCE Folding WITH Op <- ReadLine, Rel <- AllRead

LEMMA AppendToSet ==
  ASSUME NEW S, NEW s \in Seq(S), NEW e \in S
  PROVE  /\ Append(s, e) \in Seq(S)
         /\ ToSet(Append(s, e)) = ToSet(s) \union {e}
  <1>1. /\ Append(s, e) \in Seq(S)
        /\ Len(Append(s, e)) = Len(s) + 1
        /\ \A i \in 1 .. Len(s) : Append(s, e)[i] = s[i]
        /\ Append(s, e)[Len(s) + 1] = e
    OBVIOUS
  <1>2. DOMAIN Append(s, e) = DOMAIN s \union {Len(s) + 1}
    BY <1>1
  <1> QED
    BY <1>1, <1>2 DEF ToSet

LEMMA EventsReadAll ==
  ASSUME NEW lines \in Seq(LineSet)
  PROVE  \A i \in DOMAIN lines : ~IsBad(lines[i]) => lines[i].event \in ToSet(Events(lines))
  <1>1. AllRead(<<>>, <<>>)
    BY DEF AllRead
  <1>2. ASSUME NEW s \in Seq(LineSet), NEW line \in LineSet, NEW events,
               AllRead(s, events)
        PROVE  AllRead(Append(s, line), ReadLine(events, line))
    <2>1. /\ Append(s, line) \in Seq(LineSet)
          /\ DOMAIN Append(s, line) = DOMAIN s \union {Len(s) + 1}
          /\ \A i \in DOMAIN s : Append(s, line)[i] = s[i]
          /\ Append(s, line)[Len(s) + 1] = line
      OBVIOUS
    <2>2. line.event \in EventSet
      BY DEF LineSet
    <2>3. CASE IsBad(line)
      BY <1>2, <2>1, <2>3 DEF AllRead, ReadLine
    <2>4. CASE ~IsBad(line)
      <3>1. /\ ReadLine(events, line) \in Seq(EventSet)
            /\ ToSet(ReadLine(events, line)) = ToSet(events) \union {line.event}
        BY <1>2, <2>2, <2>4, AppendToSet DEF AllRead, ReadLine
      <3> QED
        BY <1>2, <2>1, <3>1 DEF AllRead
    <2> QED
      BY <2>3, <2>4
  <1>3. AllRead(lines, Reading!FoldLeft(ReadLine, <<>>, lines))
    BY <1>1, <1>2, Reading!FoldKeeps
  <1>4. Events(lines) = Reading!FoldLeft(ReadLine, <<>>, lines)
    BY DEF Events, FoldLeft, Reading!FoldLeft, MapThenFoldSet, Reading!MapThenFoldSet,
           Max, Reading!Max
  <1> QED
    BY <1>3, <1>4 DEF AllRead

-----------------------------------------------------------------------------
(* No acknowledged event is passed over in silence.                        *)

LinesIds(lines) == UNION {IdsOf(lines[i]) : i \in DOMAIN lines}

FileTypes ==
  /\ scene \in Scenes
  /\ log \in Seq(LineSet)
  /\ open \in BOOLEAN
  /\ told \in Seq(EventSet)

\* Each acknowledged event is told of by some line, readable or not, or has been
\* retired; and a line that is still open tells of none.
AckedInv ==
  /\ FileTypes
  /\ acked \subseteq retired \union LinesIds(log)
  /\ acked \subseteq 1 .. Len(told)
  /\ open => log # <<>> /\ IdsOf(Last(log)) \intersect acked = {}

LEMMA LineType ==
  ASSUME NEW e \in EventSet
  PROVE  Line(e) \in LineSet /\ ~IsBad(Line(e)) /\ IdsOf(Line(e)) = {e.id}
  BY DEF Line, LineSet, IsBad, IdsOf

LEMMA BadLineType ==
  ASSUME NEW ids \in SUBSET IdSet, ids # {}
  PROVE  BadLine(ids) \in LineSet /\ IsBad(BadLine(ids)) /\ IdsOf(BadLine(ids)) = ids
  BY DEF BadLine, LineSet, IsBad, IdsOf, EventSet

LEMMA IdsOfType ==
  ASSUME NEW line \in LineSet
  PROVE  IdsOf(line) \in SUBSET IdSet
  BY DEF IdsOf, LineSet, IdSet

LEMMA NewEventType ==
  ASSUME FileTypes, NEW t \in scene.templates
  PROVE  NewEvent(t) \in EventSet /\ NewEvent(t).id = Len(told) + 1
  <1>1. t \in UNION {s.templates : s \in Scenes} /\ Len(told) + 1 \in Nat
    BY DEF FileTypes
  <1>2. NewEvent(t) = Numbered(Len(told) + 1, t)
    BY DEF NewEvent, Numbered
  <1>3. NewEvent(t) \in EventSet
    BY <1>1, <1>2 DEF EventSet
  <1> QED
    BY <1>3 DEF NewEvent

LEMMA LinesIdsAppend ==
  ASSUME NEW lines \in Seq(LineSet), NEW line \in LineSet
  PROVE  /\ Append(lines, line) \in Seq(LineSet) /\ Append(lines, line) # <<>>
         /\ LinesIds(Append(lines, line)) = LinesIds(lines) \union IdsOf(line)
         /\ Last(Append(lines, line)) = line
  <1>1. /\ Append(lines, line) \in Seq(LineSet)
        /\ Len(Append(lines, line)) = Len(lines) + 1
        /\ DOMAIN Append(lines, line) = DOMAIN lines \union {Len(lines) + 1}
        /\ \A i \in DOMAIN lines : Append(lines, line)[i] = lines[i]
        /\ Append(lines, line)[Len(lines) + 1] = line
    OBVIOUS
  <1>2. LinesIds(Append(lines, line)) = LinesIds(lines) \union IdsOf(line)
    BY <1>1 DEF LinesIds
  <1> QED
    BY <1>1, <1>2 DEF Last

LEMMA LinesIdsFront ==
  ASSUME NEW lines \in Seq(LineSet), lines # <<>>
  PROVE  /\ Front(lines) \in Seq(LineSet) /\ Last(lines) \in LineSet
         /\ LinesIds(lines) = LinesIds(Front(lines)) \union IdsOf(Last(lines))
  <1>1. /\ Front(lines) \in Seq(LineSet) /\ Last(lines) \in LineSet
        /\ lines = Append(Front(lines), Last(lines))
    BY DEF Front, Last
  <1> QED
    BY <1>1, LinesIdsAppend

\* What is glued to an open line adds to what that line tells of.
LEMMA WrittenIds ==
  ASSUME AckedInv, NEW e \in EventSet, NEW line,
         line \in {IF open THEN Glued({e.id}) ELSE Line(e),
                   IF open THEN Glued({e.id}) ELSE BadLine({e.id})}
  PROVE  /\ Written(line) \in Seq(LineSet) /\ Written(line) # <<>>
         /\ LinesIds(Written(line)) = LinesIds(log) \union {e.id}
         /\ Last(Written(line)) = line
         /\ IdsOf(line) = {e.id} \union (IF open THEN IdsOf(Last(log)) ELSE {})
  <1>1. e.id \in IdSet
    BY DEF IdSet
  <1>2. CASE open
    <2>1. log \in Seq(LineSet) /\ log # <<>>
      BY <1>2 DEF AckedInv, FileTypes
    <2>2. /\ Front(log) \in Seq(LineSet) /\ Last(log) \in LineSet
          /\ LinesIds(log) = LinesIds(Front(log)) \union IdsOf(Last(log))
      BY <2>1, LinesIdsFront
    <2>3. IdsOf(Last(log)) \in SUBSET IdSet
      BY <2>2, IdsOfType
    <2>4. line = BadLine({e.id} \union IdsOf(Last(log)))
      BY <1>2 DEF Glued, IdsOf
    <2>5. {e.id} \union IdsOf(Last(log)) \in SUBSET IdSet
      BY <1>1, <2>3
    <2>6. line \in LineSet /\ IdsOf(line) = {e.id} \union IdsOf(Last(log))
      BY <2>4, <2>5, BadLineType
    <2>7. Written(line) = Append(Front(log), line)
      BY <1>2 DEF Written
    <2>8. /\ Written(line) \in Seq(LineSet) /\ Written(line) # <<>>
          /\ LinesIds(Written(line)) = LinesIds(Front(log)) \union IdsOf(line)
          /\ Last(Written(line)) = line
      BY <2>2, <2>6, <2>7, LinesIdsAppend
    <2> QED
      BY <1>2, <2>2, <2>6, <2>8
  <1>3. CASE ~open
    <2>1. log \in Seq(LineSet)
      BY DEF AckedInv, FileTypes
    <2>2. line \in {Line(e), BadLine({e.id})}
      BY <1>3
    <2>3. line \in LineSet /\ IdsOf(line) = {e.id}
      BY <1>1, <2>2, LineType, BadLineType
    <2>4. Written(line) = Append(log, line)
      BY <1>3 DEF Written
    <2> QED
      BY <1>3, <2>1, <2>3, <2>4, LinesIdsAppend
  <1> QED
    BY <1>2, <1>3

LEMMA InitAckedInv == FileInit => AckedInv
  <1> SUFFICES ASSUME FileInit
               PROVE  AckedInv
    OBVIOUS
  <1>1. /\ scene \in Scenes /\ told = scene.told /\ open = FALSE
        /\ log = [i \in DOMAIN scene.log |-> Line(scene.log[i])]
        /\ acked = {e.id : e \in ToSet(scene.told)}
        /\ retired = {e.id : e \in ToSet(scene.told)} \ {e.id : e \in ToSet(scene.log)}
    BY DEF FileInit
  <1>2. /\ scene.told \in Seq(ToSet(scene.told)) /\ scene.log \in Seq(ToSet(scene.told))
        /\ \A i \in DOMAIN scene.told : scene.told[i].id = i
    BY <1>1, ScenesType
  <1>3. ToSet(scene.told) \subseteq EventSet
    BY <1>1 DEF EventSet
  <1>4. told \in Seq(EventSet) /\ scene.log \in Seq(EventSet)
    BY <1>1, <1>2, <1>3, SeqMonotonic
  <1>5. \A i \in DOMAIN scene.log : /\ Line(scene.log[i]) \in LineSet
                                    /\ IdsOf(Line(scene.log[i])) = {scene.log[i].id}
    BY <1>4, LineType
  <1>6. log \in Seq(LineSet) /\ DOMAIN log = DOMAIN scene.log
    BY <1>1, <1>4, <1>5
  <1>7. FileTypes
    BY <1>1, <1>4, <1>6 DEF FileTypes
  <1>8. acked \subseteq retired \union LinesIds(log)
    <2>1. LinesIds(log) = UNION {{scene.log[i].id} : i \in DOMAIN scene.log}
      BY <1>1, <1>5, <1>6 DEF LinesIds
    <2>2. ToSet(scene.log) = {scene.log[i] : i \in DOMAIN scene.log}
      BY DEF ToSet
    <2> QED
      BY <1>1, <2>1, <2>2
  <1>9. acked \subseteq 1 .. Len(told)
    <2>1. ToSet(scene.told) = {scene.told[i] : i \in DOMAIN scene.told}
      BY DEF ToSet
    <2>2. DOMAIN scene.told = 1 .. Len(told)
      BY <1>1, <1>2
    <2> QED
      BY <1>1, <1>2, <2>1, <2>2
  <1> QED
    BY <1>1, <1>7, <1>8, <1>9 DEF AckedInv

LEMMA StepAckedInv == AckedInv /\ [FileNext]_fileVars => AckedInv'
  <1> SUFFICES ASSUME AckedInv, [FileNext]_fileVars
               PROVE  AckedInv'
    OBVIOUS
  <1> USE DEF FileTypes
  <1>1. ASSUME NEW t \in scene.templates, Update(t)
        PROVE  AckedInv'
    <2> DEFINE e == NewEvent(t)
               line == IF open THEN Glued({e.id}) ELSE Line(e)
    <2>1. e \in EventSet /\ e.id = Len(told) + 1
      BY NewEventType DEF AckedInv
    <2>2. /\ log' = Written(line) /\ open' = FALSE /\ told' = Append(told, e)
          /\ acked' = acked \/ acked' = acked \union {e.id}
          /\ UNCHANGED <<scene, retired>>
      BY <1>1 DEF Update
    <2> HIDE DEF e
    <2>3. Written(line) \in Seq(LineSet) /\ LinesIds(Written(line)) = LinesIds(log) \union {e.id}
      BY <2>1, WrittenIds
    <2> HIDE DEF line
    <2>4. LinesIds(log') = LinesIds(log) \union {e.id} /\ log' \in Seq(LineSet)
      BY <2>2, <2>3
    <2>5. told' \in Seq(EventSet) /\ Len(told') = Len(told) + 1 /\ Len(told) \in Nat
      BY <2>1, <2>2 DEF AckedInv
    <2>6. FileTypes'
      BY <2>2, <2>4, <2>5 DEF AckedInv
    <2>7. acked' \subseteq retired' \union LinesIds(log)'
      BY <2>2, <2>4 DEF AckedInv, LinesIds
    <2>8. acked' \subseteq 1 .. Len(told')
      <3>1. 1 .. Len(told') = (1 .. Len(told)) \union {e.id}
        BY <2>1, <2>5
      <3> QED
        BY <2>2, <3>1 DEF AckedInv
    <2> QED
      BY <2>2, <2>6, <2>7, <2>8 DEF AckedInv
  <1>2. ASSUME NEW t \in scene.templates, TornAppend(t)
        PROVE  AckedInv'
    <2> DEFINE e == NewEvent(t)
    <2>1. e \in EventSet /\ e.id = Len(told) + 1
      BY NewEventType DEF AckedInv
    <2>2. PICK line \in IF open THEN {Glued({e.id})} ELSE {Line(e), BadLine({e.id})} :
            log' = Written(line)
      BY <1>2 DEF TornAppend
    <2>3. /\ open' = TRUE /\ told' = Append(told, e)
          /\ UNCHANGED <<scene, acked, retired>>
      BY <1>2 DEF TornAppend
    <2> HIDE DEF e
    <2>4. line \in {IF open THEN Glued({e.id}) ELSE Line(e),
                    IF open THEN Glued({e.id}) ELSE BadLine({e.id})}
      BY <2>2
    <2>5. /\ log' \in Seq(LineSet) /\ log' # <<>>
          /\ LinesIds(log') = LinesIds(log) \union {e.id}
          /\ Last(log') = line
          /\ IdsOf(line) = {e.id} \union (IF open THEN IdsOf(Last(log)) ELSE {})
      BY <2>1, <2>2, <2>4, WrittenIds
    <2>6. told' \in Seq(EventSet) /\ Len(told') = Len(told) + 1 /\ Len(told) \in Nat
      BY <2>1, <2>3 DEF AckedInv
    <2>7. FileTypes'
      BY <2>3, <2>5, <2>6 DEF AckedInv
    <2>8. acked' \subseteq retired' \union LinesIds(log)'
      BY <2>3, <2>5 DEF AckedInv, LinesIds
    <2>9. acked' \subseteq 1 .. Len(told')
      BY <2>3, <2>6 DEF AckedInv
    <2>10. IdsOf(Last(log')) \intersect acked' = {}
      <3>1. e.id \notin acked
        BY <2>1, <2>6 DEF AckedInv
      <3>2. open => IdsOf(Last(log)) \intersect acked = {}
        BY DEF AckedInv
      <3> QED
        BY <2>3, <2>5, <3>1, <3>2
    <2> QED
      BY <2>3, <2>5, <2>7, <2>8, <2>9, <2>10 DEF AckedInv, IdsOf, Last
  <1>3. CASE Rebuild
    BY <1>3 DEF Rebuild, AckedInv, LinesIds, IdsOf, Last
  <1>4. CASE Rotate
    <2>1. PICK k \in DOMAIN log :
            /\ k > 1
            /\ log' = SubSeq(log, k, Len(log))
            /\ retired' = retired \union UNION {IdsOf(log[i]) : i \in 1 .. k - 1}
      BY <1>4 DEF Rotate
    <2>2. UNCHANGED <<scene, open, told, acked>>
      BY <1>4 DEF Rotate
    <2>3. log \in Seq(LineSet) /\ k \in 1 .. Len(log) /\ Len(log) \in Nat
      BY DEF AckedInv
    <2>4. /\ log' \in Seq(LineSet) /\ Len(log') = Len(log) - k + 1
          /\ \A i \in 1 .. Len(log) - k + 1 : log'[i] = log[k + i - 1]
      BY <2>1, <2>3
    <2>5. log' # <<>> /\ Last(log') = Last(log)
      <3>1. /\ Len(log') \in 1 .. Len(log) - k + 1
            /\ k + Len(log') - 1 = Len(log)
        BY <2>3, <2>4
      <3>2. log'[Len(log')] = log[Len(log)]
        BY <2>4, <3>1
      <3> QED
        BY <2>4, <3>1, <3>2 DEF Last
    <2>6. LinesIds(log) \subseteq retired' \union LinesIds(log')
      <3> SUFFICES ASSUME NEW i \in 1 .. Len(log), NEW id \in IdsOf(log[i])
                   PROVE  id \in retired' \union LinesIds(log')
        BY <2>3 DEF LinesIds
      <3>1. CASE i < k
        BY <2>1, <2>3, <3>1
      <3>2. CASE i >= k
        <4>1. i - k + 1 \in DOMAIN log' /\ log'[i - k + 1] = log[i]
          BY <2>3, <2>4, <3>2
        <4> QED
          BY <4>1 DEF LinesIds
      <3> QED
        BY <2>3, <3>1, <3>2
    <2>7. acked' \subseteq retired' \union LinesIds(log)'
      BY <2>1, <2>2, <2>6 DEF AckedInv, LinesIds, IdsOf
    <2> QED
      BY <2>2, <2>4, <2>5, <2>7 DEF AckedInv, IdsOf, Last
  <1>5. CASE DeleteCache \/ InitLooks \/ InitCreates \/ InitFills \/ InitDies
    BY <1>5 DEF DeleteCache, InitLooks, InitCreates, InitFills, InitDies,
                AckedInv, LinesIds, IdsOf, Last
  <1>6. CASE UNCHANGED fileVars
    BY <1>6 DEF fileVars, AckedInv, LinesIds, IdsOf, Last
  <1> QED
    BY <1>1, <1>2, <1>3, <1>4, <1>5, <1>6 DEF FileNext

LEMMA AckedInvRefuses == AckedInv => AckedOrRefused
  <1> SUFFICES ASSUME AckedInv, ~Throws(log, ~open), NEW id \in acked, id \notin retired
               PROVE  id \in {e.id : e \in ToSet(Events(log))}
    BY DEF AckedOrRefused
  <1>1. PICK i \in DOMAIN log : id \in IdsOf(log[i])
    BY DEF AckedInv, LinesIds
  <1>2. ~IsBad(log[i])
    <2> SUFFICES ASSUME IsBad(log[i])
                 PROVE  FALSE
      OBVIOUS
    <2>1. open /\ ~(i < Len(log))
      BY DEF Throws, MiddleCorruptions
    <2>2. i = Len(log)
      BY <2>1 DEF AckedInv, FileTypes
    <2> QED
      BY <1>1, <2>1, <2>2 DEF AckedInv, Last
  <1>3. id = log[i].event.id
    BY <1>1, <1>2 DEF IdsOf
  <1>4. log[i].event \in ToSet(Events(log))
    BY <1>2, EventsReadAll DEF AckedInv, FileTypes
  <1> QED
    BY <1>3, <1>4

\* Whatever writers die within their write, however many torn lines there are,
\* and whatever was appended behind them: a reader of the log sees every event
\* that was acknowledged, or refuses the log.
THEOREM FilesAckedOrRefused == Spec => []AckedOrRefused
  BY InitAckedInv, StepAckedInv, AckedInvRefuses, WatchLeavesFiles, PTL DEF Spec, Init
=============================================================================
