------------------------- MODULE SearchCacheProofs -------------------------
(***************************************************************************)
(* Theorems about SearchCache, for any files, sessions, processes, queries *)
(* and limits, and for transcripts that are rewritten in any way while     *)
(* they are read.                                                          *)
(***************************************************************************)
EXTENDS SearchCache, FiniteSetTheorems, TLAPS

-----------------------------------------------------------------------------
(* Texts and what they hold of a query.                                    *)

\* The texts of some records are those that say something, in their order: each
\* text is one of the records, and what precedes it there precedes it here.
TextsAre(records, texts) ==
  /\ texts \in Seq(Records)
  /\ \A i \in DOMAIN texts : \E j \in DOMAIN records :
       /\ texts[i] = records[j]
       /\ \A l \in 1 .. j - 1 :
            records[l] = Noise \/ \E k \in 1 .. i - 1 : texts[k] = records[l]
  /\ \A j \in DOMAIN records :
       records[j] = Noise \/ \E k \in DOMAIN texts : texts[k] = records[j]

Texts == INSTANCE Folding WITH Op <- AddText, Rel <- TextsAre

LEMMA AppendIs ==
  ASSUME NEW S, NEW s \in Seq(S), NEW e \in S
  PROVE  /\ Append(s, e) \in Seq(S) /\ Len(Append(s, e)) = Len(s) + 1
         /\ Len(s) \in Nat /\ DOMAIN s = 1 .. Len(s)
         /\ DOMAIN Append(s, e) = 1 .. Len(s) + 1
         /\ \A i \in 1 .. Len(s) : Append(s, e)[i] = s[i]
         /\ Append(s, e)[Len(s) + 1] = e
  OBVIOUS

LEMMA AddTextKeeps ==
  ASSUME NEW records \in Seq(Records), NEW r \in Records, NEW texts,
         TextsAre(records, texts)
  PROVE  TextsAre(Append(records, r), AddText(texts, r))
  <1> DEFINE more == Append(records, r)
             m == Len(records)
             n == Len(texts)
  <1>1. /\ m \in Nat /\ DOMAIN records = 1 .. m /\ DOMAIN more = 1 .. m + 1
        /\ \A j \in 1 .. m : more[j] = records[j]
        /\ more[m + 1] = r
    BY AppendIs
  <1>2. texts \in Seq(Records) /\ n \in Nat /\ DOMAIN texts = 1 .. n
    BY DEF TextsAre
  <1>3. \A i \in 1 .. n : \E j \in 1 .. m :
          /\ texts[i] = records[j]
          /\ \A l \in 1 .. j - 1 :
               records[l] = Noise \/ \E k \in 1 .. i - 1 : texts[k] = records[l]
    BY <1>1, <1>2 DEF TextsAre
  <1>4. \A j \in 1 .. m : records[j] = Noise \/ \E k \in 1 .. n : texts[k] = records[j]
    BY <1>1, <1>2 DEF TextsAre
  <1> SUFFICES TextsAre(more, AddText(texts, r))
    OBVIOUS
  <1> HIDE DEF more, m, n
  <1>5. CASE r = Noise
    <2>1. AddText(texts, r) = texts
      BY <1>5 DEF AddText
    <2>2. ASSUME NEW i \in 1 .. n
          PROVE  \E j \in DOMAIN more :
                   /\ texts[i] = more[j]
                   /\ \A l \in 1 .. j - 1 :
                        more[l] = Noise \/ \E k \in 1 .. i - 1 : texts[k] = more[l]
      <3>1. PICK j \in 1 .. m :
              /\ texts[i] = records[j]
              /\ \A l \in 1 .. j - 1 :
                   records[l] = Noise \/ \E k \in 1 .. i - 1 : texts[k] = records[l]
        BY <1>3
      <3>2. j \in DOMAIN more /\ more[j] = records[j]
            /\ \A l \in 1 .. j - 1 : l \in 1 .. m /\ more[l] = records[l]
        BY <1>1
      <3> QED
        BY <3>1, <3>2
    <2>3. \A j \in DOMAIN more : more[j] = Noise \/ \E k \in 1 .. n : texts[k] = more[j]
      <3> TAKE j \in DOMAIN more
      <3>1. j \in 1 .. m \/ j = m + 1
        BY <1>1
      <3> QED
        BY <1>1, <1>4, <1>5, <3>1
    <2>4. TextsAre(more, texts)
      BY <1>2, <2>2, <2>3 DEF TextsAre
    <2> QED
      BY <2>1, <2>4
  <1>6. CASE r # Noise
    <2> DEFINE out == Append(texts, r)
    <2>1. /\ AddText(texts, r) = out
          /\ out \in Seq(Records) /\ DOMAIN out = 1 .. n + 1
          /\ \A i \in 1 .. n : out[i] = texts[i]
          /\ out[n + 1] = r
      BY <1>2, <1>6, AppendIs DEF AddText, n
    <2> HIDE DEF out
    <2>2. ASSUME NEW i \in 1 .. n + 1
          PROVE  \E j \in DOMAIN more :
                   /\ out[i] = more[j]
                   /\ \A l \in 1 .. j - 1 :
                        more[l] = Noise \/ \E k \in 1 .. i - 1 : out[k] = more[l]
      <3>1. CASE i \in 1 .. n
        <4>1. PICK j \in 1 .. m :
                /\ texts[i] = records[j]
                /\ \A l \in 1 .. j - 1 :
                     records[l] = Noise \/ \E k \in 1 .. i - 1 : texts[k] = records[l]
          BY <1>3, <3>1
        <4>2. j \in DOMAIN more /\ more[j] = records[j]
              /\ \A l \in 1 .. j - 1 : l \in 1 .. m /\ more[l] = records[l]
          BY <1>1
        <4>3. \A k \in 1 .. i - 1 : k \in 1 .. n /\ out[k] = texts[k]
          BY <1>2, <2>1
        <4>4. out[i] = texts[i]
          BY <2>1, <3>1
        <4> QED
          BY <4>1, <4>2, <4>3, <4>4
      <3>2. CASE i = n + 1
        <4>1. \A l \in 1 .. (m + 1) - 1 :
                more[l] = Noise \/ \E k \in 1 .. i - 1 : out[k] = more[l]
          <5> TAKE l \in 1 .. (m + 1) - 1
          <5>1. l \in 1 .. m /\ more[l] = records[l]
            BY <1>1
          <5>2. \A k \in 1 .. n : k \in 1 .. i - 1 /\ out[k] = texts[k]
            BY <1>2, <2>1, <3>2
          <5> QED
            BY <1>4, <5>1, <5>2
        <4>2. m + 1 \in DOMAIN more /\ out[i] = more[m + 1]
          BY <1>1, <2>1, <3>2
        <4> QED
          BY <4>1, <4>2
      <3> QED
        BY <1>2, <3>1, <3>2
    <2>3. \A j \in DOMAIN more : more[j] = Noise \/ \E k \in DOMAIN out : out[k] = more[j]
      <3> TAKE j \in DOMAIN more
      <3>1. CASE j \in 1 .. m
        <4>1. \A k \in 1 .. n : k \in DOMAIN out /\ out[k] = texts[k]
          BY <1>2, <2>1
        <4> QED
          BY <1>1, <1>4, <3>1, <4>1
      <3>2. CASE j = m + 1
        <4>1. n + 1 \in DOMAIN out
          BY <1>2, <2>1
        <4> QED
          BY <1>1, <2>1, <3>2, <4>1
      <3> QED
        BY <1>1, <3>1, <3>2
    <2> QED
      BY <2>1, <2>2, <2>3 DEF TextsAre
  <1> QED
    BY <1>5, <1>6

LEMMA TextsFollow ==
  ASSUME NEW records \in Seq(Records)
  PROVE  TextsAre(records, TextsOf(records))
  <1>1. TextsAre(<<>>, <<>>)
    BY DEF TextsAre
  <1>2. \A s \in Seq(Records), r \in Records :
          TextsAre(s, Texts!FoldLeft(AddText, <<>>, s)) =>
            TextsAre(Append(s, r), AddText(Texts!FoldLeft(AddText, <<>>, s), r))
    BY AddTextKeeps
  <1>3. TextsAre(records, Texts!FoldLeft(AddText, <<>>, records))
    BY <1>1, <1>2, Texts!FoldKeeps
  <1>4. Texts!FoldLeft(AddText, <<>>, records) = FoldLeft(AddText, <<>>, records)
    BY DEF FoldLeft, Texts!FoldLeft, MapThenFoldSet, Texts!MapThenFoldSet, Max, Texts!Max
  <1> QED
    BY <1>3, <1>4 DEF TextsOf


\* v is the first of some records that contains the query, or Null when none does.
IsHit(records, q, v) ==
  IF v = Null THEN \A i \in DOMAIN records : records[i] \notin Holding[q]
  ELSE \E i \in DOMAIN records :
         /\ records[i] = v
         /\ \A j \in 1 .. i - 1 : records[j] \notin Holding[q]

LEMMA MinIs ==
  ASSUME NEW S \in SUBSET Nat, S # {}
  PROVE  Min(S) \in S /\ \A i \in S : Min(S) <= i
  <1>1. \E m \in S : \A i \in S : m <= i
    BY Texts!LeastOfNats
  <1> QED
    BY <1>1 DEF Min

LEMMA SnippetIsHit ==
  ASSUME NEW records \in Seq(Records), NEW q \in Queries
  PROVE  /\ Snippet(records, q) \in Records \union {Null}
         /\ IsHit(records, q, Snippet(records, q))
         /\ FirstHit(records, q) = 0 <=> Snippet(records, q) = Null
         /\ FirstHit(records, q) # 0 => FirstHit(records, q) \in 1 .. Len(records)
  <1> DEFINE hits == {i \in DOMAIN records : records[i] \in Holding[q]}
             n == Len(records)
  <1>1. n \in Nat /\ DOMAIN records = 1 .. n /\ \A i \in 1 .. n : records[i] \in Records
    OBVIOUS
  <1>2. CASE hits = {}
    <2>1. FirstHit(records, q) = 0 /\ Snippet(records, q) = Null
      BY <1>2 DEF FirstHit, Snippet
    <2> QED
      BY <1>2, <2>1 DEF IsHit
  <1>3. CASE hits # {}
    <2>1. hits \in SUBSET Nat
      BY <1>1
    <2>2. FirstHit(records, q) \in hits /\ \A i \in hits : FirstHit(records, q) <= i
      BY <1>3, <2>1, MinIs DEF FirstHit
    <2> DEFINE k == FirstHit(records, q)
    <2> HIDE DEF k
    <2>3. k \in 1 .. n /\ records[k] \in Holding[q] /\ k # 0
      BY <1>1, <2>2 DEF k
    <2>4. \A j \in 1 .. k - 1 : records[j] \notin Holding[q]
      BY <1>1, <2>2, <2>3 DEF k
    <2>5. Snippet(records, q) = records[k] /\ records[k] \in Records /\ records[k] # Null
      BY <1>1, <2>3, RecordsType DEF Snippet, k
    <2> QED
      BY <1>1, <2>3, <2>4, <2>5 DEF IsHit, k
  <1> QED
    BY <1>2, <1>3

\* The texts answer as the records do.
LEMMA TextsHit ==
  ASSUME NEW records \in Seq(Records), NEW q \in Queries
  PROVE  IsHit(records, q, Snippet(TextsOf(records), q))
  <1> DEFINE texts == TextsOf(records)
             v == Snippet(texts, q)
  <1>1. TextsAre(records, texts)
    BY TextsFollow
  <1> HIDE DEF texts
  <1>2. texts \in Seq(Records)
    BY <1>1 DEF TextsAre
  <1>3. IsHit(texts, q, v)
    BY <1>2, SnippetIsHit
  <1> HIDE DEF v
  <1>4. Noise \notin Holding[q]
    BY RecordsType
  <1>5. CASE v = Null
    <2>1. \A i \in DOMAIN texts : texts[i] \notin Holding[q]
      BY <1>3, <1>5 DEF IsHit
    <2> QED
      BY <1>1, <1>4, <1>5, <2>1 DEF TextsAre, IsHit, v, texts
  <1>6. CASE v # Null
    <2>1. PICK i \in DOMAIN texts :
            texts[i] = v /\ \A k \in 1 .. i - 1 : texts[k] \notin Holding[q]
      BY <1>3, <1>6 DEF IsHit
    <2>2. PICK j \in DOMAIN records :
            /\ texts[i] = records[j]
            /\ \A l \in 1 .. j - 1 :
                 records[l] = Noise \/ \E k \in 1 .. i - 1 : texts[k] = records[l]
      BY <1>1 DEF TextsAre
    <2>3. \A l \in 1 .. j - 1 : records[l] \notin Holding[q]
      BY <1>4, <2>1, <2>2
    <2>4. IsHit(records, q, v)
      BY <1>6, <2>1, <2>2, <2>3 DEF IsHit
    <2> QED
      BY <2>4 DEF v, texts
  <1> QED
    BY <1>5, <1>6

LEMMA PrefixIs ==
  ASSUME NEW S, NEW s \in Seq(S), NEW k \in 1 .. Len(s)
  PROVE  /\ SubSeq(s, 1, k) \in Seq(S) /\ DOMAIN SubSeq(s, 1, k) = 1 .. k
         /\ DOMAIN s = 1 .. Len(s) /\ Len(s) \in Nat
         /\ \A i \in 1 .. k : SubSeq(s, 1, k)[i] = s[i]
  OBVIOUS

\* A hit among the first records is one among all of them.
LEMMA PrefixHit ==
  ASSUME NEW records \in Seq(Records), NEW q, NEW k \in 1 .. Len(records), NEW v,
         v # Null, IsHit(SubSeq(records, 1, k), q, v)
  PROVE  IsHit(records, q, v)
  <1> DEFINE prefix == SubSeq(records, 1, k)
  <1>1. /\ DOMAIN prefix = 1 .. k /\ DOMAIN records = 1 .. Len(records) /\ Len(records) \in Nat
        /\ \A i \in 1 .. k : prefix[i] = records[i]
    BY PrefixIs
  <1> HIDE DEF prefix
  <1>2. PICK i \in 1 .. k :
          prefix[i] = v /\ \A j \in 1 .. i - 1 : prefix[j] \notin Holding[q]
    BY <1>1 DEF IsHit, prefix
  <1>3. i \in DOMAIN records /\ records[i] = v
    BY <1>1, <1>2
  <1>4. \A j \in 1 .. i - 1 : records[j] \notin Holding[q]
    BY <1>1, <1>2
  <1> QED
    BY <1>3, <1>4 DEF IsHit

-----------------------------------------------------------------------------
(* The inductive invariant.                                                *)

StepNames == {"idle", "next", "entry", "verify", "scan", "lock", "reply"} \union SavingSteps

\* An entry has the texts of its source; unless it is complete, those up to a
\* record of it.
IsEntry(e) ==
  /\ e.source \in Seq(Records) /\ e.complete \in BOOLEAN
  /\ IF e.complete THEN e.texts = TextsOf(e.source)
     ELSE \E k \in 1 .. Len(e.source) : e.texts = TextsOf(SubSeq(e.source, 1, k))

IsCall(c) ==
  /\ DOMAIN c = DOMAIN Idle
  /\ c.step \in StepNames
  /\ c.step # "idle" => c.query \in Queries
  /\ c.todo \in Seq(Files)
  /\ c.read \in Seq(Records)

\* What a search knows of the file it is at.
KnowsFile(c, held, files) ==
  c.step \notin {"idle", "next"} => c.todo # <<>> /\ Holds(files[Head(c.todo)]) \subseteq held
\* What it has read stood there, each record at some time.
ReadIsHeld(c, held) ==
  /\ c.step \in {"next", "entry"} => c.read = <<>>
  /\ c.step \in {"verify", "scan"} => \A i \in DOMAIN c.read : <<i, c.read[i]>> \in held
\* The entry it relies on, or is to save.
EntryServes(c) ==
  /\ c.step = "verify" => IsEntry(c.entry) /\ Settles(c.entry, c.query)
  /\ c.step \in {"lock"} \union SavingSteps => IsEntry(c.entry)
\* Once it has an answer, the answer is borne out.
AnswerStands(c, held) ==
  c.step \in {"lock", "reply"} \union SavingSteps => Answers(held, c.query, c.answer)

CallOK(c, held, files) ==
  /\ IsCall(c) /\ KnowsFile(c, held, files) /\ ReadIsHeld(c, held)
  /\ EntryServes(c) /\ AnswerStands(c, held)

SearchInv ==
  /\ scene \in Scenes
  /\ content \in [Files -> Seq(Records)]
  /\ entries = [f \in Files |-> entries[f]]
  /\ \A f \in Files : entries[f] = Null \/ IsEntry(entries[f])
  /\ call = [p \in Procs |-> call[p]] /\ seen = [p \in Procs |-> seen[p]]
  /\ \A p \in Procs : CallOK(call[p], seen[p], content)

-----------------------------------------------------------------------------
LEMMA SetToSeqIs ==
  ASSUME NEW S, IsFiniteSet(S)
  PROVE  SetToSeq(S) \in Seq(S)
  <1>1. Cardinality(S) \in Nat /\ ExistsBijection(1 .. Cardinality(S), S)
    BY FS_CardinalityType
  <1>2. \E f \in [1 .. Cardinality(S) -> S] : IsInjective(f)
    BY <1>1 DEF ExistsBijection, Bijection, Injection
  <1>3. SetToSeq(S) \in [1 .. Cardinality(S) -> S]
    BY <1>2 DEF SetToSeq
  <1> QED
    BY <1>1, <1>3

LEMMA PathsAreFiles ==
  ASSUME NEW s \in Sessions
  PROVE  PathsOf(s) \in Seq(Files)
  <1> DEFINE found == {f \in Folder : Len(content[f]) <= MaxFileSize /\ Embedded[f] = s}
  <1>1. found \in SUBSET Files /\ IsFiniteSet(found)
    BY FilesType, FS_Subset
  <1>2. SetToSeq(found) \in Seq(found)
    BY <1>1, SetToSeqIs
  <1>3. SetToSeq(found) \in Seq(Files)
    BY <1>1, <1>2
  <1> QED
    BY <1>3, FilesType DEF PathsOf, DiscoverTranscriptPaths

LEMMA MinOfTwo ==
  ASSUME NEW a \in Nat, NEW b \in Nat
  PROVE  Min({a, b}) \in {a, b} /\ Min({a, b}) <= a /\ Min({a, b}) <= b
  BY MinIs

\* What has been held still is.
LEMMA MoreBearsOut ==
  ASSUME NEW held, NEW more, held \subseteq more, NEW q, NEW v, Answers(held, q, v)
  PROVE  Answers(more, q, v)
  BY DEF Answers

\* Records that were all held, of which v is the first hit, bear v out; for no
\* hit they must reach the end of a file.
LEMMA HitBearsOut ==
  ASSUME NEW held, NEW q, NEW v, NEW records \in Seq(Records),
         \A i \in DOMAIN records : <<i, records[i]>> \in held,
         IsHit(records, q, v),
         v = Null => \E n \in Nat : <<0, n>> \in held /\ n <= Len(records)
  PROVE  Answers(held, q, v)
  <1>1. Len(records) \in Nat /\ DOMAIN records = 1 .. Len(records)
    OBVIOUS
  <1>2. \A n \in Nat :
          (\A j \in 1 .. n : j \in DOMAIN records /\ records[j] \notin Holding[q]) =>
            \A j \in 1 .. n : \E pair \in held : pair[1] = j /\ pair[2] \notin Holding[q]
    <2> SUFFICES ASSUME NEW j \in DOMAIN records, records[j] \notin Holding[q]
                 PROVE  \E pair \in held : pair[1] = j /\ pair[2] \notin Holding[q]
      OBVIOUS
    <2> WITNESS <<j, records[j]>> \in held
    <2> QED
      OBVIOUS
  <1>3. CASE v = Null
    <2>1. PICK n \in Nat : <<0, n>> \in held /\ n <= Len(records)
      BY <1>3
    <2>2. \A j \in 1 .. n : \E pair \in held : pair[1] = j /\ pair[2] \notin Holding[q]
      BY <1>1, <1>2, <1>3, <2>1 DEF IsHit
    <2>3. n \in {pair[2] : pair \in {x \in held : x[1] = 0}}
      <3> DEFINE pair == <<0, n>>
      <3>1. pair \in held /\ pair[1] = 0 /\ pair[2] = n
        BY <2>1
      <3> QED
        BY <3>1
    <2> QED
      BY <1>3, <2>2, <2>3 DEF Answers
  <1>4. CASE v # Null
    <2>1. PICK i \in DOMAIN records :
            records[i] = v /\ \A j \in 1 .. i - 1 : records[j] \notin Holding[q]
      BY <1>4 DEF IsHit
    <2>2. \A j \in 1 .. i - 1 : \E pair \in held : pair[1] = j /\ pair[2] \notin Holding[q]
      BY <1>1, <1>2, <2>1
    <2> DEFINE pair == <<i, records[i]>>
    <2>3. pair \in held /\ pair[1] = i /\ pair[2] = v /\ i # 0
      BY <1>1, <2>1
    <2> HIDE DEF pair
    <2> QED
      BY <1>4, <2>2, <2>3 DEF Answers
  <1> QED
    BY <1>3, <1>4

\* A step of one search, which leaves the files as they are.
LEMMA OneSearch ==
  ASSUME SearchInv, NEW p \in Procs, NEW c, NEW held,
         UNCHANGED <<scene, content>>,
         call' = [call EXCEPT ![p] = c], seen' = [seen EXCEPT ![p] = held],
         CallOK(c, held, content),
         entries' = [f \in Files |-> entries'[f]],
         \A f \in Files : entries'[f] \in {entries[f], Null} \/ IsEntry(entries'[f])
  PROVE  SearchInv'
  <1>1. /\ call' = [q \in Procs |-> call'[q]] /\ seen' = [q \in Procs |-> seen'[q]]
        /\ call'[p] = c /\ seen'[p] = held
        /\ \A q \in Procs \ {p} : call'[q] = call[q] /\ seen'[q] = seen[q]
    BY DEF SearchInv
  <1>2. \A q \in Procs : CallOK(call'[q], seen'[q], content')
    BY <1>1 DEF SearchInv
  <1>3. \A f \in Files : entries'[f] = Null \/ IsEntry(entries'[f])
    BY DEF SearchInv
  <1> QED
    BY <1>1, <1>2, <1>3 DEF SearchInv

\* The same for a step that only reads.
LEMMA OneReads ==
  ASSUME SearchInv, NEW p \in Procs, NEW c, Reads(p, c), CallOK(c, seen[p], content)
  PROVE  SearchInv'
  <1>1. /\ UNCHANGED <<scene, content, entries, seen>>
        /\ call' = [call EXCEPT ![p] = c]
    BY DEF Reads, Goes
  <1>2. seen' = [seen EXCEPT ![p] = seen[p]]
    BY <1>1 DEF SearchInv
  <1>3. entries' = [f \in Files |-> entries'[f]] /\ \A f \in Files : entries'[f] = entries[f]
    BY <1>1 DEF SearchInv
  <1> HIDE DEF SearchInv
  <1> QED
    BY <1>1, <1>2, <1>3, OneSearch

\* Where a search is.
LEMMA SearchIsAt ==
  ASSUME SearchInv, NEW p \in Procs
  PROVE  /\ CallOK(call[p], seen[p], content) /\ IsCall(call[p])
         /\ call[p].todo # <<>> =>
              /\ FileOf(p) \in Files /\ Tail(call[p].todo) \in Seq(Files)
              /\ content[FileOf(p)] \in Seq(Records)
         /\ IsAt(p) => call[p].todo # <<>> /\ Holds(content[FileOf(p)]) \subseteq seen[p]
  <1>1. CallOK(call[p], seen[p], content)
    BY DEF SearchInv
  <1>2. IsCall(call[p])
    BY <1>1 DEF CallOK
  <1>3. IsAt(p) => call[p].todo # <<>> /\ Holds(content[FileOf(p)]) \subseteq seen[p]
    BY <1>1 DEF CallOK, KnowsFile, IsAt, FileOf
  <1>4. call[p].todo # <<>> =>
          /\ FileOf(p) \in Files /\ Tail(call[p].todo) \in Seq(Files)
    BY <1>2 DEF IsCall, FileOf
  <1> QED
    BY <1>1, <1>2, <1>3, <1>4 DEF SearchInv

LEMMA IdleOK ==
  ASSUME NEW held
  PROVE  CallOK(Idle, held, content)
  <1>1. IsCall(Idle)
    BY DEF IsCall, Idle, StepNames
  <1> QED
    BY <1>1 DEF CallOK, KnowsFile, ReadIsHeld, EntryServes, AnswerStands, Idle, SavingSteps

\* A search about to open its next file.
LEMMA ToOpenOK ==
  ASSUME NEW q \in Queries, NEW todo \in Seq(Files), NEW held
  PROVE  CallOK([Idle EXCEPT !.step = "next", !.query = q, !.todo = todo], held, content)
  <1> DEFINE c == [Idle EXCEPT !.step = "next", !.query = q, !.todo = todo]
  <1>1. /\ DOMAIN c = DOMAIN Idle
        /\ c.step = "next" /\ c.query = q /\ c.todo = todo /\ c.read = <<>>
    BY DEF Idle
  <1> HIDE DEF c
  <1>2. IsCall(c)
    BY <1>1 DEF IsCall, StepNames
  <1>3. CallOK(c, held, content)
    BY <1>1, <1>2 DEF CallOK, KnowsFile, ReadIsHeld, EntryServes, AnswerStands, SavingSteps
  <1> QED
    BY <1>3 DEF c

LEMMA BeginSearch ==
  ASSUME SearchInv, NEW p \in Procs, Begin(p)
  PROVE  SearchInv'
  <1>1. scene \in SceneType
    BY ScenesType DEF SearchInv
  <1>2. PICK s \in scene.about, q \in scene.asks :
          call' = [call EXCEPT ![p] = [Idle EXCEPT !.step = "next", !.query = q,
                                                   !.todo = PathsOf(s)]]
    BY DEF Begin
  <1>3. s \in Sessions /\ q \in Queries
    BY <1>1, <1>2 DEF SceneType
  <1> DEFINE c == [Idle EXCEPT !.step = "next", !.query = q, !.todo = PathsOf(s)]
  <1>4. CallOK(c, seen[p], content)
    BY <1>3, PathsAreFiles, ToOpenOK
  <1>5. UNCHANGED <<scene, content, entries, seen>>
    BY DEF Begin
  <1>6. seen' = [seen EXCEPT ![p] = seen[p]]
    BY <1>5 DEF SearchInv
  <1>7. entries' = [f \in Files |-> entries'[f]] /\ \A f \in Files : entries'[f] = entries[f]
    BY <1>5 DEF SearchInv
  <1> HIDE DEF c
  <1>8. call' = [call EXCEPT ![p] = c]
    BY <1>2 DEF c
  <1> QED
    BY <1>4, <1>5, <1>6, <1>7, <1>8, OneSearch

LEMMA NextFileSearch ==
  ASSUME SearchInv, NEW p \in Procs, NextFile(p)
  PROVE  SearchInv'
  <1> DEFINE c == call[p]
  <1>1. c.step = "next" /\ CallOK(c, seen[p], content) /\ IsCall(c)
    BY SearchIsAt DEF NextFile
  <1>2. c.query \in Queries /\ c.read = <<>>
    BY <1>1 DEF IsCall, CallOK, ReadIsHeld
  <1>3. CASE c.todo = <<>>
    <2>1. Reads(p, Idle)
      BY <1>3 DEF NextFile
    <2> QED
      BY <2>1, IdleOK, OneReads
  <1>4. CASE c.todo # <<>> /\ Len(content[FileOf(p)]) > MaxFileSize
    <2> DEFINE d == [c EXCEPT !.todo = Tail(@)]
    <2>1. Reads(p, d)
      BY <1>4 DEF NextFile
    <2>2. /\ DOMAIN d = DOMAIN Idle
          /\ d.step = "next" /\ d.query = c.query /\ d.todo = Tail(c.todo) /\ d.read = <<>>
      BY <1>1, <1>2 DEF IsCall, Idle
    <2>3. Tail(c.todo) \in Seq(Files)
      BY <1>4, SearchIsAt
    <2> HIDE DEF d, c
    <2>4. IsCall(d)
      BY <1>2, <2>2, <2>3 DEF IsCall, StepNames
    <2>5. CallOK(d, seen[p], content)
      BY <2>2, <2>4 DEF CallOK, KnowsFile, ReadIsHeld, EntryServes, AnswerStands, SavingSteps
    <2> QED
      BY <2>1, <2>5, OneReads
  <1>5. CASE c.todo # <<>> /\ ~(Len(content[FileOf(p)]) > MaxFileSize)
    <2> DEFINE f == FileOf(p)
               held == Holds(content[f])
               d == [c EXCEPT !.step = "entry", !.stamp = Fingerprint(f)]
    <2>1. Goes(p, d) /\ seen' = [seen EXCEPT ![p] = held] /\ UNCHANGED entries
      BY <1>5 DEF NextFile
    <2>2. /\ DOMAIN d = DOMAIN Idle
          /\ d.step = "entry" /\ d.query = c.query /\ d.todo = c.todo /\ d.read = <<>>
      BY <1>1, <1>2 DEF IsCall, Idle
    <2>3. IsCall(d)
      BY <1>1, <1>2, <2>2 DEF IsCall, StepNames
    <2>4. CallOK(d, held, content)
      BY <1>5, <2>2, <2>3
      DEF CallOK, KnowsFile, ReadIsHeld, EntryServes, AnswerStands, SavingSteps, FileOf
    <2>5. UNCHANGED <<scene, content>> /\ call' = [call EXCEPT ![p] = d]
      BY <2>1 DEF Goes
    <2>6. entries' = [x \in Files |-> entries'[x]] /\ \A x \in Files : entries'[x] = entries[x]
      BY <2>1 DEF SearchInv
    <2> HIDE DEF d, held, f, c
    <2> QED
      BY <2>1, <2>4, <2>5, <2>6, OneSearch
  <1> QED
    BY <1>3, <1>4, <1>5

LEMMA ReadEntrySearch ==
  ASSUME SearchInv, NEW p \in Procs, ReadEntry(p)
  PROVE  SearchInv'
  <1> DEFINE c == call[p]
             e == entries[FileOf(p)]
             usable == e # Null /\ e.stamp = c.stamp /\ Settles(e, c.query)
             d == [c EXCEPT !.step = IF usable THEN "verify" ELSE "scan",
                            !.entry = IF usable THEN e ELSE Null]
  <1>1. c.step = "entry" /\ CallOK(c, seen[p], content) /\ IsCall(c) /\ Reads(p, d)
    BY SearchIsAt DEF ReadEntry
  <1>2. c.query \in Queries /\ c.read = <<>>
    BY <1>1 DEF IsCall, CallOK, ReadIsHeld
  <1>3. FileOf(p) \in Files /\ c.todo # <<>> /\ Holds(content[Head(c.todo)]) \subseteq seen[p]
    BY <1>1, SearchIsAt DEF IsAt, FileOf
  <1>4. usable => IsEntry(e) /\ Settles(e, c.query)
    BY <1>3 DEF SearchInv
  <1>5. /\ DOMAIN d = DOMAIN Idle
        /\ d.step = IF usable THEN "verify" ELSE "scan"
        /\ d.query = c.query /\ d.todo = c.todo /\ d.read = <<>>
        /\ usable => d.entry = e
    BY <1>1, <1>2 DEF IsCall, Idle
  <1> HIDE DEF d, usable, e
  <1>6. IsCall(d)
    BY <1>1, <1>2, <1>5 DEF IsCall, StepNames
  <1>7. CallOK(d, seen[p], content)
    BY <1>3, <1>4, <1>5, <1>6
    DEF CallOK, KnowsFile, ReadIsHeld, EntryServes, AnswerStands, SavingSteps
  <1> QED
    BY <1>1, <1>7, OneReads

LEMMA ConcatIs ==
  ASSUME NEW S, NEW s \in Seq(S), NEW t \in Seq(S)
  PROVE  /\ s \o t \in Seq(S) /\ DOMAIN (s \o t) = 1 .. Len(s) + Len(t)
         /\ DOMAIN s = 1 .. Len(s) /\ Len(s) \in Nat /\ Len(t) \in Nat
         /\ \A i \in 1 .. Len(s) : (s \o t)[i] = s[i]
         /\ \A i \in 1 .. Len(t) : (s \o t)[Len(s) + i] = t[i]
  OBVIOUS

\* A chunk, of a search that goes on as it was.
LEMMA ChunkSearch ==
  ASSUME SearchInv, NEW p \in Procs, NEW end \in Nat, call[p].step \in {"verify", "scan"},
         Chunk(p, end)
  PROVE  SearchInv'
  <1> DEFINE c == call[p]
             file == content[FileOf(p)]
             from == Len(c.read)
             upto == Min({end, Len(file)})
  <1>1. CallOK(c, seen[p], content) /\ IsCall(c) /\ IsAt(p) /\ c.todo # <<>>
        /\ file \in Seq(Records) /\ Holds(file) \subseteq seen[p]
    BY SearchIsAt DEF IsAt
  <1>2. PICK n \in 1 .. MaxChunk :
          /\ from + n <= upto
          /\ Reads(p, [c EXCEPT !.read = @ \o SubSeq(file, from + 1, from + n)])
    BY DEF Chunk
  <1> DEFINE more == SubSeq(file, from + 1, from + n)
             d == [c EXCEPT !.read = @ \o more]
  <1>3. c.read \in Seq(Records) /\ from \in Nat /\ Len(file) \in Nat /\ n \in Nat
    BY <1>1 DEF IsCall
  <1>4. from + n <= Len(file)
    <2>1. upto \in Nat /\ upto <= Len(file)
      BY <1>3, MinOfTwo
    <2> HIDE DEF upto
    <2> QED
      BY <1>2, <1>3, <2>1
  <1>5. /\ more \in Seq(Records) /\ Len(more) = n
        /\ \A i \in 1 .. n : more[i] = file[from + i]
    BY <1>1, <1>3, <1>4
  <1> DEFINE read == c.read \o more
  <1> HIDE DEF more, file, upto
  <1>6. /\ read \in Seq(Records) /\ DOMAIN read = 1 .. from + n
        /\ DOMAIN c.read = 1 .. from
        /\ \A i \in 1 .. from : read[i] = c.read[i]
        /\ \A i \in 1 .. n : read[from + i] = more[i]
    <2>1. /\ read \in Seq(Records) /\ DOMAIN read = 1 .. Len(c.read) + Len(more)
          /\ DOMAIN c.read = 1 .. Len(c.read)
          /\ \A i \in 1 .. Len(c.read) : read[i] = c.read[i]
          /\ \A i \in 1 .. Len(more) : read[Len(c.read) + i] = more[i]
      <3> DEFINE before == c.read
      <3>1. before \in Seq(Records) /\ more \in Seq(Records)
        BY <1>3, <1>5
      <3> HIDE DEF before
      <3>2. /\ before \o more \in Seq(Records)
            /\ DOMAIN (before \o more) = 1 .. Len(before) + Len(more)
            /\ DOMAIN before = 1 .. Len(before)
            /\ \A i \in 1 .. Len(before) : (before \o more)[i] = before[i]
            /\ \A i \in 1 .. Len(more) : (before \o more)[Len(before) + i] = more[i]
        BY ONLY <3>1, ConcatIs
      <3> QED
        BY <3>2 DEF before
    <2> HIDE DEF read
    <2> QED
      BY <1>5, <2>1
  <1>7. \A i \in DOMAIN read : <<i, read[i]>> \in seen[p]
    <2> HIDE DEF read, from
    <2> TAKE i \in DOMAIN read
    <2>1. CASE i \in 1 .. from
      <3>1. <<i, c.read[i]>> \in seen[p]
        BY <1>1, <1>6, <2>1 DEF CallOK, ReadIsHeld
      <3> QED
        BY <1>6, <2>1, <3>1
    <2>2. CASE i \in from + 1 .. from + n
      <3>1. i - from \in 1 .. n /\ i = from + (i - from) /\ i \in 1 .. Len(file)
        BY <1>3, <1>4, <2>2
      <3>2. read[i] = file[i]
        BY <1>5, <1>6, <3>1
      <3>3. <<i, file[i]>> \in Holds(file)
        BY <1>1, <3>1 DEF Holds
      <3> QED
        BY <1>1, <3>2, <3>3
    <2> QED
      BY <1>3, <1>6, <2>1, <2>2
  <1>8. /\ DOMAIN d = DOMAIN Idle
        /\ d.step = c.step /\ d.query = c.query /\ d.todo = c.todo /\ d.entry = c.entry
        /\ d.read = read
    BY <1>1 DEF IsCall, Idle
  <1>9. Reads(p, d)
    BY <1>2 DEF more, file
  <1> HIDE DEF d, read, from, c
  <1>10. IsCall(d)
    BY <1>1, <1>6, <1>8 DEF IsCall
  <1>11. c.step \in {"verify", "scan"} /\ d.step = c.step
    BY <1>8 DEF c
  <1>12. CallOK(d, seen[p], content)
    BY <1>1, <1>7, <1>8, <1>10, <1>11
    DEF CallOK, KnowsFile, ReadIsHeld, EntryServes, AnswerStands, SavingSteps
  <1> QED
    BY <1>9, <1>12, OneReads

\* A search that has its answer, and an entry to save unless it replies.
LEMMA AnsweredOK ==
  ASSUME NEW c, NEW held, CallOK(c, held, content), c.step \notin {"idle", "next"},
         NEW d, DOMAIN d = DOMAIN Idle,
         d.step \in {"lock", "reply"} \union SavingSteps,
         d.query = c.query, d.todo = c.todo, d.read \in Seq(Records),
         d.step # "reply" => IsEntry(d.entry),
         Answers(held, d.query, d.answer)
  PROVE  CallOK(d, held, content)
  <1>1. IsCall(d)
    BY DEF CallOK, IsCall, StepNames
  <1>2. KnowsFile(d, held, content)
    BY DEF CallOK, KnowsFile
  <1> QED
    BY <1>1, <1>2 DEF CallOK, ReadIsHeld, EntryServes, AnswerStands, SavingSteps

\* A scan from the start.
LEMMA AfreshOK ==
  ASSUME NEW c, NEW held, CallOK(c, held, content), c.step \notin {"idle", "next"},
         NEW d, DOMAIN d = DOMAIN Idle,
         d.step = "scan", d.query = c.query, d.todo = c.todo, d.read = <<>>
  PROVE  CallOK(d, held, content)
  <1>1. IsCall(d)
    BY DEF CallOK, IsCall, StepNames
  <1>2. KnowsFile(d, held, content)
    BY DEF CallOK, KnowsFile
  <1> QED
    BY <1>1, <1>2 DEF CallOK, ReadIsHeld, EntryServes, AnswerStands, SavingSteps

\* What an entry answers is what its source does, when it can settle the query.
LEMMA EntryHit ==
  ASSUME NEW e, IsEntry(e), NEW q \in Queries, Settles(e, q)
  PROVE  /\ IsHit(e.source, q, Snippet(e.texts, q))
         /\ Snippet(e.texts, q) = Null => e.complete
  <1>1. CASE e.complete
    BY <1>1, TextsHit DEF IsEntry
  <1>2. CASE ~e.complete
    <2>1. PICK k \in 1 .. Len(e.source) : e.texts = TextsOf(SubSeq(e.source, 1, k))
      BY <1>2 DEF IsEntry
    <2>2. e.source \in Seq(Records) /\ SubSeq(e.source, 1, k) \in Seq(Records)
      BY PrefixIs DEF IsEntry
    <2>3. Snippet(e.texts, q) # Null
      BY <1>2 DEF Settles
    <2>4. IsHit(SubSeq(e.source, 1, k), q, Snippet(e.texts, q))
      BY <2>1, <2>2, TextsHit
    <2> QED
      BY <2>2, <2>3, <2>4, PrefixHit
  <1> QED
    BY <1>1, <1>2

\* The end of a file that has been read as far as it goes.
LEMMA ReadToEnd ==
  ASSUME SearchInv, NEW p \in Procs, IsAt(p), AtEnd(p, Len(content[FileOf(p)]))
  PROVE  \E n \in Nat : <<0, n>> \in seen[p] /\ n <= Len(call[p].read)
  <1> DEFINE n == Len(content[FileOf(p)])
  <1>1. n \in Nat /\ Holds(content[FileOf(p)]) \subseteq seen[p] /\ IsCall(call[p])
    BY SearchIsAt
  <1>2. Len(call[p].read) \in Nat
    BY <1>1 DEF IsCall
  <1>3. n <= Len(call[p].read)
    <2>1. Min({n, n}) = n
      BY <1>1, MinOfTwo
    <2> QED
      BY <2>1 DEF AtEnd
  <1>4. <<0, n>> \in seen[p]
    BY <1>1 DEF Holds
  <1> QED
    BY <1>1, <1>3, <1>4

LEMMA VerifyEndSearch ==
  ASSUME SearchInv, NEW p \in Procs, VerifyEnd(p)
  PROVE  SearchInv'
  <1> DEFINE c == call[p]
             v == Snippet(c.entry.texts, c.query)
  <1>1. c.step = "verify" /\ CallOK(c, seen[p], content) /\ IsCall(c) /\ IsAt(p)
    BY SearchIsAt DEF VerifyEnd, IsAt
  <1>2. c.query \in Queries /\ c.read \in Seq(Records) /\ DOMAIN c = DOMAIN Idle
    BY <1>1 DEF IsCall
  <1>3. CASE SourceMatches(p)
    <2> DEFINE d == [c EXCEPT !.step = "reply", !.answer = v]
    <2>1. Reads(p, d)
      BY <1>3 DEF VerifyEnd
    <2>2. /\ DOMAIN d = DOMAIN Idle /\ d.step = "reply" /\ d.query = c.query
          /\ d.todo = c.todo /\ d.read = c.read /\ d.answer = v
      BY <1>2 DEF Idle
    <2>3. IsEntry(c.entry) /\ Settles(c.entry, c.query)
      BY <1>1 DEF CallOK, EntryServes
    <2>4. IsHit(c.read, c.query, v) /\ (v = Null => c.entry.complete)
      BY <1>2, <1>3, <2>3, EntryHit DEF SourceMatches
    <2>5. v = Null => \E n \in Nat : <<0, n>> \in seen[p] /\ n <= Len(c.read)
      <3> SUFFICES ASSUME v = Null
                   PROVE  AtEnd(p, Len(content[FileOf(p)]))
        BY <1>1, ReadToEnd
      <3> QED
        BY <2>4 DEF VerifyEnd, EndOf
    <2>6. \A i \in DOMAIN c.read : <<i, c.read[i]>> \in seen[p]
      BY <1>1 DEF CallOK, ReadIsHeld
    <2> HIDE DEF v, c, d
    <2>7. Answers(seen[p], c.query, v)
      BY <1>2, <2>4, <2>5, <2>6, HitBearsOut
    <2>8. CallOK(d, seen[p], content)
      BY <1>1, <1>2, <2>2, <2>7, AnsweredOK
    <2> QED
      BY <2>1, <2>8, OneReads
  <1>4. CASE ~SourceMatches(p)
    <2> DEFINE d == [c EXCEPT !.step = "scan", !.read = <<>>, !.entry = Null]
    <2>1. Reads(p, d)
      BY <1>4 DEF VerifyEnd
    <2>2. /\ DOMAIN d = DOMAIN Idle /\ d.step = "scan" /\ d.query = c.query
          /\ d.todo = c.todo /\ d.read = <<>>
      BY <1>2 DEF Idle
    <2> HIDE DEF c, d
    <2>3. CallOK(d, seen[p], content)
      BY <1>1, <2>2, AfreshOK
    <2> QED
      BY <2>1, <2>3, OneReads
  <1> QED
    BY <1>3, <1>4

LEMMA ScanEndSearch ==
  ASSUME SearchInv, NEW p \in Procs, ScanEnd(p)
  PROVE  SearchInv'
  <1> DEFINE c == call[p]
             k == FirstHit(c.read, c.query)
             v == Snippet(c.read, c.query)
             texts == TextsOf(IF Found(p) THEN SubSeq(c.read, 1, k) ELSE c.read)
             e == [stamp |-> c.stamp, texts |-> texts, complete |-> ~Found(p),
                   source |-> c.read]
             save == Len(texts) <= MaxTexts /\ Fingerprint(FileOf(p)) = c.stamp
             d == [c EXCEPT !.step = IF save THEN "lock" ELSE "reply",
                            !.entry = IF save THEN e ELSE Null, !.answer = v]
  <1>1. c.step = "scan" /\ CallOK(c, seen[p], content) /\ IsCall(c) /\ IsAt(p) /\ Reads(p, d)
    BY SearchIsAt DEF ScanEnd, IsAt
  <1>2. c.query \in Queries /\ c.read \in Seq(Records) /\ DOMAIN c = DOMAIN Idle
    BY <1>1 DEF IsCall
  <1>3. /\ IsHit(c.read, c.query, v)
        /\ Found(p) <=> v # Null
        /\ Found(p) => k \in 1 .. Len(c.read)
    BY <1>2, SnippetIsHit DEF Found
  <1>4. v = Null => \E n \in Nat : <<0, n>> \in seen[p] /\ n <= Len(c.read)
    BY <1>1, <1>3, ReadToEnd DEF ScanEnd
  <1>5. \A i \in DOMAIN c.read : <<i, c.read[i]>> \in seen[p]
    BY <1>1 DEF CallOK, ReadIsHeld
  <1>6. IsEntry(e)
    <2>1. /\ e.source = c.read /\ e.complete = ~Found(p) /\ e.texts = texts
          /\ e.complete \in BOOLEAN
      BY DEF Found
    <2> HIDE DEF e
    <2>2. IF e.complete THEN e.texts = TextsOf(e.source)
          ELSE \E j \in 1 .. Len(e.source) : e.texts = TextsOf(SubSeq(e.source, 1, j))
      BY <1>3, <2>1
    <2> QED
      BY <1>2, <2>1, <2>2 DEF IsEntry
  <1>7. /\ DOMAIN d = DOMAIN Idle /\ d.step = IF save THEN "lock" ELSE "reply"
        /\ d.query = c.query /\ d.todo = c.todo /\ d.read = c.read /\ d.answer = v
        /\ save => d.entry = e
    BY <1>2 DEF Idle
  <1> HIDE DEF c, k, v, texts, e, save, d
  <1>8. Answers(seen[p], c.query, v)
    BY <1>2, <1>3, <1>4, <1>5, HitBearsOut
  <1>9. CallOK(d, seen[p], content)
    BY <1>1, <1>2, <1>6, <1>7, <1>8, AnsweredOK
  <1> QED
    BY <1>1, <1>9, OneReads

LEMMA ChunksSearch ==
  ASSUME SearchInv, NEW p \in Procs, VerifyChunk(p) \/ ScanChunk(p)
  PROVE  SearchInv'
  <1>1. IsAt(p)
    BY DEF VerifyChunk, ScanChunk, IsAt
  <1>2. Len(content[FileOf(p)]) \in Nat
    BY <1>1, SearchIsAt
  <1>3. CASE VerifyChunk(p)
    <2>1. IsEntry(call[p].entry)
      BY <1>3, SearchIsAt DEF CallOK, EntryServes, VerifyChunk
    <2>2. EndOf(p) \in Nat
      BY <1>2, <2>1 DEF EndOf, IsEntry
    <2> QED
      BY <1>3, <2>2, ChunkSearch DEF VerifyChunk
  <1>4. CASE ScanChunk(p)
    BY <1>2, <1>4, ChunkSearch DEF ScanChunk
  <1> QED
    BY <1>3, <1>4

LEMMA ReplySearch ==
  ASSUME SearchInv, NEW p \in Procs, Reply(p)
  PROVE  SearchInv'
  <1> DEFINE c == call[p]
             d == IF c.answer # Null THEN Idle
                  ELSE [Idle EXCEPT !.step = "next", !.query = c.query, !.todo = Tail(c.todo)]
  <1>1. /\ c.step = "reply" /\ call' = [call EXCEPT ![p] = d]
        /\ seen' = [seen EXCEPT ![p] = {}]
        /\ UNCHANGED <<scene, content, entries>>
    BY DEF Reply
  <1>2. c.query \in Queries /\ Tail(c.todo) \in Seq(Files)
    BY <1>1, SearchIsAt DEF IsCall, IsAt
  <1>3. CallOK(d, {}, content)
    <2>1. CASE c.answer # Null
      BY <2>1, IdleOK
    <2>2. CASE ~(c.answer # Null)
      BY <1>2, <2>2, ToOpenOK
    <2> QED
      BY <2>1, <2>2
  <1>4. entries' = [f \in Files |-> entries'[f]] /\ \A f \in Files : entries'[f] = entries[f]
    BY <1>1 DEF SearchInv
  <1> HIDE DEF d
  <1> QED
    BY <1>1, <1>3, <1>4, OneSearch

\* A step of a search that saves its entry or gives that up.
LEMMA SaverOK ==
  ASSUME SearchInv, NEW p \in Procs, call[p].step \in {"lock"} \union SavingSteps,
         NEW step \in {"reply"} \union SavingSteps
  PROVE  CallOK([call[p] EXCEPT !.step = step], seen[p], content)
  <1> DEFINE c == call[p]
             d == [c EXCEPT !.step = step]
  <1>1. CallOK(c, seen[p], content) /\ IsCall(c)
    BY SearchIsAt
  <1>2. IsEntry(c.entry) /\ Answers(seen[p], c.query, c.answer)
    BY <1>1 DEF CallOK, EntryServes, AnswerStands
  <1>3. DOMAIN c = DOMAIN Idle /\ c.read \in Seq(Records)
    BY <1>1 DEF IsCall
  <1>4. /\ DOMAIN d = DOMAIN Idle /\ d.step = step /\ d.query = c.query
        /\ d.todo = c.todo /\ d.read = c.read /\ d.answer = c.answer /\ d.entry = c.entry
    BY <1>3 DEF Idle
  <1>5. c.step \notin {"idle", "next"} /\ d.step \in {"lock", "reply"} \union SavingSteps
    BY <1>4 DEF SavingSteps
  <1> HIDE DEF c, d
  <1>6. CallOK(d, seen[p], content)
    BY <1>1, <1>2, <1>3, <1>4, <1>5, AnsweredOK
  <1> QED
    BY <1>6 DEF c, d

LEMMA SavingSearch ==
  ASSUME SearchInv, NEW p \in Procs,
         TakeLock(p) \/ Evict(p) \/ WriteEntry(p) \/ Publish(p) \/ PublishFails(p)
  PROVE  SearchInv'
  <1> DEFINE Becomes(step) == call' = [call EXCEPT ![p] = [call[p] EXCEPT !.step = step]]
  <1>1. UNCHANGED <<scene, content, seen>>
    BY DEF TakeLock, Evict, WriteEntry, Publish, PublishFails, Reads, Goes
  <1>2. call[p].step \in {"lock"} \union SavingSteps
    BY DEF TakeLock, Evict, WriteEntry, Publish, PublishFails, SavingSteps
  <1>3. seen' = [seen EXCEPT ![p] = seen[p]]
    BY <1>1 DEF SearchInv
  <1>4. CASE TakeLock(p)
    <2>1. PICK step \in {"reply", "evict"} : Becomes(step)
      BY <1>4 DEF TakeLock, Reads, Goes
    <2>2. UNCHANGED entries
      BY <1>4 DEF TakeLock, Reads, Goes
    <2>3. entries' = [f \in Files |-> entries'[f]] /\ \A f \in Files : entries'[f] = entries[f]
      BY <2>2 DEF SearchInv
    <2>4. CallOK([call[p] EXCEPT !.step = step], seen[p], content)
      BY <1>2, <2>1, SaverOK DEF SavingSteps
    <2> DEFINE d == [call[p] EXCEPT !.step = step]
    <2>5. call' = [call EXCEPT ![p] = d] /\ CallOK(d, seen[p], content)
      BY <2>1, <2>4
    <2> HIDE DEF d
    <2> QED
      BY <1>1, <1>3, <2>3, <2>5, OneSearch
  <1>5. CASE Publish(p) \/ PublishFails(p)
    <2>1. Becomes("reply") /\ UNCHANGED entries
      BY <1>5 DEF Publish, PublishFails, Goes
    <2>2. entries' = [f \in Files |-> entries'[f]] /\ \A f \in Files : entries'[f] = entries[f]
      BY <2>1 DEF SearchInv
    <2> QED
      BY <1>1, <1>2, <1>3, <2>1, <2>2, SaverOK, OneSearch DEF SavingSteps
  <1>6. CASE WriteEntry(p)
    <2>1. Becomes("publish") /\ entries' = [entries EXCEPT ![FileOf(p)] = call[p].entry]
      BY <1>6 DEF WriteEntry, Goes
    <2>2. IsEntry(call[p].entry)
      BY <1>2, SearchIsAt DEF CallOK, EntryServes
    <2>3. /\ entries' = [f \in Files |-> entries'[f]]
          /\ \A f \in Files : entries'[f] \in {entries[f], Null} \/ IsEntry(entries'[f])
      BY <2>1, <2>2 DEF SearchInv
    <2>4. CallOK([call[p] EXCEPT !.step = "publish"], seen[p], content)
      BY <1>2, SaverOK DEF SavingSteps
    <2> QED
      BY <1>1, <1>3, <2>1, <2>3, <2>4, OneSearch
  <1>7. CASE Evict(p)
    <2>1. PICK f \in budget[p].files :
            IF entries[f] # Null
            THEN entries' = [entries EXCEPT ![f] = Null] /\ UNCHANGED call
            ELSE Becomes("reply") /\ UNCHANGED entries
      BY <1>7 DEF Evict
    <2>2. CASE entries[f] # Null
      <3>1. call' = [call EXCEPT ![p] = call[p]]
        BY <2>1, <2>2 DEF SearchInv
      <3>2. /\ entries' = [x \in Files |-> entries'[x]]
            /\ \A x \in Files : entries'[x] \in {entries[x], Null}
        BY <2>1, <2>2 DEF SearchInv
      <3> QED
        BY <1>1, <1>3, <3>1, <3>2, SearchIsAt, OneSearch
    <2>3. CASE ~(entries[f] # Null)
      <3>1. Becomes("reply")
            /\ entries' = [x \in Files |-> entries'[x]] /\ \A x \in Files : entries'[x] = entries[x]
        BY <2>1, <2>3 DEF SearchInv
      <3> QED
        BY <1>1, <1>2, <1>3, <3>1, SaverOK, OneSearch DEF SavingSteps
    <2> QED
      BY <2>2, <2>3
  <1> QED
    BY <1>4, <1>5, <1>6, <1>7

LEMMA ExitSearch ==
  ASSUME SearchInv, NEW p \in Procs, Exit(p)
  PROVE  SearchInv'
  <1>1. /\ call' = [call EXCEPT ![p] = Idle] /\ seen' = [seen EXCEPT ![p] = {}]
        /\ UNCHANGED <<scene, content, entries>>
    BY DEF Exit
  <1>2. entries' = [f \in Files |-> entries'[f]] /\ \A f \in Files : entries'[f] = entries[f]
    BY <1>1 DEF SearchInv
  <1> QED
    BY <1>1, <1>2, IdleOK, OneSearch

\* A file changes under the searches that are at it.
LEMMA EditSearch ==
  ASSUME SearchInv, NEW f \in Files, EditFile(f)
  PROVE  SearchInv'
  <1>1. PICK records \in Seq(Records) : Edit(f, records)
    <2>1. content[f] \in Seq(Records)
      BY DEF SearchInv
    <2>2. \/ \E r \in Records : Edit(f, Append(content[f], r))
          \/ \E i \in DOMAIN content[f], r \in Records : Edit(f, [content[f] EXCEPT ![i] = r])
          \/ \E n \in 1 .. Len(content[f]) : Edit(f, SubSeq(content[f], 1, n - 1))
      BY DEF EditFile
    <2>3. \A r \in Records : Append(content[f], r) \in Seq(Records)
      BY <2>1
    <2>4. \A i \in DOMAIN content[f], r \in Records :
            [content[f] EXCEPT ![i] = r] \in Seq(Records)
      BY <2>1
    <2>5. \A n \in 1 .. Len(content[f]) : SubSeq(content[f], 1, n - 1) \in Seq(Records)
      BY <2>1
    <2> QED
      BY <2>2, <2>3, <2>4, <2>5
  <1>2. /\ content' = [content EXCEPT ![f] = records]
        /\ seen' = [p \in Procs |->
             IF IsAt(p) /\ FileOf(p) = f THEN seen[p] \union Holds(records) ELSE seen[p]]
        /\ UNCHANGED <<scene, entries, call>>
    BY <1>1 DEF Edit
  <1>3. content' \in [Files -> Seq(Records)] /\ content'[f] = records
        /\ \A x \in Files \ {f} : content'[x] = content[x]
    BY <1>2 DEF SearchInv
  <1>4. ASSUME NEW p \in Procs
        PROVE  CallOK(call'[p], seen'[p], content')
    <2> DEFINE c == call[p]
    <2>1. CallOK(c, seen[p], content) /\ IsCall(c) /\ call'[p] = c
      BY <1>2, SearchIsAt
    <2>2. seen[p] \subseteq seen'[p]
      BY <1>2
    <2>3. KnowsFile(c, seen'[p], content')
      <3> SUFFICES ASSUME c.step \notin {"idle", "next"}
                   PROVE  c.todo # <<>> /\ Holds(content'[Head(c.todo)]) \subseteq seen'[p]
        BY DEF KnowsFile
      <3>1. IsAt(p) /\ c.todo # <<>> /\ FileOf(p) = Head(c.todo) /\ FileOf(p) \in Files
            /\ Holds(content[FileOf(p)]) \subseteq seen[p]
        BY SearchIsAt DEF IsAt, FileOf
      <3> QED
        BY <1>2, <1>3, <2>2, <3>1
    <2>4. ReadIsHeld(c, seen'[p])
      BY <2>1, <2>2 DEF CallOK, ReadIsHeld
    <2>5. AnswerStands(c, seen'[p])
      BY <2>1, <2>2, MoreBearsOut DEF CallOK, AnswerStands
    <2> QED
      BY <2>1, <2>3, <2>4, <2>5 DEF CallOK
  <1>5. seen' = [p \in Procs |-> seen'[p]]
    BY <1>2
  <1> HIDE DEF CallOK
  <1>6. \A x \in Files : entries'[x] = Null \/ IsEntry(entries'[x])
    BY <1>2 DEF SearchInv
  <1>7. entries' = [x \in Files |-> entries'[x]] /\ call' = [p \in Procs |-> call'[p]]
    BY <1>2 DEF SearchInv
  <1> QED
    BY <1>2, <1>3, <1>4, <1>5, <1>6, <1>7 DEF SearchInv

LEMMA InitSearch == Init => SearchInv
  <1> SUFFICES ASSUME Init
               PROVE  SearchInv
    OBVIOUS
  <1>1. scene \in Scenes /\ content = scene.start /\ scene \in SceneType
    BY ScenesType DEF Init
  <1>2. content \in [Files -> Seq(Records)]
    BY <1>1 DEF SceneType
  <1>3. \A p \in Procs : CallOK(call[p], seen[p], content)
    BY IdleOK DEF Init
  <1>4. /\ entries = [f \in Files |-> entries[f]] /\ \A f \in Files : entries[f] = Null
        /\ call = [p \in Procs |-> call[p]] /\ seen = [p \in Procs |-> seen[p]]
    BY DEF Init
  <1> QED
    BY <1>1, <1>2, <1>3, <1>4 DEF SearchInv

LEMMA StepSearch == SearchInv /\ [Next]_vars => SearchInv'
  <1> SUFFICES ASSUME SearchInv, [Next]_vars
               PROVE  SearchInv'
    OBVIOUS
  <1>1. scene.procs \subseteq Procs /\ scene.written \subseteq Files
    BY ScenesType DEF SearchInv, SceneType
  <1>2. ASSUME NEW p \in scene.procs, Begin(p) \/ Step(p) \/ PublishFails(p) \/ Exit(p)
        PROVE  SearchInv'
    <2>1. p \in Procs
      BY <1>1
    <2> QED
      BY <1>2, <2>1, BeginSearch, NextFileSearch, ReadEntrySearch, ChunksSearch,
         VerifyEndSearch, ScanEndSearch, SavingSearch, ReplySearch,
         ExitSearch DEF Step
  <1>3. ASSUME NEW f \in scene.written, EditFile(f)
        PROVE  SearchInv'
    BY <1>1, <1>3, EditSearch
  <1>4. ASSUME UNCHANGED <<scene, content, entries, call, seen>>
        PROVE  SearchInv'
    BY <1>4 DEF SearchInv
  <1>5. RemoveLock => UNCHANGED <<scene, content, entries, call, seen>>
    BY DEF RemoveLock
  <1>6. UNCHANGED vars => UNCHANGED <<scene, content, entries, call, seen>>
    BY DEF vars
  <1> QED
    BY <1>2, <1>3, <1>4, <1>5, <1>6 DEF Next

\* A search answers what reading the file from one end to the other could have,
\* whatever the cache holds, whoever filled it, and however the file changed.
THEOREM SearchAnswersAsSource == Spec => []AnswersAsSource
  <1>1. SearchInv => AnswersAsSource
    BY DEF SearchInv, CallOK, AnswerStands, AnswersAsSource
  <1> QED
    BY <1>1, InitSearch, StepSearch, PTL DEF Spec

-----------------------------------------------------------------------------
(* The budget of the cache.                                                *)

Cached == {f \in Files : entries[f] # Null}
Saving(p) == call[p].step \in SavingSteps
Publishing == \E p \in Procs : call[p].step = "publish"
\* What p remembers of the directory, while it holds.
Current(p) == budget[p].known /\ budget[p].stamp = generation
\* What the cache holds that p does not know of.
Unknown(p) == Cached \ budget[p].files

BudgetTypes ==
  /\ scene \in Scenes
  /\ entries = [f \in Files |-> entries[f]]
  /\ generation \in Nat /\ torn \in Nat
  /\ lock \in Procs \union {Null}
  /\ call = [p \in Procs |-> call[p]]
  /\ budget = [p \in Procs |-> budget[p]]
  /\ \A p \in Procs :
       /\ DOMAIN call[p] = DOMAIN Idle /\ DOMAIN budget[p] = DOMAIN NoBudget
       /\ budget[p].files \in SUBSET Files
       /\ budget[p].known => budget[p].stamp \in Nat /\ budget[p].stamp <= generation

\* Who writes holds the lock.
WritersLock == \A p \in Procs : Saving(p) => lock = p
\* All that is there has been counted, but for what was left by writers who were
\* killed, for the entry of the one who is writing, and for the one to be written.
AllCounted ==
  \A p \in Procs :
    IF Saving(p) THEN Cardinality(Unknown(p) \ {FileOf(p)}) <= torn
    ELSE Current(p) => Cardinality(Unknown(p)) <= torn + (IF Publishing THEN 1 ELSE 0)

BudgetInv == BudgetTypes /\ WritersLock /\ AllCounted /\ CacheWithinBudget

LEMMA FilesAreCounted ==
  ASSUME NEW S \in SUBSET Files
  PROVE  /\ IsFiniteSet(S) /\ Cardinality(S) \in Nat
         /\ \A T \in SUBSET S : Cardinality(T) <= Cardinality(S)
         /\ \A f : Cardinality(S \ {f}) <= Cardinality(S)
         /\ \A f : Cardinality(S) <= Cardinality(S \ {f}) + 1
  <1>1. IsFiniteSet(S)
    BY FilesType, FS_Subset
  <1>2. Cardinality(S) \in Nat
    BY <1>1, FS_CardinalityType
  <1>3. \A T \in SUBSET S : Cardinality(T) <= Cardinality(S)
    BY <1>1, FS_Subset
  <1>4. ASSUME NEW f
        PROVE  Cardinality(S \ {f}) <= Cardinality(S) /\ Cardinality(S) <= Cardinality(S \ {f}) + 1
    BY <1>1, <1>2, FS_RemoveElement
  <1> QED
    BY <1>1, <1>2, <1>3, <1>4

\* A step that writes nothing, takes or gives up no lock, and makes nobody a
\* writer or a writer something else.
LEMMA NoSaving ==
  ASSUME BudgetInv, UNCHANGED <<scene, entries, generation, lock, torn>>,
         call' = [p \in Procs |-> call'[p]], budget' = [p \in Procs |-> budget'[p]],
         NEW P, \A p \in Procs : ~(p \in P) => call'[p] = call[p] /\ budget'[p] = budget[p],
         \A p \in Procs : p \in P =>
           /\ DOMAIN call'[p] = DOMAIN Idle /\ ~Saving(p) /\ ~Saving(p)'
           /\ budget'[p] \in {budget[p], NoBudget}
  PROVE  BudgetInv'
  <1>1. \A p \in Procs : Saving(p)' <=> Saving(p)
    BY DEF Saving
  <1>2. Publishing' <=> Publishing
    BY DEF Publishing, Saving, SavingSteps
  <1>3. DOMAIN NoBudget = DOMAIN NoBudget /\ NoBudget.files = {} /\ ~NoBudget.known
    BY DEF NoBudget
  <1>4. \A p \in Procs :
          /\ budget'[p].known => budget'[p] = budget[p]
          /\ budget'[p].files \in SUBSET Files /\ DOMAIN budget'[p] = DOMAIN NoBudget
          /\ Saving(p) => call'[p] = call[p] /\ budget'[p] = budget[p]
    BY <1>3 DEF BudgetInv, BudgetTypes
  <1>5. BudgetTypes'
    BY <1>4 DEF BudgetInv, BudgetTypes
  <1>6. WritersLock'
    BY <1>1 DEF BudgetInv, WritersLock
  <1>7. AllCounted'
    <2> SUFFICES ASSUME NEW p \in Procs
                 PROVE  IF Saving(p)' THEN Cardinality(Unknown(p)' \ {FileOf(p)'}) <= torn'
                        ELSE Current(p)' => Cardinality(Unknown(p)')
                                              <= torn' + (IF Publishing' THEN 1 ELSE 0)
      BY DEF AllCounted
    <2>1. CASE Saving(p)
      BY <1>1, <1>4, <2>1 DEF BudgetInv, AllCounted, Unknown, Cached, FileOf
    <2>2. CASE ~Saving(p)
      <3> SUFFICES ASSUME Current(p)'
                   PROVE  Cardinality(Unknown(p)') <= torn' + (IF Publishing' THEN 1 ELSE 0)
        BY <1>1, <2>2
      <3>1. budget'[p] = budget[p]
        BY <1>4 DEF Current
      <3>2. Current(p) /\ Unknown(p)' = Unknown(p)
        BY <3>1 DEF Current, Unknown, Cached
      <3>3. Cardinality(Unknown(p)) <= torn + (IF Publishing THEN 1 ELSE 0)
        BY <2>2, <3>2 DEF BudgetInv, AllCounted
      <3> QED
        BY <1>2, <3>2, <3>3
    <2> QED
      BY <2>1, <2>2
  <1>8. CacheWithinBudget'
    BY DEF BudgetInv, CacheWithinBudget
  <1> QED
    BY <1>5, <1>6, <1>7, <1>8 DEF BudgetInv

LEMMA OneGoesOn ==
  ASSUME BudgetInv, NEW p \in Procs, NEW c,
         UNCHANGED <<scene, entries, generation, lock, torn, budget>>,
         call' = [call EXCEPT ![p] = c],
         DOMAIN c = DOMAIN Idle, ~Saving(p), c.step \notin SavingSteps
  PROVE  BudgetInv'
  <1>1. /\ call' = [q \in Procs |-> call'[q]] /\ call'[p] = c
        /\ \A q \in Procs : ~(q \in {p}) => call'[q] = call[q]
    BY DEF BudgetInv, BudgetTypes
  <1>2. budget' = [q \in Procs |-> budget'[q]] /\ \A q : budget'[q] = budget[q]
    BY DEF BudgetInv, BudgetTypes
  <1>3. \A q \in Procs : q \in {p} =>
          /\ DOMAIN call'[q] = DOMAIN Idle /\ ~Saving(q) /\ ~Saving(q)'
          /\ budget'[q] \in {budget[q], NoBudget}
    BY <1>1, <1>2 DEF Saving
  <1> HIDE DEF BudgetInv
  <1> QED
    BY <1>1, <1>2, <1>3, NoSaving

\* The calls that a reader goes on with.
IsNoWriter(c) == DOMAIN c = DOMAIN Idle /\ c.step \notin SavingSteps

LEMMA ReadersKeepBudget ==
  ASSUME BudgetInv, NEW p \in Procs,
         \/ Begin(p) \/ NextFile(p) \/ ReadEntry(p) \/ VerifyChunk(p) \/ VerifyEnd(p)
         \/ ScanChunk(p) \/ ScanEnd(p) \/ Reply(p)
  PROVE  BudgetInv'
  <1>1. DOMAIN call[p] = DOMAIN Idle
    BY DEF BudgetInv, BudgetTypes
  <1>2. \E c : call' = [call EXCEPT ![p] = c] /\ IsNoWriter(c)
    <2>1. CASE Begin(p)
      <3>1. PICK q, todo : call' = [call EXCEPT ![p] =
              [Idle EXCEPT !.step = "next", !.query = q, !.todo = todo]]
        BY <2>1 DEF Begin
      <3> DEFINE c == [Idle EXCEPT !.step = "next", !.query = q, !.todo = todo]
      <3>2. call' = [call EXCEPT ![p] = c]
        BY <3>1
      <3>3. IsNoWriter(c)
        BY DEF IsNoWriter, SavingSteps, Idle
      <3> HIDE DEF c
      <3> QED
        BY <3>2, <3>3
    <2>2. CASE NextFile(p)
      <3>1. PICK c \in {Idle, [call[p] EXCEPT !.todo = Tail(call[p].todo)],
                        [call[p] EXCEPT !.step = "entry", !.stamp = Fingerprint(FileOf(p))]} :
              Goes(p, c)
        BY <2>2 DEF NextFile, Reads
      <3>2. IsNoWriter(c)
        <4>1. call[p].step = "next"
          BY <2>2 DEF NextFile
        <4>2. CASE c = Idle
          BY <4>2 DEF IsNoWriter, SavingSteps, Idle
        <4>3. CASE c = [call[p] EXCEPT !.todo = Tail(call[p].todo)]
          BY <1>1, <4>1, <4>3 DEF IsNoWriter, SavingSteps, Idle
        <4>4. CASE c = [call[p] EXCEPT !.step = "entry", !.stamp = Fingerprint(FileOf(p))]
          BY <1>1, <4>4 DEF IsNoWriter, SavingSteps, Idle
        <4> QED
          BY <3>1, <4>2, <4>3, <4>4
      <3> QED
        BY <3>1, <3>2 DEF Goes
    <2>3. CASE ReadEntry(p)
      <3>1. PICK step \in {"verify", "scan"}, e \in {entries[FileOf(p)], Null} : Goes(p, [call[p] EXCEPT !.step = step, !.entry = e])
        BY <2>3 DEF ReadEntry, Reads
      <3> DEFINE c == [call[p] EXCEPT !.step = step, !.entry = e]
      <3>2. call' = [call EXCEPT ![p] = c]
        BY <3>1 DEF Goes
      <3>3. IsNoWriter(c)
        BY <1>1, <2>3 DEF IsNoWriter, SavingSteps, Idle, ReadEntry
      <3> HIDE DEF c
      <3> QED
        BY <3>2, <3>3
    <2>4. CASE VerifyChunk(p) \/ ScanChunk(p)
      <3>1. PICK n \in 1 .. MaxChunk : Goes(p, [call[p] EXCEPT !.read = @ \o SubSeq(content[FileOf(p)], Len(call[p].read) + 1, Len(call[p].read) + n)])
        BY <2>4 DEF VerifyChunk, ScanChunk, Chunk, Reads
      <3> DEFINE c == [call[p] EXCEPT !.read = @ \o SubSeq(content[FileOf(p)], Len(call[p].read) + 1, Len(call[p].read) + n)]
      <3>2. call' = [call EXCEPT ![p] = c]
        BY <3>1 DEF Goes
      <3>3. IsNoWriter(c)
        BY <1>1, <2>4 DEF IsNoWriter, SavingSteps, Idle, VerifyChunk, ScanChunk
      <3> HIDE DEF c
      <3> QED
        BY <3>2, <3>3
    <2>5. CASE VerifyEnd(p)
      <3>1. PICK c \in {[call[p] EXCEPT !.step = "reply",
                           !.answer = Snippet(call[p].entry.texts, call[p].query)],
                        [call[p] EXCEPT !.step = "scan", !.read = <<>>, !.entry = Null]} :
              Goes(p, c)
        BY <2>5 DEF VerifyEnd, Reads
      <3>2. IsNoWriter(c)
        BY <1>1 DEF IsNoWriter, SavingSteps, Idle
      <3> QED
        BY <3>1, <3>2 DEF Goes
    <2>6. CASE ScanEnd(p)
      <3>1. \E step \in {"lock", "reply"} : \E e :
              Goes(p, [call[p] EXCEPT !.step = step, !.entry = e,
                         !.answer = Snippet(call[p].read, call[p].query)])
        BY <2>6 DEF ScanEnd, Reads
      <3>2. PICK step \in {"lock", "reply"} : \E e :
              Goes(p, [call[p] EXCEPT !.step = step, !.entry = e,
                         !.answer = Snippet(call[p].read, call[p].query)])
        BY <3>1
      <3>3. PICK e :
              Goes(p, [call[p] EXCEPT !.step = step, !.entry = e,
                         !.answer = Snippet(call[p].read, call[p].query)])
        BY <3>2
      <3> DEFINE c == [call[p] EXCEPT !.step = step, !.entry = e,
                         !.answer = Snippet(call[p].read, call[p].query)]
      <3>4. call' = [call EXCEPT ![p] = c]
        BY <3>3 DEF Goes
      <3>5. IsNoWriter(c)
        BY <1>1, <3>2 DEF IsNoWriter, SavingSteps, Idle
      <3> HIDE DEF c
      <3> QED
        BY <3>4, <3>5
    <2>7. CASE Reply(p)
      <3>1. PICK c \in {Idle, [Idle EXCEPT !.step = "next", !.query = call[p].query,
                                           !.todo = Tail(call[p].todo)]} :
              call' = [call EXCEPT ![p] = c]
        BY <2>7 DEF Reply
      <3>2. IsNoWriter(c)
        <4>1. CASE c = Idle
          BY <4>1 DEF IsNoWriter, SavingSteps, Idle
        <4>2. CASE c = [Idle EXCEPT !.step = "next", !.query = call[p].query,
                                    !.todo = Tail(call[p].todo)]
          BY <4>2 DEF IsNoWriter, SavingSteps, Idle
        <4> QED
          BY <3>1, <4>1, <4>2
      <3> QED
        BY <3>1, <3>2
    <2> QED
      BY <2>1, <2>2, <2>3, <2>4, <2>5, <2>6, <2>7
  <1>3. ~Saving(p)
    BY DEF Saving, SavingSteps, Begin, NextFile, ReadEntry, VerifyChunk, VerifyEnd, ScanChunk,
       ScanEnd, Reply
  <1>4. UNCHANGED <<scene, entries, generation, lock, torn, budget>>
    BY DEF Begin, NextFile, ReadEntry, VerifyChunk, VerifyEnd, ScanChunk, ScanEnd, Reply, Chunk,
       Reads, Goes
  <1> QED
    BY <1>2, <1>3, <1>4, OneGoesOn DEF IsNoWriter

\* Nobody else writes.
LEMMA OneWriter ==
  ASSUME BudgetInv, NEW p \in Procs, NEW q \in Procs,
         Saving(p) \/ lock = Null, Saving(q)
  PROVE  q = p
  BY ProcsType DEF BudgetInv, WritersLock

LEMMA TakeLockKeepsBudget ==
  ASSUME BudgetInv, NEW p \in Procs, TakeLock(p)
  PROVE  BudgetInv'
  <1>1. DOMAIN call[p] = DOMAIN Idle /\ call[p].step = "lock" /\ ~Saving(p)
    BY DEF BudgetInv, BudgetTypes, TakeLock, Saving, SavingSteps
  <1>2. CASE lock # Null
    <2> DEFINE c == [call[p] EXCEPT !.step = "reply"]
    <2>1. /\ call' = [call EXCEPT ![p] = c]
          /\ UNCHANGED <<scene, entries, generation, lock, torn, budget>>
      BY <1>2 DEF TakeLock, Reads, Goes
    <2>2. DOMAIN c = DOMAIN Idle /\ c.step \notin SavingSteps
      BY <1>1 DEF Idle, SavingSteps
    <2> HIDE DEF c
    <2> QED
      BY <1>1, <2>1, <2>2, OneGoesOn
  <1>3. CASE lock = Null
    <2> DEFINE f == FileOf(p)
               was == BudgetFor(p)
               b == [was EXCEPT !.files = @ \ {f}]
               c == [call[p] EXCEPT !.step = "evict"]
    <2>1. /\ lock' = p /\ budget' = [budget EXCEPT ![p] = b]
          /\ call' = [call EXCEPT ![p] = c]
          /\ UNCHANGED <<scene, entries, generation, torn>>
      BY <1>3 DEF TakeLock, Goes
    <2>2. /\ DOMAIN was = DOMAIN NoBudget
          /\ was.files \in SUBSET Files /\ was.stamp = generation /\ was.known
          /\ Cardinality(Cached \ was.files) <= torn
      <3>1. ~Publishing
        BY <1>1, <1>3, OneWriter DEF Publishing, Saving, SavingSteps
      <3>2. generation \in Nat /\ torn \in Nat
        BY DEF BudgetInv, BudgetTypes
      <3>3. CASE Current(p)
        <4>1. was = budget[p]
          BY <3>3 DEF BudgetFor, Current
        <4>2. Cardinality(Unknown(p)) <= torn + 0
          BY <1>1, <3>1, <3>3 DEF BudgetInv, AllCounted
        <4> QED
          BY <3>2, <3>3, <4>1, <4>2 DEF BudgetInv, BudgetTypes, Current, Unknown
      <3>4. CASE ~Current(p)
        <4>1. was = [stamp |-> generation, files |-> Cached, known |-> TRUE]
          BY <3>4 DEF BudgetFor, Current, Cached
        <4>2. Cached \ Cached = {} /\ Cardinality({}) = 0
          BY FS_EmptySet
        <4>3. /\ DOMAIN was = DOMAIN NoBudget /\ was.stamp = generation /\ was.known
              /\ was.files = Cached /\ Cached \in SUBSET Files
          BY <4>1 DEF NoBudget, Cached
        <4> QED
          BY <3>2, <4>2, <4>3
      <3> QED
        BY <3>3, <3>4
    <2>3. /\ DOMAIN b = DOMAIN NoBudget
          /\ b.files = was.files \ {f} /\ b.stamp = generation /\ b.known
      BY <2>2 DEF NoBudget
    <2>4. DOMAIN c = DOMAIN Idle /\ c.step = "evict" /\ c.todo = call[p].todo
      BY <1>1 DEF Idle
    <2> HIDE DEF b, was, c
    <2>5. /\ call' = [q \in Procs |-> call'[q]] /\ call'[p] = c
          /\ budget' = [q \in Procs |-> budget'[q]] /\ budget'[p] = b
          /\ \A q \in Procs \ {p} : call'[q] = call[q] /\ budget'[q] = budget[q]
      BY <2>1 DEF BudgetInv, BudgetTypes
    <2>6. Saving(p)' /\ f = FileOf(p)' /\ \A q \in Procs \ {p} : ~Saving(q) /\ ~Saving(q)'
      BY <1>3, <2>4, <2>5, OneWriter DEF Saving, SavingSteps, FileOf
    <2>7. generation \in Nat
      BY DEF BudgetInv, BudgetTypes
    <2>8. BudgetTypes'
      BY <2>1, <2>2, <2>3, <2>4, <2>5, <2>7 DEF BudgetInv, BudgetTypes
    <2>9. WritersLock'
      BY <2>1, <2>6 DEF WritersLock
    <2>10. Cached' = Cached /\ Cached \in SUBSET Files
      BY <2>1 DEF Cached
    <2>11. Cardinality(Unknown(p)' \ {f}) <= torn
      <3>1. Unknown(p)' \ {f} \in SUBSET (Cached \ was.files)
        BY <2>3, <2>5, <2>10 DEF Unknown
      <3>2. /\ Cardinality(Unknown(p)' \ {f}) <= Cardinality(Cached \ was.files)
            /\ Cardinality(Unknown(p)' \ {f}) \in Nat /\ Cardinality(Cached \ was.files) \in Nat
        BY <2>10, <3>1, FilesAreCounted
      <3> QED
        BY <2>2, <3>2 DEF BudgetInv, BudgetTypes
    <2>12. ~Publishing /\ ~Publishing'
      BY <1>1, <2>4, <2>5, <2>6 DEF Publishing, Saving, SavingSteps
    <2>13. ASSUME NEW q \in Procs \ {p}, Current(q)'
           PROVE  Cardinality(Unknown(q)') <= torn + 0
      <3>1. Current(q) /\ Unknown(q)' = Unknown(q) /\ ~Saving(q)
        BY <2>1, <2>5, <2>6, <2>10, <2>13 DEF Current, Unknown
      <3> QED
        BY <2>12, <3>1 DEF BudgetInv, AllCounted
    <2>14. AllCounted'
      <3> SUFFICES ASSUME NEW q \in Procs
                   PROVE  IF Saving(q)' THEN Cardinality(Unknown(q)' \ {FileOf(q)'}) <= torn'
                          ELSE Current(q)' => Cardinality(Unknown(q)')
                                                <= torn' + (IF Publishing' THEN 1 ELSE 0)
        BY DEF AllCounted
      <3>1. CASE q = p
        BY <2>1, <2>6, <2>11, <3>1
      <3>2. CASE q # p
        BY <2>1, <2>6, <2>12, <2>13, <3>2
      <3> QED
        BY <3>1, <3>2
    <2>15. CacheWithinBudget'
      BY <2>1 DEF BudgetInv, CacheWithinBudget
    <2> QED
      BY <2>8, <2>9, <2>14, <2>15 DEF BudgetInv
  <1> QED
    BY <1>2, <1>3

\* One process p steps, and everybody else stays.
LEMMA OneSteps ==
  ASSUME BudgetInv, NEW p \in Procs, NEW c, NEW b,
         call' = [call EXCEPT ![p] = c], budget' = [budget EXCEPT ![p] = b]
  PROVE  /\ call' = [q \in Procs |-> call'[q]] /\ call'[p] = c
         /\ budget' = [q \in Procs |-> budget'[q]] /\ budget'[p] = b
         /\ \A q \in Procs \ {p} :
              /\ call'[q] = call[q] /\ budget'[q] = budget[q]
              /\ Saving(q)' <=> Saving(q)
         /\ DOMAIN call[p] = DOMAIN Idle /\ DOMAIN budget[p] = DOMAIN NoBudget
         /\ generation \in Nat /\ torn \in Nat /\ Cached \in SUBSET Files
         /\ entries = [f \in Files |-> entries[f]] /\ budget[p].files \in SUBSET Files
  <1>1. /\ call' = [q \in Procs |-> call'[q]] /\ call'[p] = c
        /\ budget' = [q \in Procs |-> budget'[q]] /\ budget'[p] = b
        /\ \A q \in Procs \ {p} : call'[q] = call[q] /\ budget'[q] = budget[q]
    BY DEF BudgetInv, BudgetTypes
  <1> QED
    BY <1>1 DEF BudgetInv, BudgetTypes, Saving, Cached

\* A writer p is gone, and with it what it remembered; what it has written is
\* counted as torn.
LEMMA WriterGone ==
  ASSUME BudgetInv, NEW p \in Procs, NEW c, DOMAIN c = DOMAIN Idle, c.step \notin SavingSteps,
         call' = [call EXCEPT ![p] = c], budget' = [budget EXCEPT ![p] = NoBudget],
         UNCHANGED <<scene, entries>>, generation' \in Nat, generation <= generation',
         Saving(p) => lock' \in {lock, Null}, ~Saving(p) => UNCHANGED lock,
         torn' = IF call[p].step = "publish" THEN torn + 1 ELSE torn
  PROVE  BudgetInv'
  <1>1. /\ call' = [q \in Procs |-> call'[q]] /\ call'[p] = c
        /\ budget' = [q \in Procs |-> budget'[q]] /\ budget'[p] = NoBudget
        /\ \A q \in Procs \ {p} :
             /\ call'[q] = call[q] /\ budget'[q] = budget[q]
             /\ Saving(q)' <=> Saving(q)
        /\ generation \in Nat /\ torn \in Nat
    BY OneSteps
  <1>2. DOMAIN NoBudget = DOMAIN NoBudget /\ NoBudget.files = {} /\ ~NoBudget.known
    BY DEF NoBudget
  <1>3. ~Saving(p)' /\ ~Current(p)'
    BY <1>1, <1>2 DEF Saving, Current
  <1>4. torn' \in Nat /\ torn <= torn' /\ lock' \in Procs \union {Null}
    BY <1>1 DEF BudgetInv, BudgetTypes
  <1>5. BudgetTypes'
    <2>1. ASSUME NEW q \in Procs
          PROVE  /\ DOMAIN call'[q] = DOMAIN Idle /\ DOMAIN budget'[q] = DOMAIN NoBudget
                 /\ budget'[q].files \in SUBSET Files
                 /\ budget'[q].known => budget'[q].stamp \in Nat /\ budget'[q].stamp <= generation'
      <3>1. CASE q = p
        BY <1>1, <1>2, <3>1
      <3>2. CASE q # p
        <4>1. /\ DOMAIN call[q] = DOMAIN Idle /\ DOMAIN budget[q] = DOMAIN NoBudget
              /\ budget[q].files \in SUBSET Files
              /\ budget[q].known => budget[q].stamp \in Nat /\ budget[q].stamp <= generation
          BY DEF BudgetInv, BudgetTypes
        <4> QED
          BY <1>1, <3>2, <4>1
      <3> QED
        BY <3>1, <3>2
    <2> QED
      BY <1>1, <1>4, <2>1 DEF BudgetInv, BudgetTypes
  <1>6. WritersLock'
    <2> SUFFICES ASSUME NEW q \in Procs, Saving(q)'
                 PROVE  lock' = q
      BY DEF WritersLock
    <2>1. q # p /\ Saving(q)
      BY <1>1, <1>3
    <2>2. lock = q /\ ~Saving(p)
      BY <2>1 DEF BudgetInv, WritersLock
    <2> QED
      BY <2>2
  <1>7. Cached' = Cached
    BY DEF Cached
  <1>8. AllCounted'
    <2> SUFFICES ASSUME NEW q \in Procs, q # p
                 PROVE  IF Saving(q)' THEN Cardinality(Unknown(q)' \ {FileOf(q)'}) <= torn'
                        ELSE Current(q)' => Cardinality(Unknown(q)')
                                              <= torn' + (IF Publishing' THEN 1 ELSE 0)
      BY <1>3 DEF AllCounted
    <2>1. Unknown(q)' = Unknown(q) /\ FileOf(q)' = FileOf(q) /\ (Current(q)' => Current(q))
          /\ Unknown(q) \in SUBSET Files
      <3>1. budget[q].known => budget[q].stamp \in Nat /\ budget[q].stamp <= generation
        BY DEF BudgetInv, BudgetTypes
      <3>2. Current(q)' => Current(q)
        BY <1>1, <3>1 DEF Current
      <3> QED
        BY <1>1, <1>7, <3>2 DEF Unknown, FileOf, Cached
    <2>2. Cardinality(Unknown(q)) \in Nat /\ Cardinality(Unknown(q) \ {FileOf(q)}) \in Nat
      BY <2>1, FilesAreCounted
    <2>3. CASE Saving(q)
      <3>1. Cardinality(Unknown(q) \ {FileOf(q)}) <= torn
        BY <2>3 DEF BudgetInv, AllCounted
      <3> QED
        BY <1>1, <1>4, <2>1, <2>2, <2>3, <3>1
    <2>4. CASE ~Saving(q)
      <3> SUFFICES ASSUME Current(q)
                   PROVE  Cardinality(Unknown(q)) <= torn' + (IF Publishing' THEN 1 ELSE 0)
        BY <1>1, <2>1, <2>4
      <3>1. Cardinality(Unknown(q)) <= torn + (IF Publishing THEN 1 ELSE 0)
        BY <2>4 DEF BudgetInv, AllCounted
      <3>2. CASE Publishing /\ ~Publishing'
        <4>1. call[p].step = "publish"
          BY <1>1, <3>2 DEF Publishing
        <4> QED
          BY <1>1, <2>2, <3>1, <3>2, <4>1
      <3>3. CASE ~(Publishing /\ ~Publishing')
        BY <1>1, <1>4, <2>2, <3>1, <3>3
      <3> QED
        BY <3>2, <3>3
    <2> QED
      BY <2>3, <2>4
  <1>9. CacheWithinBudget'
    <2>1. Cardinality(Cached) <= MaxEntries + torn /\ Cardinality(Cached) \in Nat
          /\ MaxEntries \in Nat
      BY FilesAreCounted, BoundsType DEF BudgetInv, CacheWithinBudget, Cached
    <2>2. Cardinality(Cached') <= MaxEntries + torn'
      BY <1>1, <1>4, <1>7, <2>1
    <2> QED
      BY <2>2 DEF CacheWithinBudget, Cached
  <1> QED
    BY <1>5, <1>6, <1>8, <1>9 DEF BudgetInv

LEMMA ExitKeepsBudget ==
  ASSUME BudgetInv, NEW p \in Procs, Exit(p)
  PROVE  BudgetInv'
  <1>1. /\ call' = [call EXCEPT ![p] = Idle] /\ budget' = [budget EXCEPT ![p] = NoBudget]
        /\ UNCHANGED <<scene, entries, lock>>
        /\ torn' = IF call[p].step = "publish" THEN torn + 1 ELSE torn
        /\ generation' \in Unwritten
    BY DEF Exit, Unwritten
  <1>2. Idle.step \notin SavingSteps
    BY DEF Idle, SavingSteps
  <1>3. generation' \in Nat /\ generation <= generation'
    BY <1>1 DEF BudgetInv, BudgetTypes, Unwritten
  <1> QED
    BY <1>1, <1>2, <1>3, WriterGone

\* Nor does a writer remember anything that fails at the last.
LEMMA PublishFailsKeepsBudget ==
  ASSUME BudgetInv, NEW p \in Procs, PublishFails(p)
  PROVE  BudgetInv'
  <1> DEFINE c == [call[p] EXCEPT !.step = "reply"]
  <1>1. /\ call' = [call EXCEPT ![p] = c] /\ budget' = [budget EXCEPT ![p] = NoBudget]
        /\ UNCHANGED <<scene, entries>> /\ lock' = Null
        /\ call[p].step = "publish" /\ torn' = torn + 1
        /\ generation' \in Unwritten
    BY DEF PublishFails
  <1>2. DOMAIN c = DOMAIN Idle /\ c.step \notin SavingSteps /\ Saving(p)
    <2>1. DOMAIN call[p] = DOMAIN Idle
      BY DEF BudgetInv, BudgetTypes
    <2> QED
      BY <1>1, <2>1 DEF Idle, SavingSteps, Saving
  <1>3. generation' \in Nat /\ generation <= generation'
    BY <1>1 DEF BudgetInv, BudgetTypes, Unwritten
  <1> HIDE DEF c
  <1> QED
    BY <1>1, <1>2, <1>3, WriterGone

LEMMA EvictKeepsBudget ==
  ASSUME BudgetInv, NEW p \in Procs, Evict(p)
  PROVE  BudgetInv'
  <1>1. PICK f \in budget[p].files :
          IF entries[f] # Null
          THEN /\ entries' = [entries EXCEPT ![f] = Null]
               /\ budget' = [budget EXCEPT ![p].files = @ \ {f}]
               /\ UNCHANGED <<generation, lock, call>>
          ELSE /\ budget' = [budget EXCEPT ![p] = NoBudget]
               /\ lock' = Null
               /\ call' = [call EXCEPT ![p].step = "reply"]
               /\ UNCHANGED <<entries, generation>>
    BY DEF Evict
  <1>2. Saving(p) /\ call[p].step = "evict" /\ UNCHANGED <<scene, torn>>
    BY DEF Evict, Saving, SavingSteps
  <1>3. CASE ~(entries[f] # Null)
    <2> DEFINE c == [call[p] EXCEPT !.step = "reply"]
    <2>1. DOMAIN c = DOMAIN Idle /\ c.step \notin SavingSteps
      BY DEF BudgetInv, BudgetTypes, Idle, SavingSteps
    <2>2. call' = [call EXCEPT ![p] = c] /\ budget' = [budget EXCEPT ![p] = NoBudget]
          /\ UNCHANGED <<scene, entries, generation>> /\ lock' = Null
          /\ torn' = IF call[p].step = "publish" THEN torn + 1 ELSE torn
      BY <1>1, <1>2, <1>3
    <2> HIDE DEF c
    <2>3. generation' \in Nat /\ generation <= generation'
      BY <2>2 DEF BudgetInv, BudgetTypes
    <2> QED
      BY <1>2, <2>1, <2>2, <2>3, WriterGone
  <1>4. CASE entries[f] # Null
    <2> DEFINE b == [budget[p] EXCEPT !.files = @ \ {f}]
               c == call[p]
    <2>1. /\ entries' = [entries EXCEPT ![f] = Null]
          /\ budget' = [budget EXCEPT ![p] = b]
          /\ UNCHANGED <<generation, lock, call>>
      BY <1>1, <1>4
    <2>2. call' = [call EXCEPT ![p] = c]
      BY <2>1 DEF BudgetInv, BudgetTypes
    <2> HIDE DEF b, c
    <2>3. /\ call' = [q \in Procs |-> call'[q]] /\ call'[p] = c
          /\ budget' = [q \in Procs |-> budget'[q]] /\ budget'[p] = b
          /\ \A q \in Procs \ {p} :
               /\ call'[q] = call[q] /\ budget'[q] = budget[q]
               /\ Saving(q)' <=> Saving(q)
          /\ DOMAIN budget[p] = DOMAIN NoBudget
          /\ generation \in Nat /\ torn \in Nat /\ Cached \in SUBSET Files
          /\ entries = [x \in Files |-> entries[x]] /\ budget[p].files \in SUBSET Files
      BY <2>2, <2>1, OneSteps
    <2>4. /\ DOMAIN b = DOMAIN NoBudget /\ b.files = budget[p].files \ {f}
          /\ b.known = budget[p].known /\ b.stamp = budget[p].stamp
      BY <2>3 DEF b, NoBudget
    <2>5. BudgetTypes'
      BY <1>2, <2>1, <2>3, <2>4 DEF BudgetInv, BudgetTypes
    <2>6. WritersLock'
      BY <2>1 DEF BudgetInv, WritersLock, Saving
    <2>7. Cached' = Cached \ {f}
      BY <2>1, <2>3 DEF Cached
    <2>8. Cardinality(Cached') <= Cardinality(Cached) /\ Cardinality(Cached') \in Nat
          /\ Cardinality(Cached) \in Nat
      BY <2>3, <2>7, FilesAreCounted
    <2>9. ASSUME NEW q \in Procs
          PROVE  /\ Unknown(q)' \in SUBSET Unknown(q) /\ Unknown(q) \in SUBSET Files
                 /\ FileOf(q)' = FileOf(q) /\ (Saving(q)' <=> Saving(q))
                 /\ Current(q)' <=> Current(q)
      <3>1. Unknown(q)' \in SUBSET Unknown(q)
        <4>1. CASE q = p
          BY <2>3, <2>4, <2>7, <4>1 DEF Unknown
        <4>2. CASE q # p
          BY <2>3, <2>7, <4>2 DEF Unknown
        <4> QED
          BY <4>1, <4>2
      <3>2. Current(q)' <=> Current(q)
        <4>1. CASE q = p
          BY <2>1, <2>3, <2>4, <4>1 DEF Current
        <4>2. CASE q # p
          BY <2>1, <2>3, <4>2 DEF Current
        <4> QED
          BY <4>1, <4>2
      <3> QED
        BY <2>1, <2>3, <3>1, <3>2 DEF Unknown, FileOf, Saving
    <2>10. Publishing' <=> Publishing
      BY <2>1 DEF Publishing
    <2>11. AllCounted'
      <3> SUFFICES ASSUME NEW q \in Procs
                   PROVE  IF Saving(q)' THEN Cardinality(Unknown(q)' \ {FileOf(q)'}) <= torn'
                          ELSE Current(q)' => Cardinality(Unknown(q)')
                                                <= torn' + (IF Publishing' THEN 1 ELSE 0)
        BY DEF AllCounted
      <3>1. /\ Cardinality(Unknown(q)') <= Cardinality(Unknown(q))
            /\ Cardinality(Unknown(q)') \in Nat /\ Cardinality(Unknown(q)) \in Nat
        BY <2>9, FilesAreCounted
      <3>2. Unknown(q)' \ {FileOf(q)} \in SUBSET (Unknown(q) \ {FileOf(q)})
            /\ Unknown(q) \ {FileOf(q)} \in SUBSET Files
        BY <2>9
      <3>3. /\ Cardinality(Unknown(q)' \ {FileOf(q)}) <= Cardinality(Unknown(q) \ {FileOf(q)})
            /\ Cardinality(Unknown(q)' \ {FileOf(q)}) \in Nat
            /\ Cardinality(Unknown(q) \ {FileOf(q)}) \in Nat
        BY <3>2, FilesAreCounted
      <3>4. IF Saving(q) THEN Cardinality(Unknown(q) \ {FileOf(q)}) <= torn
            ELSE Current(q) => Cardinality(Unknown(q)) <= torn + (IF Publishing THEN 1 ELSE 0)
        BY DEF BudgetInv, AllCounted
      <3>5. torn' = torn /\ torn \in Nat
        BY <1>2, <2>3
      <3> HIDE DEF BudgetInv
      <3>6. CASE Saving(q)
        BY <2>9, <3>3, <3>4, <3>5, <3>6
      <3>7. CASE ~Saving(q)
        BY <2>9, <2>10, <3>1, <3>4, <3>5, <3>7
      <3> QED
        BY <3>6, <3>7
    <2>12. CacheWithinBudget'
      <3>1. Cardinality(Cached) <= MaxEntries + torn /\ MaxEntries \in Nat
        BY BoundsType DEF BudgetInv, CacheWithinBudget, Cached
      <3>2. Cardinality(Cached') <= MaxEntries + torn'
        BY <1>2, <2>3, <2>8, <3>1
      <3> QED
        BY <3>2 DEF CacheWithinBudget, Cached
    <2> QED
      BY <2>5, <2>6, <2>11, <2>12 DEF BudgetInv
  <1> QED
    BY <1>3, <1>4

\* An entry is written where there was room for it.
LEMMA WriteEntryKeepsBudget ==
  ASSUME BudgetInv, NEW p \in Procs, WriteEntry(p)
  PROVE  BudgetInv'
  <1> DEFINE f == FileOf(p)
             b == budget[p]
             c == [call[p] EXCEPT !.step = "publish"]
  <1>1. /\ call[p].step = "evict" /\ Cardinality(b.files) < MaxEntries
        /\ entries' = [entries EXCEPT ![f] = call[p].entry]
        /\ call' = [call EXCEPT ![p] = c]
        /\ UNCHANGED <<scene, generation, lock, budget, torn>>
    BY DEF WriteEntry, Goes
  <1>2. Saving(p)
    BY <1>1 DEF Saving, SavingSteps
  <1>3. budget' = [budget EXCEPT ![p] = b] /\ DOMAIN call[p] = DOMAIN Idle
    BY <1>1 DEF BudgetInv, BudgetTypes
  <1>4. DOMAIN c = DOMAIN Idle /\ c.step = "publish" /\ c.todo = call[p].todo
    BY <1>3 DEF Idle
  <1> HIDE DEF b, c, f
  <1>5. /\ call' = [q \in Procs |-> call'[q]] /\ call'[p] = c
        /\ budget' = [q \in Procs |-> budget'[q]] /\ budget'[p] = b
        /\ \A q \in Procs \ {p} :
             /\ call'[q] = call[q] /\ budget'[q] = budget[q]
             /\ Saving(q)' <=> Saving(q)
        /\ generation \in Nat /\ torn \in Nat /\ Cached \in SUBSET Files
        /\ entries = [x \in Files |-> entries[x]] /\ budget[p].files \in SUBSET Files
    BY <1>1, <1>3, OneSteps
  <1>6. Saving(p)' /\ FileOf(p)' = f /\ FileOf(p) = f /\ b = budget[p]
    BY <1>4, <1>5 DEF Saving, SavingSteps, FileOf, f, b
  <1>7. \A q \in Procs \ {p} : ~Saving(q)
    BY <1>2, OneWriter
  <1>8. Publishing' /\ ~Publishing
    <2>1. Publishing'
      BY <1>4, <1>5 DEF Publishing
    <2>2. ~Publishing
      BY <1>1, <1>7 DEF Publishing, Saving, SavingSteps
    <2> QED
      BY <2>1, <2>2
  <1>9. Cached' \in SUBSET Files /\ Cached' \ {f} \in SUBSET Cached
    BY <1>1, <1>5 DEF Cached
  <1>10. BudgetTypes'
    <2>1. entries' = [x \in Files |-> entries'[x]]
      BY <1>1, <1>5
    <2> QED
      BY <1>1, <1>3, <1>4, <1>5, <2>1 DEF BudgetInv, BudgetTypes
  <1>11. WritersLock'
    BY <1>1, <1>2, <1>5 DEF BudgetInv, WritersLock
  <1>12. Cardinality(Unknown(p) \ {f}) <= torn
    BY <1>2, <1>6 DEF BudgetInv, AllCounted
  <1>13. AllCounted'
    <2> SUFFICES ASSUME NEW q \in Procs
                 PROVE  IF Saving(q)' THEN Cardinality(Unknown(q)' \ {FileOf(q)'}) <= torn'
                        ELSE Current(q)' => Cardinality(Unknown(q)')
                                              <= torn' + (IF Publishing' THEN 1 ELSE 0)
      BY DEF AllCounted
    <2>1. CASE q = p
      <3>1. Unknown(p)' \ {f} \in SUBSET (Unknown(p) \ {f}) /\ Unknown(p) \ {f} \in SUBSET Files
        BY <1>5, <1>6, <1>9 DEF Unknown
      <3>2. /\ Cardinality(Unknown(p)' \ {f}) <= Cardinality(Unknown(p) \ {f})
            /\ Cardinality(Unknown(p)' \ {f}) \in Nat /\ Cardinality(Unknown(p) \ {f}) \in Nat
        BY <3>1, FilesAreCounted
      <3> QED
        BY <1>1, <1>5, <1>6, <1>12, <2>1, <3>2
    <2>2. CASE q # p
      <3> SUFFICES ASSUME Current(q)'
                   PROVE  Cardinality(Unknown(q)') <= torn + 1
        BY <1>1, <1>5, <1>7, <1>8, <2>2
      <3>1. Current(q) /\ ~Saving(q)
        BY <1>1, <1>5, <1>7, <2>2 DEF Current
      <3>2. Cardinality(Unknown(q)) <= torn + 0
        BY <1>8, <3>1 DEF BudgetInv, AllCounted
      <3>3. /\ Unknown(q)' \in SUBSET Files /\ Unknown(q) \in SUBSET Files
            /\ Unknown(q)' \ {f} \in SUBSET Unknown(q)
        BY <1>5, <1>9, <2>2 DEF Unknown
      <3>4. /\ Cardinality(Unknown(q)' \ {f}) <= Cardinality(Unknown(q))
            /\ Cardinality(Unknown(q)) \in Nat
        BY <3>3, FilesAreCounted
      <3>5. /\ Cardinality(Unknown(q)') <= Cardinality(Unknown(q)' \ {f}) + 1
            /\ Cardinality(Unknown(q)') \in Nat
        BY <3>3, FilesAreCounted
      <3>6. Unknown(q)' \ {f} \in SUBSET Files
        BY <3>3
      <3>7. Cardinality(Unknown(q)' \ {f}) \in Nat
        BY <3>6, FilesAreCounted
      <3> QED
        BY <1>5, <3>2, <3>4, <3>5, <3>7
    <2> QED
      BY <2>1, <2>2
  <1>14. CacheWithinBudget'
    <2> DEFINE U == Unknown(p) \ {f}
    <2>1. /\ Cached' \ {f} \in SUBSET (b.files \union U) /\ U \in SUBSET Files
          /\ Cached' \ {f} \in SUBSET Files /\ b.files \union U \in SUBSET Files
      BY <1>5, <1>6, <1>9 DEF Unknown
    <2>2. /\ Cardinality(b.files) \in Nat /\ IsFiniteSet(b.files)
      BY <1>5, <1>6, FilesAreCounted
    <2>3. Cardinality(U) \in Nat /\ IsFiniteSet(U)
      BY <2>1, FilesAreCounted
    <2>4. b.files \intersect U \in SUBSET Files
      BY <2>1
    <2>5. Cardinality(b.files \intersect U) \in Nat
      BY <2>4, FilesAreCounted
    <2> HIDE DEF U
    <2>6. Cardinality(b.files \union U)
            = Cardinality(b.files) + Cardinality(U) - Cardinality(b.files \intersect U)
      BY <2>2, <2>3, FS_Union
    <2>7. /\ Cardinality(Cached' \ {f}) <= Cardinality(b.files \union U)
          /\ Cardinality(b.files \union U) \in Nat
      BY <2>1, FilesAreCounted
    <2>8. Cardinality(Cached' \ {f}) \in Nat
      BY <2>1, FilesAreCounted
    <2>9. Cardinality(Cached') <= Cardinality(Cached' \ {f}) + 1 /\ Cardinality(Cached') \in Nat
      BY <1>9, FilesAreCounted
    <2>10. Cardinality(U) <= torn /\ MaxEntries \in Nat
      BY <1>12, BoundsType DEF U
    <2>11. Cardinality(Cached') <= MaxEntries + torn
      BY <1>1, <1>5, <2>2, <2>3, <2>5, <2>6, <2>7, <2>8, <2>9, <2>10
    <2> QED
      BY <1>1, <2>11 DEF CacheWithinBudget, Cached
  <1> QED
    BY <1>10, <1>11, <1>13, <1>14 DEF BudgetInv

\* The new generation makes everybody else read the directory again.
LEMMA PublishKeepsBudget ==
  ASSUME BudgetInv, NEW p \in Procs, FileOf(p) \in Files, Publish(p)
  PROVE  BudgetInv'
  <1> DEFINE f == FileOf(p)
             b == [stamp |-> generation + 1, known |-> TRUE, files |-> budget[p].files \union {f}]
             c == [call[p] EXCEPT !.step = "reply"]
  <1>1. /\ call[p].step = "publish" /\ generation' = generation + 1
        /\ budget' = [budget EXCEPT ![p] = b] /\ call' = [call EXCEPT ![p] = c]
        /\ lock' = Null /\ UNCHANGED <<scene, entries, torn>>
    BY DEF Publish, Goes
  <1>2. Saving(p) /\ f \in Files
    BY <1>1 DEF Saving, SavingSteps
  <1>3. DOMAIN call[p] = DOMAIN Idle
    BY DEF BudgetInv, BudgetTypes
  <1>4. DOMAIN c = DOMAIN Idle /\ c.step = "reply" /\ c.todo = call[p].todo
    BY <1>3 DEF Idle
  <1>5. /\ b.stamp = generation + 1 /\ b.known /\ b.files = budget[p].files \union {f}
        /\ DOMAIN b = DOMAIN NoBudget
    BY DEF NoBudget
  <1>6. f = FileOf(p)
    OBVIOUS
  <1> HIDE DEF b, c, f
  <1>7. /\ call' = [q \in Procs |-> call'[q]] /\ call'[p] = c
        /\ budget' = [q \in Procs |-> budget'[q]] /\ budget'[p] = b
        /\ \A q \in Procs \ {p} :
             /\ call'[q] = call[q] /\ budget'[q] = budget[q]
             /\ Saving(q)' <=> Saving(q)
        /\ generation \in Nat /\ torn \in Nat /\ Cached \in SUBSET Files
        /\ budget[p].files \in SUBSET Files
    BY <1>1, OneSteps
  <1>8. \A q \in Procs : ~Saving(q)'
    <2>1. ~Saving(p)'
      BY <1>4, <1>7 DEF Saving, SavingSteps
    <2> QED
      BY <1>2, <1>7, <2>1, OneWriter
  <1>9. BudgetTypes'
    <2>1. scene' \in Scenes /\ entries' = [x \in Files |-> entries'[x]]
          /\ generation' \in Nat /\ torn' \in Nat /\ lock' \in Procs \union {Null}
      BY <1>1, <1>7 DEF BudgetInv, BudgetTypes
    <2>2. ASSUME NEW q \in Procs
          PROVE  /\ DOMAIN call'[q] = DOMAIN Idle /\ DOMAIN budget'[q] = DOMAIN NoBudget
                 /\ budget'[q].files \in SUBSET Files
                 /\ budget'[q].known => budget'[q].stamp \in Nat /\ budget'[q].stamp <= generation'
      <3>1. CASE q = p
        BY <1>1, <1>2, <1>4, <1>5, <1>7, <3>1
      <3>2. CASE q # p
        <4>1. call'[q] = call[q] /\ budget'[q] = budget[q]
          BY <1>7, <3>2
        <4>2. /\ DOMAIN call[q] = DOMAIN Idle /\ DOMAIN budget[q] = DOMAIN NoBudget
              /\ budget[q].files \in SUBSET Files
              /\ budget[q].known => budget[q].stamp \in Nat /\ budget[q].stamp <= generation
          BY DEF BudgetInv, BudgetTypes
        <4> QED
          BY <1>1, <1>7, <4>1, <4>2
      <3> QED
        BY <3>1, <3>2
    <2> QED
      BY <1>7, <2>1, <2>2 DEF BudgetTypes
  <1>10. WritersLock'
    BY <1>8 DEF WritersLock
  <1>11. Cached' = Cached
    BY <1>1 DEF Cached
  <1>12. AllCounted'
    <2> SUFFICES ASSUME NEW q \in Procs, Current(q)'
                 PROVE  Cardinality(Unknown(q)') <= torn + (IF Publishing' THEN 1 ELSE 0)
      BY <1>1, <1>8 DEF AllCounted
    <2>1. CASE q = p
      <3>1. Unknown(p)' = Unknown(p) \ {f}
        BY <1>5, <1>7, <1>11 DEF Unknown
      <3>2. Cardinality(Unknown(p) \ {f}) <= torn /\ Unknown(p) \ {f} \in SUBSET Files
        BY <1>2, <1>6, <1>7 DEF BudgetInv, AllCounted, Unknown
      <3>3. Cardinality(Unknown(p) \ {f}) \in Nat
        BY <3>2, FilesAreCounted
      <3> QED
        BY <1>7, <2>1, <3>1, <3>2, <3>3
    <2>2. CASE q # p
      <3>1. budget[q].known => budget[q].stamp \in Nat /\ budget[q].stamp <= generation
        BY DEF BudgetInv, BudgetTypes
      <3>2. budget[q].known /\ budget[q].stamp = generation + 1
        BY <1>1, <1>7, <2>2 DEF Current
      <3> QED
        BY <1>7, <3>1, <3>2
    <2> QED
      BY <2>1, <2>2
  <1>13. CacheWithinBudget'
    BY <1>1 DEF BudgetInv, CacheWithinBudget
  <1> QED
    BY <1>9, <1>10, <1>12, <1>13 DEF BudgetInv

\* A lock is removed that nobody writes under.
LEMMA RemoveLockKeepsBudget ==
  ASSUME BudgetInv, RemoveLock
  PROVE  BudgetInv'
  <1>1. /\ lock \in Procs /\ ~Saving(lock) /\ lock' = Null
        /\ UNCHANGED <<scene, entries, generation, budget, call, torn>>
    BY DEF RemoveLock, Saving, BudgetInv, BudgetTypes
  <1>2. \A q \in Procs : ~Saving(q)
    BY <1>1 DEF BudgetInv, WritersLock
  <1>3. BudgetTypes'
    BY <1>1 DEF BudgetInv, BudgetTypes
  <1>4. WritersLock'
    BY <1>1, <1>2 DEF WritersLock, Saving
  <1>5. AllCounted'
    BY <1>1 DEF BudgetInv, AllCounted, Saving, Publishing, Current, Unknown, Cached, FileOf
  <1>6. CacheWithinBudget'
    BY <1>1 DEF BudgetInv, CacheWithinBudget
  <1> QED
    BY <1>3, <1>4, <1>5, <1>6 DEF BudgetInv

LEMMA InitBudget == Init => BudgetInv
  <1> SUFFICES ASSUME Init
               PROVE  BudgetInv
    OBVIOUS
  <1>1. /\ NoBudget.files = {} /\ ~NoBudget.known /\ Idle.step \notin SavingSteps
        /\ Cardinality({}) = 0 /\ MaxEntries \in Nat
    BY FS_EmptySet, BoundsType DEF NoBudget, Idle, SavingSteps
  <1>2. \A p \in Procs : ~Saving(p) /\ ~Current(p)
    BY <1>1 DEF Init, Saving, Current
  <1>3. Cached = {}
    BY DEF Init, Cached
  <1>4. BudgetTypes
    BY <1>1 DEF Init, BudgetTypes
  <1>5. CacheWithinBudget
    <2>1. Cardinality(Cached) = 0 /\ torn = 0
      BY <1>1, <1>3 DEF Init
    <2>2. Cardinality(Cached) <= MaxEntries + torn
      BY <1>1, <2>1
    <2> QED
      BY <2>2 DEF CacheWithinBudget, Cached
  <1> QED
    BY <1>2, <1>4, <1>5 DEF BudgetInv, WritersLock, AllCounted

LEMMA StepBudget == SearchInv /\ BudgetInv /\ [Next]_vars => BudgetInv'
  <1> SUFFICES ASSUME SearchInv, BudgetInv, [Next]_vars
               PROVE  BudgetInv'
    OBVIOUS
  <1>1. scene.procs \subseteq Procs
    BY ScenesType DEF SearchInv, SceneType
  <1>2. ASSUME NEW p \in scene.procs, Begin(p) \/ Step(p) \/ PublishFails(p) \/ Exit(p)
        PROVE  BudgetInv'
    <2>1. p \in Procs
      BY <1>1
    <2>2. Publish(p) => FileOf(p) \in Files
      BY <2>1, SearchIsAt DEF Publish, IsAt
    <2> QED
      BY <1>2, <2>1, <2>2, ReadersKeepBudget, TakeLockKeepsBudget, EvictKeepsBudget,
         WriteEntryKeepsBudget, PublishKeepsBudget, PublishFailsKeepsBudget, ExitKeepsBudget
         DEF Step
  <1>3. ASSUME UNCHANGED <<scene, entries, generation, lock, budget, call, torn>>
        PROVE  BudgetInv'
    BY <1>3 DEF BudgetInv, BudgetTypes, WritersLock, AllCounted, CacheWithinBudget, Saving,
       Publishing, Current, Unknown, Cached, FileOf
  <1>4. ASSUME NEW f \in scene.written, EditFile(f)
        PROVE  BudgetInv'
    BY <1>3, <1>4 DEF EditFile, Edit
  <1>5. UNCHANGED vars => BudgetInv'
    BY <1>3 DEF vars
  <1> QED
    BY <1>2, <1>4, <1>5, RemoveLockKeepsBudget DEF Next

\* The cache keeps to its budget, however many processes fill it and in whatever
\* order, but for one entry for each writer that was killed or failed in between.
THEOREM SearchCacheWithinBudget == Spec => []CacheWithinBudget
  <1>1. BudgetInv => CacheWithinBudget
    BY DEF BudgetInv
  <1> QED
    BY <1>1, InitSearch, StepSearch, InitBudget, StepBudget, PTL DEF Spec
=============================================================================
