---------------------------- MODULE SearchCache ----------------------------
(***************************************************************************)
(* `sessions-db search --content`: the transcripts of a session are read   *)
(* for the query (cli/search.mjs), through a cache of the texts they hold  *)
(* (lib/search-cache.mjs) that several searches share and that agents know *)
(* nothing of: they go on writing the transcripts meanwhile.               *)
(*                                                                         *)
(* A transcript is a sequence of records, each with a text that contains   *)
(* one of the queries or none; a stream delivers it in chunks of records,  *)
(* and files change between any two chunks.  The hash of some bytes is     *)
(* those bytes.  Each process is one run of the command after another.     *)
(***************************************************************************)
EXTENDS Naturals, SequencesExt

CONSTANTS
  Null,
  Procs, Files, Sessions, Queries,
  Holding,     \* Holding[q]: the records whose text contains q
  Noise,       \* a record without a text: a tool's, or a malformed line
  Scenes,      \* cases: what the files hold at first, and bounds (see SceneType)
  Recorded,    \* Recorded[s]: transcript_files of the session, a sequence
  Folder,      \* the files in the folder of its cwd
  Embedded,    \* Embedded[f]: the session whose id is in the file
  MaxFileSize, \* --max-file-mb, in records
  MaxTexts,    \* DEFAULT_LIMITS.entryBytes, in texts
  MaxEntries,  \* DEFAULT_LIMITS.entries (totalBytes is its like)
  MaxChunk     \* bound: the records of a chunk

Records == UNION {Holding[q] : q \in Queries} \union {Noise}
SceneType ==
  [procs : SUBSET Procs, start : [Files -> Seq(Records)],
   about : SUBSET Sessions, asks : SUBSET Queries, written : SUBSET Files,
   edits : Nat, calls : Nat, faults : Nat]
ASSUME ScenesType == Scenes \subseteq SceneType
\* What says nothing contains no query.
ASSUME RecordsType == Null \notin Records /\ \A q \in Queries : Noise \notin Holding[q]
ASSUME FilesType ==
  IsFiniteSet(Files) /\ Folder \subseteq Files /\ Recorded \in [Sessions -> Seq(Files)]
ASSUME ProcsType == Null \notin Procs

VARIABLES
  scene,
  content,    \* content[f]: the records of transcript f
  tick,       \* tick[f]: its time stamps
  entries,    \* entries[f]: the cache entry of f, Null without one
  generation, \* .generation, which every writer of the cache replaces
  lock,       \* who holds .write.lock
  budget,     \* budget[p]: what p remembers of the cache directory
  call,       \* call[p]: where p is
  seen,       \* seen[p]: what the file p is at has held since p opened it
  left,       \* left.edits, left.calls, left.faults: what is still to happen
  torn        \* entries written whose writer could not tell the others

vars == <<scene, content, tick, entries, generation, lock, budget, call, seen, left, torn>>

ASSUME BoundsType == {MaxFileSize, MaxTexts, MaxEntries, MaxChunk} \subseteq Nat

Idle == [step |-> "idle", query |-> Null, todo |-> <<>>, stamp |-> Null,
         entry |-> Null, read |-> <<>>, answer |-> Null]
NoBudget == [stamp |-> Null, files |-> {}, known |-> FALSE]

Init ==
  /\ scene \in Scenes
  /\ content = scene.start
  /\ tick = [f \in Files |-> 0]
  /\ entries = [f \in Files |-> Null]
  /\ generation = 0
  /\ lock = Null
  /\ budget = [p \in Procs |-> NoBudget]
  /\ call = [p \in Procs |-> Idle]
  /\ seen = [p \in Procs |-> {}]
  /\ left = [edits |-> scene.edits, calls |-> scene.calls, faults |-> scene.faults]
  /\ torn = 0

-----------------------------------------------------------------------------
\* The files.

\* fingerprint: the size and the time stamps.
Fingerprint(f) == <<Len(content[f]), tick[f]>>

\* The first of some texts that contains the query, and what precedes it.
FirstHit(texts, q) ==
  LET hits == {i \in DOMAIN texts : texts[i] \in Holding[q]}
  IN  IF hits = {} THEN 0 ELSE Min(hits)
Snippet(texts, q) == IF FirstHit(texts, q) = 0 THEN Null ELSE texts[FirstHit(texts, q)]
\* recordText, of each record.
AddText(texts, r) == IF r = Noise THEN texts ELSE Append(texts, r)
TextsOf(records) == FoldLeft(AddText, <<>>, records)

\* discoverTranscriptPaths: without recorded files, those of the folder that
\* hold the session's id and are not too large.
DiscoverTranscriptPaths(s) ==
  SetToSeq({f \in Folder : Len(content[f]) <= MaxFileSize /\ Embedded[f] = s})
PathsOf(s) == IF Recorded[s] # <<>> THEN Recorded[s] ELSE DiscoverTranscriptPaths(s)

\* Everything a file holds: its length and the record at each place.
Holds(records) ==
  {<<0, Len(records)>>} \union {<<i, records[i]>> : i \in DOMAIN records}
FileOf(p) == Head(call[p].todo)
IsAt(p) == call[p].step \notin {"idle", "next"}

\* An agent appends a record, or some tool replaces one by another of the same
\* size or cuts the file short; the clock of the file system may not have moved
\* since the last write.
Edit(f, records) ==
  /\ left.edits > 0
  /\ left' = [left EXCEPT !.edits = @ - 1]
  /\ content' = [content EXCEPT ![f] = records]
  /\ \E t \in {tick[f], tick[f] + 1} : tick' = [tick EXCEPT ![f] = t]
  /\ seen' = [p \in Procs |->
                IF IsAt(p) /\ FileOf(p) = f THEN seen[p] \union Holds(records) ELSE seen[p]]
  /\ UNCHANGED <<scene, entries, generation, lock, budget, call, torn>>
EditFile(f) ==
  \/ \E r \in Records : Edit(f, Append(content[f], r))
  \/ \E i \in DOMAIN content[f], r \in Records :
       content[f][i] # r /\ Edit(f, [content[f] EXCEPT ![i] = r])
  \/ \E n \in 1 .. Len(content[f]) : Edit(f, SubSeq(content[f], 1, n - 1))

-----------------------------------------------------------------------------
\* A search.

Goes(p, c) ==
  /\ call' = [call EXCEPT ![p] = c]
  /\ UNCHANGED <<scene, content, tick, left, torn>>
\* The same for a step that only reads.
Reads(p, c) == Goes(p, c) /\ UNCHANGED <<entries, generation, lock, budget, seen>>

Begin(p) ==
  /\ call[p].step = "idle" /\ left.calls > 0
  /\ \E s \in scene.about, q \in scene.asks :
       call' = [call EXCEPT ![p] = [Idle EXCEPT !.step = "next", !.query = q,
                                                !.todo = PathsOf(s)]]
  /\ left' = [left EXCEPT !.calls = @ - 1]
  /\ UNCHANGED <<scene, content, tick, entries, generation, lock, budget, seen, torn>>

\* scanSessionContent: the next file, unless it is too large.  Files that are
\* missing or cannot be read are left out.
NextFile(p) ==
  /\ call[p].step = "next"
  /\ IF call[p].todo = <<>> THEN Reads(p, Idle)
     ELSE IF Len(content[FileOf(p)]) > MaxFileSize
     THEN Reads(p, [call[p] EXCEPT !.todo = Tail(@)])
     ELSE /\ Goes(p, [call[p] EXCEPT !.step = "entry", !.stamp = Fingerprint(FileOf(p))])
          /\ seen' = [seen EXCEPT ![p] = Holds(content[FileOf(p)])]
          /\ UNCHANGED <<entries, generation, lock, budget>>

\* readEntry, and whether its texts can settle the query: a prefix proves a hit
\* but no absence.
Settles(e, q) == e.complete \/ Snippet(e.texts, q) # Null
ReadEntry(p) ==
  LET e == entries[FileOf(p)]
      usable == e # Null /\ e.stamp = call[p].stamp /\ Settles(e, call[p].query)
  IN  /\ call[p].step = "entry"
      /\ Reads(p, [call[p] EXCEPT !.step = IF usable THEN "verify" ELSE "scan",
                                  !.entry = IF usable THEN e ELSE Null])

\* One chunk of a stream that ends with the file, or after `end` records.
Chunk(p, end) ==
  LET from == Len(call[p].read)
      upto == Min({end, Len(content[FileOf(p)])})
  IN  \E n \in 1 .. MaxChunk :
        /\ from + n <= upto
        /\ Reads(p, [call[p] EXCEPT
             !.read = @ \o SubSeq(content[FileOf(p)], from + 1, from + n)])
AtEnd(p, end) == Len(call[p].read) >= Min({end, Len(content[FileOf(p)])})

\* sourceMatches: all of the source for a complete entry, else as many bytes as
\* were read for it.
EndOf(p) ==
  IF call[p].entry.complete THEN Len(content[FileOf(p)]) ELSE Len(call[p].entry.source)
VerifyChunk(p) == call[p].step = "verify" /\ Chunk(p, EndOf(p))
\* A bug to compare with: size and time stamps are believed.
StampIsEnough(p) == Fingerprint(FileOf(p)) = call[p].stamp
SourceMatches(p) ==
  /\ call[p].read = call[p].entry.source
  /\ Fingerprint(FileOf(p)) = call[p].stamp
VerifyEnd(p) ==
  /\ call[p].step = "verify" /\ AtEnd(p, EndOf(p))
  /\ Reads(p, IF SourceMatches(p)
              THEN [call[p] EXCEPT !.step = "reply",
                      !.answer = Snippet(call[p].entry.texts, call[p].query)]
              ELSE [call[p] EXCEPT !.step = "scan", !.read = <<>>, !.entry = Null])

\* scanSource: up to the chunk of the first hit.
Found(p) == FirstHit(call[p].read, call[p].query) # 0
ScanChunk(p) == call[p].step = "scan" /\ ~Found(p) /\ Chunk(p, Len(content[FileOf(p)]))
\* The texts are those before the hit and the hit; too many are not kept, and
\* nothing is that may be older than the time stamps.
ScanEnd(p) ==
  LET c == call[p]
      texts == TextsOf(IF Found(p) THEN SubSeq(c.read, 1, FirstHit(c.read, c.query))
                       ELSE c.read)
      e == [stamp |-> c.stamp, texts |-> texts, complete |-> ~Found(p), source |-> c.read]
      save == Len(texts) <= MaxTexts /\ Fingerprint(FileOf(p)) = c.stamp
  IN  /\ c.step = "scan"
      /\ Found(p) \/ AtEnd(p, Len(content[FileOf(p)]))
      /\ Reads(p, [c EXCEPT !.step = IF save THEN "lock" ELSE "reply",
                            !.entry = IF save THEN e ELSE Null,
                            !.answer = Snippet(c.read, c.query)])

\* The first file with a hit ends the search of the session.
Reply(p) ==
  /\ call[p].step = "reply"
  /\ call' = [call EXCEPT ![p] =
       IF call[p].answer # Null THEN Idle
       ELSE [Idle EXCEPT !.step = "next", !.query = call[p].query,
                         !.todo = Tail(call[p].todo)]]
  /\ seen' = [seen EXCEPT ![p] = {}]
  /\ UNCHANGED <<scene, content, tick, entries, generation, lock, budget, left, torn>>

-----------------------------------------------------------------------------
\* saveEntry.  The search has its answer; whatever fails here is passed over.

SavingSteps == {"evict", "publish"}

\* A bug to compare with: the directory is read once.
ReadDirectoryOnce(p) ==
  IF budget[p].known THEN budget[p]
  ELSE [stamp |-> generation, files |-> {f \in Files : entries[f] # Null}, known |-> TRUE]
\* budgetFor: what is remembered holds while nobody else wrote.
BudgetFor(p) ==
  IF budget[p].known /\ budget[p].stamp = generation THEN budget[p]
  ELSE [stamp |-> generation, files |-> {f \in Files : entries[f] # Null}, known |-> TRUE]

\* A bug to compare with: the search waits for its turn to write.
WaitForLock(p) ==
  /\ call[p].step = "lock" /\ lock = Null
  /\ lock' = p
  /\ budget' = [budget EXCEPT ![p] =
                  [BudgetFor(p) EXCEPT !.files = @ \ {FileOf(p)}]]
  /\ Goes(p, [call[p] EXCEPT !.step = "evict"])
  /\ UNCHANGED <<entries, generation, seen>>
\* acquireLock with a timeout of 0.
TakeLock(p) ==
  /\ call[p].step = "lock"
  /\ IF lock # Null THEN Reads(p, [call[p] EXCEPT !.step = "reply"])
     ELSE /\ lock' = p
          /\ budget' = [budget EXCEPT ![p] =
                          [BudgetFor(p) EXCEPT !.files = @ \ {FileOf(p)}]]
          /\ Goes(p, [call[p] EXCEPT !.step = "evict"])
          /\ UNCHANGED <<entries, generation, seen>>

\* One entry goes while there is no room; which, the oldest, is left to chance.
\* It may be gone already, when another writer died: all is forgotten.
Evict(p) ==
  /\ call[p].step = "evict" /\ Cardinality(budget[p].files) >= MaxEntries
  /\ \E f \in budget[p].files :
       IF entries[f] # Null
       THEN /\ entries' = [entries EXCEPT ![f] = Null]
            /\ budget' = [budget EXCEPT ![p].files = @ \ {f}]
            /\ UNCHANGED <<generation, lock, call, seen>>
       ELSE /\ budget' = [budget EXCEPT ![p] = NoBudget]
            /\ lock' = Null
            /\ call' = [call EXCEPT ![p].step = "reply"]
            /\ UNCHANGED <<entries, generation, seen>>
  /\ UNCHANGED <<scene, content, tick, left, torn>>

\* The entry is renamed into place, then the other writers are told.
WriteEntry(p) ==
  /\ call[p].step = "evict" /\ Cardinality(budget[p].files) < MaxEntries
  /\ entries' = [entries EXCEPT ![FileOf(p)] = call[p].entry]
  /\ Goes(p, [call[p] EXCEPT !.step = "publish"])
  /\ UNCHANGED <<generation, lock, budget, seen>>
Publish(p) ==
  /\ call[p].step = "publish"
  /\ generation' = generation + 1
  /\ budget' = [budget EXCEPT ![p] = [stamp |-> generation + 1, known |-> TRUE,
                                      files |-> @.files \union {FileOf(p)}]]
  /\ lock' = Null
  /\ Goes(p, [call[p] EXCEPT !.step = "reply"])
  /\ UNCHANGED <<entries, seen>>

\* .generation cannot be written whole: it stays as it was or is left empty, which
\* is taken for a stamp that nobody remembers (nobody does unless it happened
\* before).
Unwritten == {generation, generation + 1}
\* Then all is forgotten, but the entry is in place.
PublishFails(p) ==
  /\ call[p].step = "publish" /\ left.faults > 0
  /\ generation' \in Unwritten
  /\ budget' = [budget EXCEPT ![p] = NoBudget]
  /\ lock' = Null
  /\ call' = [call EXCEPT ![p].step = "reply"]
  /\ left' = [left EXCEPT !.faults = @ - 1]
  /\ torn' = torn + 1
  /\ UNCHANGED <<scene, content, tick, entries, seen>>

\* The command ends, or is killed, and then its lock stays.
Exit(p) ==
  /\ call[p].step = "idle" \/ left.faults > 0
  /\ budget[p] # NoBudget \/ call[p] # Idle
  /\ call' = [call EXCEPT ![p] = Idle]
  /\ budget' = [budget EXCEPT ![p] = NoBudget]
  /\ seen' = [seen EXCEPT ![p] = {}]
  /\ left' = IF call[p].step = "idle" THEN left ELSE [left EXCEPT !.faults = @ - 1]
  /\ IF call[p].step = "publish"
     THEN torn' = torn + 1 /\ generation' \in Unwritten
     ELSE UNCHANGED <<torn, generation>>
  /\ UNCHANGED <<scene, content, tick, entries, lock>>
\* No process does away with it: somebody removes it by hand, when nobody writes
\* under it any more (acquireLock knows no stale locks).
RemoveLock ==
  /\ lock # Null /\ call[lock].step \notin SavingSteps
  /\ lock' = Null
  /\ UNCHANGED <<scene, content, tick, entries, generation, budget, call, seen, left, torn>>

Step(p) ==
  \/ NextFile(p) \/ ReadEntry(p) \/ VerifyChunk(p) \/ VerifyEnd(p) \/ ScanChunk(p)
  \/ ScanEnd(p) \/ TakeLock(p) \/ Evict(p) \/ WriteEntry(p) \/ Publish(p)
  \/ Reply(p)

Next ==
  \/ \E p \in scene.procs : Begin(p) \/ Step(p) \/ PublishFails(p) \/ Exit(p)
  \/ \E f \in scene.written : EditFile(f)
  \/ RemoveLock

\* A running command goes on; nothing else need happen.
Spec == Init /\ [][Next]_vars /\ \A p \in Procs : WF_vars(Step(p))

-----------------------------------------------------------------------------
\* held, a set of pairs as in Holds, bears an answer out.
Answers(held, q, answer) ==
  LET Without(n) == \A i \in 1 .. n :
        \E pair \in held : pair[1] = i /\ pair[2] \notin Holding[q]
  IN  IF answer = Null
      THEN \E n \in {pair[2] : pair \in {x \in held : x[1] = 0}} : Without(n)
      ELSE \E pair \in held : pair[1] # 0 /\ pair[2] = answer /\ Without(pair[1] - 1)

\* A search answers for a file what reading it from one end to the other during
\* the search could have, cached or not: a text found stood at its place at
\* some moment of the search, and each place before it held, at some moment,
\* a record without the query; when nothing was found, that goes for each place
\* of the file, at a length it had.  However the file was rewritten between
\* and during the searches, and whether or not its time stamps show it.
AnswersAsSource ==
  \A p \in Procs :
    call[p].step = "reply" => Answers(seen[p], call[p].query, call[p].answer)

\* The cache keeps to its budget whoever fills it, but for one entry for each
\* writer that was killed, or failed, before it could tell the others of it.
CacheWithinBudget ==
  Cardinality({f \in Files : entries[f] # Null}) <= MaxEntries + torn

\* No search waits for the cache: one that goes on comes to its end, though
\* another be killed while it holds the lock.
EverySearchEnds == \A p \in Procs : call[p].step # "idle" ~> call[p].step = "idle"
=============================================================================
