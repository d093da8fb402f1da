------------------------------- MODULE Files -------------------------------
(***************************************************************************)
(* The two files of the database as bytes on a disk: lib/storage.mjs,      *)
(* lib/init.mjs, `sessions-db rebuild`.  The log may end in the torn line  *)
(* of a writer that died, and may have lost its oldest part to a rotation; *)
(* the cache may be missing, half written, or of a version that knew less  *)
(* about names.  How calls interleave is the subject of module Store: here *)
(* a write of the database is one step.  initProjection, which takes no    *)
(* lock, is not.                                                           *)
(***************************************************************************)
EXTENDS Reducers

CONSTANTS Scenes   \* cases: what there is at first, what is logged, and bounds

\* Events at first have the ids that NewEvent gives.
ASSUME ScenesType ==
  \A s \in Scenes :
    /\ s.told \in Seq(ToSet(s.told)) /\ s.log \in Seq(ToSet(s.told))
    /\ \A i \in DOMAIN s.told : s.told[i].id = i

VARIABLES
  scene,
  log,      \* the lines: each [event, bad], bad when it does not parse
  open,     \* the last line has no newline
  cache,    \* the cache file [ino, mtime, body], with body Null while there is none
  init,     \* where initProjection is, and the file it is writing
  told,     \* every event whose line was written whole, oldest first
  acked,    \* ids of those whose call answered { ok: true }
  retired,  \* ids of those that went with a rotation
  forgot,   \* a cache was made without a part of what had been told
  left      \* left.writes, tears, rotations, losses, inits, rebuilds: to happen yet

fileVars == <<scene, log, open, cache, init, told, acked, retired, forgot, left>>

Body(p, stamped) == [proj |-> p, stamped |-> stamped]
\* What a file holds that was created and not written yet: not JSON.
Unwritten == [proj |-> Null, stamped |-> FALSE]
NoInit == [step |-> "none", ino |-> 0]

Line(e) == [event |-> e, bad |-> {}]
BadLine(ids) == [event |-> Null, bad |-> ids]
IsBad(line) == line.bad # {}

\* A scene is a record: log, the events in the log, the last of told, all that
\* were ever told; cache, the bodies the cache file may have (Null: no file);
\* templates, what is logged; watched, whether module Watch watches; bounds.
FileInit ==
  /\ scene \in Scenes
  /\ log = [i \in DOMAIN scene.log |-> Line(scene.log[i])]
  /\ open = FALSE
  /\ cache \in {[ino |-> 1, mtime |-> 1, body |-> b] : b \in scene.cache}
  /\ init = NoInit
  /\ told = scene.told
  /\ acked = {e.id : e \in ToSet(scene.told)}
  /\ retired = {e.id : e \in ToSet(scene.told)} \ {e.id : e \in ToSet(scene.log)}
  /\ forgot = FALSE
  /\ left = scene.bounds

HasCache == cache.body # Null

-----------------------------------------------------------------------------
\* Reading.

\* readAllEvents: the lines that parse.
ReadLine(events, line) == IF IsBad(line) THEN events ELSE Append(events, line.event)
Events(lines) == FoldLeft(ReadLine, <<>>, lines)
\* A line that does not parse is an interrupted write when it is the last one
\* and has no newline; else it is damage.
\* A bug to compare with: every last line is.
LastLineIsPartial(lines, ended) ==
  {i \in DOMAIN lines : IsBad(lines[i]) /\ i < Len(lines)}
MiddleCorruptions(lines, ended) ==
  {i \in DOMAIN lines : IsBad(lines[i]) /\ (i < Len(lines) \/ ended)}
\* readAllEventsOrThrow
Throws(lines, ended) == MiddleCorruptions(lines, ended) # {}

\* mergeNamesFromLog: channel by channel, the log's entry where there is one;
\* the two old fields follow the entries.
\* A bug to compare with: the entries of the log replace all others.
MergeWholeSession(s, fromLog) ==
  LET Value(c, old) == IF c \in DOMAIN fromLog THEN fromLog[c].value ELSE old
  IN  RefreshDerivedNames([s EXCEPT !.names = IF DOMAIN fromLog = {} THEN @ ELSE fromLog,
        !.alias = Value("alias", @), !.ai_title = Value("cc_ai_title", @)])
MergeNamesFromLog(s, fromLog) ==
  LET merged == fromLog @@ s.names
      Value(c, old) == IF c \in DOMAIN merged THEN merged[c].value ELSE old
  IN  RefreshDerivedNames([s EXCEPT !.names = merged, !.alias = Value("alias", @),
                                    !.ai_title = Value("cc_ai_title", @)])

\* backfillNamesModel: a log that cannot be read leaves the cache as it is.
BackfillNamesModel(p, lines, ended) ==
  LET rebuilt == RebuildFromEvents(Events(lines)).sessions
      Names(sid) == IF sid \in DOMAIN rebuilt THEN rebuilt[sid].names ELSE EmptyFunction
  IN  IF Throws(lines, ended) THEN Body(p, FALSE)
      ELSE Body([p EXCEPT !.sessions = [sid \in DOMAIN @ |->
                   IF sid \in DOMAIN rebuilt THEN MergeNamesFromLog(@[sid], Names(sid))
                   ELSE @[sid]]], TRUE)

\* loadProjection, Null when it throws.  A cache that is missing or that does
\* not parse is made anew from the log.
FromLog(lines, ended) ==
  IF Throws(lines, ended) THEN Null ELSE Body(RebuildFromEvents(Events(lines)), TRUE)
LoadProjection(lines, ended) ==
  IF cache.body \in {Null, Unwritten} THEN FromLog(lines, ended)
  ELSE IF cache.body.stamped THEN cache.body
  ELSE BackfillNamesModel(cache.body.proj, lines, ended)

-----------------------------------------------------------------------------
\* Writing.

\* A write of the log: what is behind the last newline becomes part of it.
Written(line) == IF open THEN Append(Front(log), line) ELSE Append(log, line)
Glued(ids) == BadLine(ids \union (IF IsBad(Last(log)) THEN Last(log).bad ELSE {Last(log).event.id}))

NewEvent(t) == [id |-> Len(told) + 1, op |-> t.op, sid |-> t.sid, ts |-> t.ts, p |-> t.p]

\* saveProjection: a new file takes the place of the old one.  (No two writes of
\* the cache have the same modification time.)
Saved(body) == [ino |-> cache.ino + 1, mtime |-> cache.mtime + 1, body |-> body]
Spends(what) ==
  /\ left[what] > 0
  /\ left' = [left EXCEPT ![what] = @ - 1]

\* appendEvent, loadProjection, applyEvent, saveProjection.  The event stays in
\* the log when the load throws.
Update(t) ==
  LET e == NewEvent(t)
      line == IF open THEN Glued({e.id}) ELSE Line(e)
      lines == Written(line)
      loaded == LoadProjection(lines, TRUE)
  IN  /\ Spends("writes")
      /\ log' = lines /\ open' = FALSE
      /\ told' = Append(told, e)
      /\ IF loaded = Null THEN UNCHANGED <<cache, acked, forgot>>
         ELSE /\ cache' = Saved([loaded EXCEPT !.proj = ApplyEvent(@, e)])
              /\ acked' = acked \union {e.id}
              /\ forgot' = (forgot \/ (cache.body \in {Null, Unwritten} /\ retired # {}))
      /\ UNCHANGED <<scene, init, retired>>

\* The writer dies within appendFileSync, or the disk is full: some bytes are
\* there, at most all but the newline.  Its call does not answer ok.
TornAppend(t) ==
  LET e == NewEvent(t)
      glued == Glued({e.id})
  IN  /\ Spends("tears")
      /\ \E line \in IF open THEN {glued} ELSE {Line(e), BadLine({e.id})} : log' = Written(line)
      /\ open' = TRUE
      /\ told' = Append(told, e)
      /\ UNCHANGED <<scene, cache, init, acked, retired, forgot>>

\* `sessions-db rebuild` refuses a damaged log, and says that a partial last
\* line was passed over.
Rebuild ==
  LET made == FromLog(log, ~open) IN
  /\ Spends("rebuilds")
  /\ IF made = Null THEN UNCHANGED <<cache, forgot>>
     ELSE /\ cache' = Saved(made)
          /\ forgot' = (forgot \/ retired # {})
  /\ UNCHANGED <<scene, log, open, init, told, acked, retired>>

\* Someone retires the oldest part of the log, or deletes the cache.
IdsOf(line) == IF IsBad(line) THEN line.bad ELSE {line.event.id}
Rotate ==
  /\ Spends("rotations")
  /\ \E k \in DOMAIN log :
       /\ k > 1
       /\ log' = SubSeq(log, k, Len(log))
       /\ retired' = retired \union UNION {IdsOf(log[i]) : i \in 1 .. k - 1}
  /\ UNCHANGED <<scene, open, cache, init, told, acked, forgot>>
DeleteCache ==
  /\ Spends("losses")
  /\ HasCache
  /\ cache' = [cache EXCEPT !.body = Null]
  /\ UNCHANGED <<scene, log, open, init, told, acked, retired, forgot>>

-----------------------------------------------------------------------------
\* initProjection: looks, creates the file unless there is one, writes it.
\* (That a missing log is created empty makes no difference here.)
InitLooks ==
  /\ init = NoInit
  /\ Spends("inits")
  /\ init' = IF HasCache THEN NoInit ELSE [NoInit EXCEPT !.step = "create"]
  /\ UNCHANGED <<scene, log, open, cache, told, acked, retired, forgot>>
\* A bug to compare with: the file is opened without the flag wx.
InitTruncates ==
  /\ init.step = "create"
  /\ cache' = Saved(Unwritten) /\ init' = [step |-> "fill", ino |-> cache.ino + 1]
  /\ UNCHANGED <<scene, log, open, told, acked, retired, forgot, left>>
InitCreates ==
  /\ init.step = "create"
  /\ IF HasCache THEN UNCHANGED cache /\ init' = NoInit
     ELSE cache' = Saved(Unwritten) /\ init' = [step |-> "fill", ino |-> cache.ino + 1]
  /\ UNCHANGED <<scene, log, open, told, acked, retired, forgot, left>>
\* What has been replaced meanwhile is written to no avail.  The log is not
\* looked at.
InitFills ==
  /\ init.step = "fill"
  /\ cache' = IF cache.ino = init.ino /\ HasCache
              THEN [cache EXCEPT !.mtime = @ + 1, !.body = Body(EmptyProjection, TRUE)]
              ELSE cache
  /\ init' = NoInit /\ forgot' = TRUE
  /\ UNCHANGED <<scene, log, open, told, acked, retired, left>>
InitDies ==
  /\ init # NoInit /\ left.tears > 0
  /\ left' = [left EXCEPT !.tears = @ - 1]
  /\ init' = NoInit
  /\ UNCHANGED <<scene, log, open, cache, told, acked, retired, forgot>>

FileNext ==
  \/ \E t \in scene.templates : Update(t) \/ TornAppend(t)
  \/ Rebuild \/ Rotate \/ DeleteCache
  \/ InitLooks \/ InitCreates \/ InitFills \/ InitDies

-----------------------------------------------------------------------------
\* An event whose call answered ok is in the log that a reader sees, or the log
\* is refused as damaged: no rebuild passes over it in silence.  However many
\* torn lines there are, and whatever was appended behind them.
AckedOrRefused ==
  Throws(log, ~open) \/ acked \subseteq retired \union {e.id : e \in ToSet(Events(log))}

\* What storage.mjs says of an append: "the event is durable and a future
\* rebuild reconstructs the projection state".
AckedIsDurable ==
  /\ ~Throws(log, ~open)
  /\ acked \subseteq retired \union {e.id : e \in ToSet(Events(log))}

\* A name outlives the part of the log that told of it: as long as a cache was
\* there when the log was rotated, what a reader loads, from a cache of whatever
\* version, holds for each session and channel the name last told, in the
\* entries, in the two old fields and on display; and the number of namings is
\* never less than the remaining log tells of.
LastTold(sid, c) ==
  LET said == SelectSeq(told, LAMBDA e : e.sid = sid /\ SaysName(e) /\ NameChange(e).channel = c)
  IN  IF said = <<>> THEN Null ELSE Last(said).p.value
Channels == ToSet(Precedence) \ {"first_prompt"}
NamesOutliveTheirLog ==
  LET loaded == LoadProjection(log, ~open) IN
  (/\ loaded # Null /\ ~forgot
   /\ ~(cache.body \in {Null, Unwritten} /\ retired # {})
   /\ acked = {e.id : e \in ToSet(told)}) =>
    \A sid \in DOMAIN loaded.proj.sessions :
      LET s == loaded.proj.sessions[sid]
          now == [c \in Channels |-> LastTold(sid, c)]
          fresh == RebuildFromEvents(Events(log)).sessions
      IN  /\ \A c \in Channels : NameValue(s, c) = now[c]
          /\ s.alias = now["alias"] /\ s.ai_title = now["cc_ai_title"]
          /\ s.preview = Null => s.display = ResolveDisplayName(now @@ "first_prompt" :> Null)
          /\ sid \in DOMAIN fresh => \A c \in DOMAIN fresh[sid].names :
               s.names[c].set_count >= fresh[sid].names[c].set_count

\* "Existing content is NEVER overwritten" by initProjection, whoever writes
\* the database meanwhile: a step of it changes the cache only where there was
\* none, or where it has itself created the file that is there.
InitOverwritesNothing ==
  [][init' # init /\ cache' # cache =>
       ~HasCache \/ (cache.ino = init.ino /\ cache.body = Unwritten)]_fileVars
=============================================================================
