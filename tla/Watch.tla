------------------------------- MODULE Watch -------------------------------
(***************************************************************************)
(* lib/watch.mjs: a process that is told when the cache file changes.  Two *)
(* signals feed one listener: fs.watch, which follows the file it was      *)
(* attached to (not the path), may fail, and may miss a change; and a poll *)
(* of the modification time.  Signals within a debounce interval are one   *)
(* call.  The file is that of module Files.                                *)
(*                                                                         *)
(* Assumed: no two writes of the file have the same modification time.    *)
(***************************************************************************)
EXTENDS Files

VARIABLES
  watching,  \* "off", "attached" (within watchProjection), "on", "disposed"
  watcher,   \* fsWatcher: the file it is attached to, Null without
  signals,   \* what fs.watch has to deliver
  baseline,  \* lastMtimeMs
  poll,      \* "wait", or "read" within the timer's callback
  pending,   \* pendingTimer is set
  stale      \* the file has changed since the listener was called

watchVars == <<watching, watcher, signals, baseline, poll, pending, stale>>
vars == <<fileVars, watchVars>>

WatchInit ==
  /\ watching = "off" /\ watcher = Null /\ signals = {} /\ baseline = Null
  /\ poll = "wait" /\ pending = FALSE /\ stale = FALSE
Init == FileInit /\ WatchInit

\* readMtimeSafe; and what tryAttachWatcher may lead to.
ReadMtime == IF HasCache THEN cache.mtime ELSE Null
Attach == watcher' \in IF watcher = Null /\ HasCache THEN {cache.ino, Null} ELSE {watcher}

\* fireSoon: a timer that runs already is left to run.
FireSoon == pending' = TRUE

-----------------------------------------------------------------------------
\* watchProjection: attaches, then takes the baseline.
StartWatching ==
  /\ scene.watched /\ watching = "off"
  /\ watching' = "attached"
  /\ Attach
  /\ UNCHANGED <<fileVars, signals, baseline, poll, pending, stale>>
TakeBaseline ==
  /\ watching = "attached"
  /\ watching' = "on" /\ baseline' = ReadMtime /\ stale' = FALSE
  /\ UNCHANGED <<fileVars, watcher, signals, poll, pending>>

\* The callback of fs.watch: the file is another now, so it lets go of it.
Deliver(signal) ==
  /\ watching = "on" /\ poll = "wait" /\ signal \in signals
  /\ signals' = IF signal = "rename" THEN {} ELSE signals \ {signal}
  /\ watcher' = IF signal = "rename" THEN Null ELSE watcher
  /\ FireSoon
  /\ UNCHANGED <<fileVars, watching, baseline, poll, stale>>
WatcherFails ==
  /\ watching = "on" /\ poll = "wait" /\ watcher # Null
  /\ watcher' = Null /\ signals' = {}
  /\ UNCHANGED <<fileVars, watching, baseline, poll, pending, stale>>

\* The callback of the poll timer, between whose steps others write the file.
PollAttaches ==
  /\ watching = "on" /\ poll = "wait"
  /\ poll' = "read"
  /\ Attach
  /\ UNCHANGED <<fileVars, watching, signals, baseline, pending, stale>>
\* A bug to compare with: the first sight of the file is no change.
PollNeedsBaseline ==
  /\ poll = "read"
  /\ poll' = "wait"
  /\ baseline' = ReadMtime
  /\ IF Null \in {ReadMtime, baseline} \/ ReadMtime = baseline
     THEN UNCHANGED pending ELSE FireSoon
  /\ UNCHANGED <<fileVars, watching, watcher, signals, stale>>
PollReads ==
  /\ poll = "read"
  /\ poll' = "wait"
  /\ baseline' = ReadMtime
  /\ IF ReadMtime \in {Null, baseline} THEN UNCHANGED pending ELSE FireSoon
  /\ UNCHANGED <<fileVars, watching, watcher, signals, stale>>

\* The timer runs out and the listener is called, which reads the file.
Fire ==
  /\ watching = "on" /\ poll = "wait" /\ pending
  /\ pending' = FALSE /\ stale' = FALSE
  /\ UNCHANGED <<fileVars, watching, watcher, signals, baseline, poll>>

Dispose ==
  /\ watching = "on" /\ poll = "wait"
  /\ watching' = "disposed"
  /\ watcher' = Null /\ signals' = {} /\ pending' = FALSE
  /\ UNCHANGED <<fileVars, baseline, poll, stale>>

\* A step of module Files, seen by fs.watch: a file that is replaced or removed
\* says "rename", one that is written in place "change"; or nothing is said.
FileStep ==
  /\ FileNext
  /\ \/ UNCHANGED signals
     \/ /\ cache' # cache /\ watcher # Null /\ watcher = cache.ino
        /\ signals' = signals \union
             {IF cache'.ino = cache.ino /\ cache'.body # Null THEN "change" ELSE "rename"}
  /\ stale' = IF cache' # cache THEN cache'.body # Null ELSE stale
  /\ UNCHANGED <<watching, watcher, baseline, poll, pending>>

Next ==
  \/ FileStep
  \/ StartWatching \/ TakeBaseline \/ PollAttaches \/ PollReads \/ WatcherFails
  \/ \E signal \in {"change", "rename"} : Deliver(signal)
  \/ Fire \/ Dispose

\* Timers run: one that is due is not passed over for ever by
\* another, each runs in between.  Nobody has to write, and fs.watch need say
\* nothing.
Spec ==
  /\ Init /\ [][Next]_vars
  /\ WF_vars(PollAttaches) /\ WF_vars(PollReads) /\ SF_vars(Fire)

-----------------------------------------------------------------------------
\* Whoever watches hears of every change of the cache: the listener is called
\* after it, unless the watch is given up or the file is gone by then.  Also
\* when fs.watch says nothing or late, when the file is replaced between the
\* steps of the poll, and when it was missing at first.
ChangesAreHeard ==
  (watching = "on" /\ stale) ~> (~stale \/ watching = "disposed")
=============================================================================
