# A TLA+ model of sessions-db

sessions-db records the sessions of coding agents (Claude Code, Codex) in a
workspace. It has no server: hooks and commands are short-lived Node processes
that share a few files and coordinate through a lock file. This directory holds
TLA+ modules that model the code under `src/`, TLC configurations that check
them on small instances, and TLAPS proofs. `PROJECT.json` lists the components,
runs, findings, hazards and theorems, and maps every definition to its lines.

## 1. The system

```
 SessionStart ─┐   UserPrompt ─┐   Codex hook ─┐   CLI / library calls ─┐
   shim, stdin, gate, git, storage target (hook-common, git-context, paths)
               │               │               │                        │
      pending records, promoter marker (pending)        decide on an unlocked snapshot
               ▼               ▼               ▼                        ▼
   recordSessionSeen   tryUpdateProjection  recordCodexObservation   rebuild, prune
     (identity)          (operations, harvest, sweep)
               └───────────────┴───────┬───────┴────────────────────────┘
                              lock file (lock)
          events.jsonl (append-only) ──fold (projection, names, pr-links)──▶ sessions-db.json
                  │                                                              │
            search, names (history)                        find, tree, search ◀──┴──▶ watch
```

| Component | State | Operations | What makes it correct | Hard part |
|---|---|---|---|---|
| Lock (`lock.mjs`) | a file created with `O_EXCL` | acquire with deadline, release | two callers of one path never both hold it; nobody waits for ever | the holder dies; release unlinks without looking |
| Event log and cache (`storage.mjs`) | `events.jsonl`, `sessions-db.json` | record, update, rebuild, load, save | acknowledged events stay; the cache shows only what the log holds | who appends, folds and saves when; each step may fail; torn lines, rotation, caches of older versions |
| Reducers (`projection.mjs`) | the projection | one reducer per event | a replay changes nothing; times do not depend on the order of folding | cold caches, clocks |
| Names (`names.mjs`), links (`pr-links.mjs`) | `names[]`, `pr_links[]` | name, clear, display, history; merge a sighting | current names, history, display and search agree with the log | caps, the two old fields, same-naming rule |
| Paths (`paths.mjs`, `hook-common.mjs`) | which databases exist | resolve, gate | hooks and commands use one database; none is scattered | two resolvers, two layouts |
| Hook process (shims, `git-context.mjs`) | timers, child processes | stdin, probes, gates | a hook keeps to its time, and believes of git what it said | slow, hanging, killed gits |
| Identity (`identity.mjs`) | none (reads the projection) | resolve an agent id | one session per agent id, no join on weak evidence | forks, copies, a stale reading of a transcript |
| Pending, promoter (`pending.mjs`) | a file per unspoken session, a marker | stage, promote, collect, retire | a session that spoke is recorded; a start time is not lost | every file may change between two accesses |
| Operations (`operations.mjs`) | none | alias, name, link, parent, close | no cycle among parents | checks on unlocked snapshots |
| Sweep (`operations.mjs`) | none | active → idle → archived | after a sweep `find` agrees with the ages | decides from an old snapshot |
| Prune (`prune.mjs`) | none | tombstones for ghosts | nothing anybody touched is removed | a scan that is partial or old |
| Harvest (`harvest.mjs`) | none | names and links from transcripts | everything stored, nothing logged twice | suppression must be what the reducer does |
| Codex (`codex-*.mjs`) | none | observe, ingest, sync names | one session per thread; names advance | hook and ingestion cross |
| Initialisation (`init.mjs`) | the cache | look, create, fill | overwrites nothing | takes no lock |
| Content search (`search-cache.mjs`) | entries, budget, lock, generation | search, fill, evict | answers as the source would; keeps its budget | files rewritten under it, writers killed |
| Watch (`watch.mjs`) | watcher, baseline, debounce | attach, poll, fire, dispose | every change is heard | replaced files, silent watchers |
| Views (`cli/find`, `tree`, `search`, `names`) | none | read | agree with each other and the log | cycles, depth limits, two copies of a name |

What is left out is listed in section 7.

## 2. Modules

| Module | Models | Correspondence |
|---|---|---|
| `FileLock` | `lock.mjs` | `lockFile[l]` is the creator of the file at path `l`, `holding` the live handles. Different processes may resolve to different paths. |
| `SessionRegistry` | abstract | what the store promises of identity: an agent id, once bound to a session, stays bound to it. |
| `Store` (EXTENDS `FileLock`) | `storage.mjs`: calls as processes | one action per file access; `pc[p]` is the place in the call, `snap[p]` the projection in memory, `evt[p]` the event being written. A projection is the sequence of events folded into it. |
| `Reducers` | `projection.mjs`, the folds of `names.mjs` and `pr-links.mjs` | pure: one operator per reducer, `ApplyEvent` for the dispatch. Used by `Projection`, `Operations`, `Files`. |
| `Projection` | logging and folding one event after another | `log`, `folded`, `proj`; the actions say in which order events may be folded. |
| `Search` (EXTENDS `Projection`) | `search` over names, `names` | readers of projection and log. |
| `Operations` (EXTENDS `Reducers`) | operations, sweep, harvest, prune, Codex | a call reads, decides (`call[p].plan`) and commits event by event, or everything under the lock where the code does. `sessions` is what the cache holds, `logged` what a rebuild would fold from the log. |
| `Commands` (EXTENDS `Operations`) | the writing commands of `cli/` | one action per command: usage errors, refusals, dry runs, then the operation. |
| `Listing` (EXTENDS `Commands`) | `find`, table rows | filters, order and limit; the label of a row. |
| `Views` (EXTENDS `Listing`) | `tree` | the walks of text and JSON, an operator each. They are RECURSIVE, hence a module apart from what is proved. |
| `Identity` | `identity.mjs`, hooks, transcripts as the parser sees them | `ResolveIdentity` is the chain index, lineage, fingerprint, hints; a hook reads a transcript in one step and records in another. |
| `Deferral` | `pending.mjs` and the hooks around it | one action per access to a pending file, the marker or the projection; `hook[p].at` names the next one. |
| `PathRules`, `StoragePaths` | `paths.mjs`, `resolvePaths`, `hook-common.mjs`, the gates of both hooks | the pure rules; and databases that appear and disappear around them. |
| `HookProcess` (EXTENDS `StoragePaths`) | shims, `readStdinJson`, `git-context.mjs` | one hook step by step, with its timers and the git processes it starts. |
| `Files` (EXTENDS `Reducers`) | `storage.mjs` and `init.mjs` over bytes | the log is a sequence of lines, some bad, the last perhaps open; the cache has an inode, a modification time and a body. |
| `Watch` (EXTENDS `Files`) | `watch.mjs` | attach, poll, signals, debounce. |
| `SearchCache` | `cli/search.mjs --content`, `search-cache.mjs` | processes read transcripts chunk by chunk and share cache entries, a lock and a generation. |
| `StoreProofs`, `HookProofs`, `FilesProofs`, `ProjectionProofs`, `IdentityProofs`, `OperationsProofs`, `SearchCacheProofs` | proofs | section 5 |
| `Folding` | lemmas | what `FoldLeft` computes, for any operator |
| `MC*` | instances for TLC | `MCStoreDrift` composes `Store` with the lock paths that `PathRules` computes; the others choose constants and cases. |

How the modules share the work: `Store` opens up what a commit is (lock, load,
append, apply, save, release, and each failure); `Operations`, `Deferral` and
`Identity` take a commit as one step, because `Store` shows that commits of one
lock path are serial. In `Operations` that step goes through, or fails before
its append, or fails after it: then the call answers that it failed, its event
is in `logged` and not in `sessions`, and a later `Rebuild` folds it (`unfolded`
has the ops of such events, `late` those that a rebuild has folded, as far as
they bind a session to a parent or a thread). In
`Deferral` and `Identity` it goes through or nothing is written; what a
half commit does to an agent id is in `Store`. `Store` leaves the weak matches
of identity as a free choice, `Identity` says which they are. `StoragePaths`
takes the outcome of asking git as one of three, `HookProcess` derives it
(`NotARepoIsTrue` says that what it derives is what the other assumes).

How the store's actions correspond to the code:

| Code | Actions |
|---|---|
| `recordSessionSeen`: lock, load, resolve, append, apply, save, release | `HookBegin`, `Acquire`, `HookLoad`, `HookAppend`, `Save`, `Release`; early returns `GiveUp`, `LoadFails`, `HookAppendFails`, `SaveFails` |
| an operation: look the session up, append, lock, load, apply, save, release | `WriterBegin`, `WriterAppend`, `Acquire`, `WriterLoad`, `Save`, `Release`; early returns `WriterAppendFails`, `GiveUp`, `LoadFails`, `SaveFails` |
| `rebuildProjection`: fold the log, lock, save, release | `RebuildRead`, `Acquire`, `Save`, `Release` |
| death of a process, deleted cache, deleted lock | `Crash`, `LoseCache`, `RemoveLock` |

Abstractions worth knowing. A session record has one field per merge rule:
`branch` stands for all fields where the last write wins, `preview` for all
where the first one does. Times are small naturals. `Junk` is a text that
cleaning reduces to nothing, as old logs hold it. That a text contains a query
is their being equal (`Search`) or a fixed relation (`SearchCache`). A hash of
bytes is those bytes; a fingerprint is the values it is a hash of. In
`StoragePaths` directories form a chain, 1 the deepest.

## 3. Runs

Passing:

| Run | Instance | Shows |
|---|---|---|
| `store_identity` | 2 hooks, 1 writer, 2 agent ids, 3 events; crash, failing append, lost cache | `AckedIsFolded`, `SeenFoldedOnce`, `CacheOnlyGrows`, and that the store implements `SessionRegistry` (`IdentityIsStable`) |
| `store_faults` | 1 hook, 1 writer, 1 rebuilder, 2 events; every fault, a failing unlink of the lock file among them | `TypeOK` (a live handle exactly between acquire and release), `Exclusive`, `CacheIsLogged`, and under fairness `EveryCallReturns` |
| `deferral` | 2 hooks at a time, 2 ids, 3 hours; prompts with and without a preview; writes, stagings and loads that fail, hooks that are killed | `StartLeavesTrace`, `SpokenIsRecorded`, `PromotedBeforeDeleted`, `DistrustSticks` |
| `projection` | one session, one family of events around its names and one around the rest of its record, logs of 4; among the channels `first_prompt` and one that no version of the code knows | `ReplayIsNoop`, `NamesFollowLog`, `TimesConverge`, `LinksFollowLog`, and of the readers `SearchFindsNames`, `NamesViewAgrees` |
| `operations` | 2 processes, six workloads (parents; sweeps while sessions speak; aliases, names and outcomes; harvests of a growing transcript; prunes under partial scans, beside links; Codex ingestion, hook and name synchronisation); any write may fail before or after its append, and rebuilds fold the log | `CycleNeedsOverlap`, `HarvestIsExact`, `OneSessionPerThread`, `ViewsAgree` (`TreeIsWhole` and `AliasAgrees`), `SweepThenFind`, `PruneSparesTheLiving`, `ThreadNamesAdvance` |
| `identity` | 3 ids in 3 places; strangers who say the same or not (two prompts), forks, copies, moves, hooks that are handed another id's transcript | `WeakEvidenceNeverJoins`, `IdentitySticks`, `HintsAreComplete` |
| `content_search` | one transcript extended, overwritten or truncated while searched (alone, and with a second search); two files that compete for one entry, with two faults (a kill, or a `.generation` that cannot be written) | `AnswersAsSource`, `CacheWithinBudget`, and under fairness `EverySearchEnds` |
| `files` | caches of older versions beside rotated logs; damage, deletion and an initialiser; a watch | `AckedOrRefused`, `NamesOutliveTheirLog`, `InitOverwritesNothing`, and under fairness `ChangesAreHeard` |
| `storage_paths` | 4 nested directories, ascent of 3, worktree root the third; hooks in one step and step by step | `CommandsFindHookDatabase`, `PromptScattersNothing`, `ProbesShareBudget`, `NotARepoIsTrue` |

Expected violations: each states what a comment or document of the repository
promises, and TLC finds a run of the code that breaks it (quotes in
`PROJECT.json`).

| Run | Violates | What happens |
|---|---|---|
| `rebuild_race` | `AckedIsFolded` | rebuild folds the log before it takes the lock and overwrites an event that was acknowledged meanwhile |
| `lock_drift` | `AckedIsFolded` | `{ root }` locks `sessions-db.lock`, no options lock `sessions-db.json.lock`, on the same files: an update is lost |
| `torn_tail` | `AckedIsDurable` | an event appended behind a torn line becomes part of it; every rebuild from then on refuses the log |

`AckedOrRefused` (run `files`) is what remains true beside `torn_tail`: such an
event is never passed over in silence.

Other promises hold only up to an exception, which the property states: identity
while saves do not fail (`IdentityIsStable`, section 5), one session for a Codex
thread and no cycle among parents until a rebuild folds an event late, or calls
overlap (`OneSessionPerThread`, `CycleNeedsOverlap`), and the search for a name
on a channel that the search does not pass over (`SearchFindsNames`, by
`IsSearchable`). Section 4 says what happens otherwise.

### Bounds, and why they are enough

* `MaxEvents` (store): a lost update needs two events, a split identity two
  observations of one agent id; three allow a third party to interfere. Two
  suffice for `store_faults`, where three roles and seven faults multiply.
* `Deferral`: two hooks and two ids give each ordered pair of accesses by two
  hooks to one file and a second file for the backlog and the sweep. Ages are
  as small as their order in the code allows (refresh ≤ stale ≤ maximum), so
  that `MaxTime` = 3 passes each of them. A marker that cannot be written
  (`"mark"`) is a fault of the module but not of the run; the proofs have it.
* `MaxLog` = 4 (projection): a record is created, changed, changed again and
  changed back or removed. Each merge rule relates at most two earlier events
  to the next one. The real caps (32 channels, 64 links) are 2 here, so that
  logs of four events pass them.
* `Operations`: two calls are what a race needs, and what calls before them have
  left is in the sessions a workload starts from (a line of parents, names set or
  cleared, sessions swept before); a sweep, whose claim ends when another call
  interferes, has `Speak` and the clock beside it and is one call. Any number of
  writes may fail, and of rebuilds happen. `MaxChain`
  = 2 and `MaxTreeDepth` = 3 (the code: 50 and 32) are passed by four sessions.
  `MaxDay` = 3 passes both thresholds. `MaxRecords` = 3 is more than the tail of
  2 records that a harvest reads. A harvest starts from
  sessions that are titled, named or cleared before.
* `Identity`: three ids, for one to be joined to a record whose fields came
  from two others, and two prompts, for them to differ. `MaxCandidates` = 1 (the
  code: 10) is passed by two. The budgets in `MCIdentity` bound each kind of step, one set for each story.
* `SearchCache`: two records and an edit tell apart every way of rewriting the
  part read and the part not read; files of at most 3 records, of which 2 texts
  fit an entry; a budget of one entry with two files.
* `Files`: two sessions, names told up to three times before and three after;
  up to three torn lines, one rotation, deletion, initialiser and rebuild.
* `Depth` = 4, `MaxAscend` = 3 (the code: 12): a command can be too deep to
  reach the worktree's root, and there are directories above it. In
  `HookProcess` a unit is about 200 ms: shims of 10 and 5 units (2000 and 1000
  ms), budgets of 7 and 2 (1500 and 400 ms); what is left too small for a probe
  (25 ms) and for the payload (100 ms) is one unit.
* Deadlock checking is off where calls, events or budgets run out or all
  processes have died: the model then stops. It is on in `deferral` and
  `storage_paths`.

### Fairness

`FairSpec` of `Store` assumes weak fairness of `Continue(p)`, the steps a
process takes by itself once its call has begun: JavaScript runs on when a
promise settles, and `acquireLock` re-arms its timer until its deadline, at
which `GiveUp` is enabled as long as the lock is taken. Nothing is assumed of
callers, faults, operators, or of the order in which competitors get the lock:
a call may give up every time. `EveryCallReturns` therefore says that a call
returns, not that it succeeds.

`SearchCache` assumes the same of `Step(p)`: a running command goes on. A
process may still be killed, and one that was killed with the lock does not
release it.

`Watch` assumes weak fairness of its two timers' callbacks (`PollAttaches`,
`PollReads`), and strong fairness of `Fire`, which is off while the other
callback runs: timers run, none is passed over for ever by another. `fs.watch` owes nothing, and nobody
need write.

### Assumptions about the environment

No two writes of the cache share a modification time (`Watch`: the poll cannot
see the second of two that do). Synchronous work takes no time, and no database
is removed while a hook runs (`HookProcess`). A pending file's modification time
is the time of its record (`Deferral`). In `Identity`, a transcript is read in
one step.

## 4. Properties and the code

`PROJECT.json` lists under `hazards` what can go wrong at which line, with the
properties that would show it, and under `mutants` for each property a
plausible change of the code that violates it. Operators introduced as "a bug
to compare with" are those changes.

Beyond the findings, the models show behaviour that no comment rules out but a
maintainer may want to know:

* Hooks. A SessionStart whose first git probe times out falls back to its cwd
  and may make a database in a subdirectory. `gitContext` reports `ok`, not
  `partial`, when the deadline lapses after a later probe, since it records no
  error then (`git-context.mjs:17-18`, `:124-125`). Git's budget and the lock's
  together exceed the shim's 2000 ms. With both layouts in one directory hooks
  and commands use different databases.
* Recording. A call that answers `ok: false` because it did not get the lock, or
  because its save failed, has logged its event all the same
  (`storage.mjs:471`): the next rebuild folds it, behind whatever was decided
  meanwhile without it. A name that was refused appears, a parent closes a
  cycle, and an observation of Codex that failed and was repeated makes two
  sessions of one thread (`codex-storage.mjs:31-35`). So does an observation of an
  agent id by a hook (`storage.mjs:726`): with `"save"` among its faults the run
  `store_identity` shows it, against `IdentityIsStable`. A tombstone logged by a prune that failed removes its
  session at the next rebuild. A cold cache folds an
  event twice, which `ReplayIsNoop` shows to be harmless; but a backfilling load
  that is overtaken may fold an older name over a newer one.
* Removal. A tombstone may land behind an event that is logged and not folded
  yet: a rebuild then drops that event. A harvest of a session that is pruned
  meanwhile makes it anew.
* Initialisation. Running `init` after the cache was deleted shows no session
  until a rebuild. Of two concurrent initialisers one may answer `ok: false`.
* Deferral. Sessions that nobody speaks to, left idle long enough, retire the
  promoter's marker though the prompt hook works.
* Identity. Strangers who type the same first prompt in one directory within 72
  hours are one session, by design. A fork usually starts a new session
  (`identity.mjs:19-23`, `storage.mjs:526`). "Strongest evidence is never
  trimmed" does not hold of `capParentCandidates` once there are more strong
  candidates than its cap, which is 10 where the header says 16. A transcript
  that has become too large clears `last_uuid`.
* Lock. `release` says nothing when its unlink fails; the file then locks
  everybody out until an operator removes it.
* Operations. A cycle among parents needs two crossing `setParent` calls, an
  event that a rebuild folds late, or a chain longer than the check looks up. Two sweeps with different thresholds
  that overlap can leave a session archived and then fold `idle`; a sweep never
  takes `archived` back. `harvest` answers ok though one of its updates failed.
  A dry run of `alias` exits 0 for an unknown session.
* Names and links. When a session has all the channels it may have, the harvest
  of every prompt logs a name that the reducer refuses again. `search` does not
  find a current name on the channel `first_prompt`, which `setName` accepts;
  nor one on a channel that this version does not know, if the preview has the
  same text, since such channels are sorted behind `first_prompt`
  (`names.mjs:45-49`); nor, when an alias that cleans to nothing follows a good
  one, the good one that is on show. The key of a merge request contains its repository, so one request
  seen with and without it is two (`pr-links.mjs:93`). Search's history tier
  ignores `--source` (`cli/search.mjs:299-305`, and the comment at `:336-339`).
* Views. The text tree marks every row at the depth limit, the JSON cuts below.
* Watch. A creation between the attachment and the baseline of
  `watchProjection` is not signalled. Search cache: a writer that is killed
  between its rename and `.generation`, or cannot write the latter, leaves the cache one entry over its budget, which is
  why `CacheWithinBudget` counts them.

## 5. Proofs

`StoreProofs` first proves of the lock alone, for all `Procs`, `LockPaths` and `LockOf`, that live
handles on one path exclude each other (`LockExcludes`). The inductive
invariant is `LockTypeOK /\ HolderOwnsFile`: the file at the path of a live
handle was made by its holder. `Exclusive` alone is not inductive: `release`
unlinks whatever is at the path.

Then, of the store, for all numbers of processes, events and agent ids and
every set of faults:

* `StoreImplementsLock`: each step of the store is a step of the lock or leaves
  the lock's variables alone; hence `StoreExcludes`.
* `StoreTypeOK`: types, and that a process holds a live handle exactly while it
  is in the critical part of its call, on every error path. This is inductive
  as it stands.
* `StoreCacheIsLogged`: the cache shows only what the log holds, whatever the
  lock paths. Strengthened by: what a process has in memory is logged (up to
  the one event it is about to append).
* `StoreAckedIsFolded`: no acknowledged event is missing from the cache, with
  the hypotheses `Rebuilders = {}` and `OneLockPath` (all processes resolve to
  one lock file). The runs `rebuild_race` and `lock_drift` show that neither can
  be dropped. The invariant adds that whoever is about to save has in memory
  everything the cache holds, which needs mutual exclusion, and that ids are
  fresh.
* `StoreCacheOnlyGrows`: no save takes an event out of the cache, with the same
  two hypotheses. What carries it is that whoever saves holds all that the cache
  holds (`SaverHasCache`), from the load on, since nobody else saves meanwhile.
* `StoreSeenFoldedOnce`: no observation is folded twice, without hypotheses.
  `SeenInv` says it of the log and of every projection in memory as well, and
  that the event a call is about to append has an id the log does not have.
* `StoreImplementsRegistry`: the store implements `SessionRegistry`, that is,
  an agent id bound to a session stays bound to it (`IdentityIsStable`). A third
  hypothesis, `NoHalfCommit`, leaves out what defeats it: a save that fails after
  the append, or a process that dies between the two while somebody removes its
  lock. The next observation then does not see the event in the cache and mints a
  second session. `BindingInv` says what is left: the cache, or the log if there
  is none, shows all bindings, unless a hook is between its append and its save
  (`pc` is `save`), or processes may die and one has left its lock behind; and
  so does what the process inside has loaded (`KnowsBindings`).

`HookProofs` proves the four properties of the run `deferral` for any
number of hooks and ids, any ages that are ordered as in the code, any
bound on time, and every set of faults. Deferral
has no lock around its decisions, so the question is what a hook may still rely
on of what it read some steps ago. `DeferralInv` says it:

* `Types` and `StagedInThePast`.
* `Knows(p)`, by the place of hook `p`: it runs for an id (`HasId`); the record
  it promotes is not younger than the staged one that is there now
  (`FoundIsOldest`); when it deletes, the session is recorded, at least as
  old as what it found, and shown if the prompt gave a preview (`DeletesPromoted`); it sends a heartbeat to a
  recorded session only (`BeatsForRecorded`).
* `RetiredIsGone`: a marker that was retired is not there.

Every action satisfies `Forward`: time, records, and previews only go forward,
and a staged record stays, goes, or is staged now. Lemma `OthersKnow` shows that
this suffices for what the other hooks know, so that the lemma of each action
is about the hook that acts. The four properties follow as action properties from
`DeferralInv` and, per action, from which steps can reach the states they are
about (`OwnSteps`, `ExitErredIsSeen`).

`HookProofs` also proves the four properties of the run `storage_paths` for
any number of directories, any bound of the ascent, any limits and budgets, and
any databases that appear and disappear. `HookInv` has two halves:

* `PlacesInv`: the databases and the environment are places, and a prompt has
  written only where a database may be made. `CommandsFindHookDatabase` follows
  from it: lemmas `TargetIs` and `AscendIs` evaluate the two resolvers, and
  `PlacesAgree` compares them.
* `Sound(hook)`: the running hook is `InTime` (the deadline has not passed before
  the last answer, and the timer of a running git ends with it), it `Believes` of
  git only what git said, and `Aims` at a database or at a place for one.
  `Aims` is what connects the decision at the anchor gate to the write some steps
  later: databases that appear meanwhile do not take it away (`AppearingKeeps`),
  which would not hold if one were removed.

`FilesProofs` proves two properties of the run `files` for any sessions, caches
and bounds. `FilesInitOverwritesNothing` rests on `FillsItsOwn`: when an
initialiser is about to fill the cache, and the file there is the one it made, it
has no content yet, since all others replace the file and never write into it.
`FilesAckedOrRefused` rests on `AckedInv`, which relates the lines of the log to
the events acknowledged: each is rotated away, or a line of the log, or
swallowed by a bad line. That line is not the last one without a newline, so the
log is refused.

`ProjectionProofs` proves five results for logs of any length, any sessions,
channels, caps and chain of precedence:

* `ProjectionIsFold`: `proj` is the fold of `folded`, whatever the order and
  however often caches are lost and logs rebuilt. The rest are statements about
  folds.
* `ProjectionReplayIsNoop`: every reducer settles, i.e. does nothing to a record
  that looks like the one it has returned, apart from what is on display; and
  refreshing that twice is refreshing it once.
* `ProjectionLinksFollowLog`, `ProjectionNamesFollowLog`: the relation
  `Follows(events, projection)` says of a record what its events say (tasks, first
  preview, the names with their counts, the two old fields, the name on display).
  It holds of the empty fold and each event keeps it. `Mirrors` is its core: an
  entry of `names` is the last naming of its channel's history and counts them,
  and a channel without an entry means that the cap was reached.
* `ProjectionTimesConverge`: `TimesFollow` says that the times of a session which
  was never removed are the least and the greatest over the *set* of events
  folded, so their order does not matter. What does is which event creates the
  record: its stamp counts whatever its kind. `FirstsInv` settles which: of
  the events of a session, the one logged first is the one folded first
  (`HasFirsts`), whatever was lost, reloaded or rebuilt in between.

Induction over a log is done once, in `Folding`, whose constants are the
operator and the relation: `FoldEmpty` and `FoldAppend` unfold `FoldLeft`,
`FoldKeeps` is the induction. `ProjectionProofs` takes instances.

`IdentityProofs` proves the three properties of the run `identity` for any
conversations, places, prompts and budgets. None of them is inductive: a record
is joined on what it holds, so what it holds must be known to come from its own
conversations, or from those whose transcripts a hook of them was handed
(`handed`: SessionStart takes any existing path in its payload,
`session-start-main.mjs:412`). `IdentityInv` says so:

* `IdOK(c)`: the transcript of `c` holds only uuids of `c`'s lineage, and prompts
  that were said to `c`; the reading that a hook of `c` has taken, and may record
  much later, holds only these or those of a transcript it was handed.
* `RecordOK(s)`: each field of a record came from one of its ids, though not all
  from the same one; and it holds two ids only for a reason (`Joined`): for each
  of them another one whose lineage it shares or was handed (`Roots`), or one
  that was told the same prompt and one that stood in the same place.

Lemma `ResolveIs` evaluates the chain of `resolveIdentity`: an answer names an
existing session only by the index, by lineage, or by a fingerprint that meets
the threshold; `ReasonJoins` turns each of these into a reason as the property
states it. The `Grows` lemmas say that reasons do not go away. Two properties are
about steps: `IdentityStays` follows from what one recording does to the index
(`Effect`), `IdentityHintsAreComplete` from counting the candidates that the cap
leaves out.

`OperationsProofs` proves the properties of the run `operations` for any
sessions, processes, mixes of commands, Codex threads, thresholds and bounds;
of `ViewsAgree` it proves the half `AliasAgrees`. The proof goes upwards in three layers:

* One event. `Effect(s, e, t)` says of the record `t` that a reducer makes of
  `s` what matters to these properties: which threads it is of, its parent, and
  the name its thread has. `FoldEffect` shows it for the whole dispatch.
* One plan. What a call decides is a sequence of events; the `...Is` and
  `...Begins` lemmas say which ones each command may plan. Folds of several
  events (prune, the Codex names) go through instances of `Folding`.
* One step. `SessionsStep` and `CallsStep` preserve the two halves of
  `OperationsInv`.

`OperationsInv` speaks of the projection and of the log at once (`Paired`): the
records of both are as the reducers make them, a session is of one thread, no
session has a name from a later row of Codex's index than the last of its
thread, and where the two differ an event of an op in `unfolded` accounts for it
(`Trails`). That is what a rebuild needs, which puts the one in the place of the
other. As long as no observation was folded late a thread is one session
(`Apart`). Of a call the invariant says what it may still have to commit
(`IsCall`), and, as long as nobody has interfered (`alone`), that what it decided
on is still true (`IsCurrent`): a planned parent closes no loop, and a scan for a
cautious prune is what is on disk. `CycleNeedsOverlap` is inductive only with the
latter (`NoCycle`, unless calls crossed or a parent was folded late). `NoNewCycle`
is the argument for one `parent_set`: a cycle of at most `MaxChain` hops that
was not there before passes through the child. Climbing from the child's new
parent to where the climb next meets the child uses old edges only and is
shorter than `MaxChain`, so `setParent` would have found it. `Up` is the climb as a function of the
number of hops.

`HarvestIsExact` rests on a second invariant, `HarvestInv`, of every harvest
that nobody has interfered with. What it still has to log must fit the record
(`Fits`): no two events have the same target, each changes what the record has
for its target, and the merge requests of record and plan together respect
their cap. And the plan must cover the tail of the transcript (`Covers`): each
name and each merge request is in the record, or in the plan, or finds no room.
The first half says why suppression agrees with the reducers, the second why
nothing is swallowed. That a fresh plan fits and covers is an induction over
the records read (`PlanLinks` is a fold; `EverySequence` of `Folding` turns what
one record adds into what all of them do). Carrying out an event changes one
target and so disturbs neither half for the others; a name that meets the cap
on channels is lost but stays covered, as the cap is then reached. A write that
fails ends the claim about covering, not that of fitting.

`SweepThenFind` rests on `SweepInv`, of every sweep that nobody has interfered
with: the events to come move their sessions to the state that the age asks for
(`StateAt`), and unless a write failed every other session that is not archived
has that state already. It survives the sweep's own events because each changes
one session, and neither its progress nor that of others (`SweepEffect`); every
other step either leaves all of this alone or ends the claim, as the clock,
another writer and a rebuild do (`OtherSweep`). That `find` lists no session with another
state than the one asked for is `FoundIs`.

`AliasAgrees` follows from a conjunct of `IsRecord`, which each reducer keeps:
an entry for the channel `alias` has the value of the old field. Where the cap
left no entry, the label falls back to the field (`Cleaned`, `NameValue`), and
`alias` comes first in the chain of precedence (`PrecedenceType`).

`SearchCacheProofs` proves the two safety properties of the run `content_search`
for any transcripts, queries, limits, chunk sizes, and numbers of searches,
edits and faults. Neither is inductive.

* `SearchInv` is for `AnswersAsSource`. Of a call (`CallOK`) it says that what it
  holds is a call (`IsCall`), that the evidence `seen` covers the file as it is
  now (`KnowsFile`), that each record read stood at its place at some time
  (`ReadIsHeld`), that an entry about to be used or saved has the texts of its
  source (`EntryServes`), and that an answer is borne out (`AnswerStands`). Of the
  cache it says only that every entry has the texts of the source it names: who
  wrote it, when, and whether the file still looks like that does not matter,
  since an entry is used after its source was read again. `TextsHit` and
  `PrefixHit` are why the texts answer for the records: leaving out records
  without a text, and what comes after the hit, moves no hit. `TextsFollow` is
  an induction over the records, by an instance of `Folding`.
* `BudgetInv` is for `CacheWithinBudget`. `WritersLock`: who writes holds the
  lock. `AllCounted`: what a process remembers of the directory, as long as the
  generation has not moved, leaves out no more entries than there were writers
  that could not tell of theirs (killed, or without `.generation`), and one more while somebody is between the write of an entry and the
  new generation. For the writer it does not count its own entry, which it is
  going to replace. So the order in `saveEntry` (evict, write, new generation) is
  what the proof uses: `PublishKeepsBudget` rests on the new generation making
  all other memories void.

TLC checked both invariants on the instance of the run. The assumptions are that
a record without a text contains no query and is not `null` (`RecordsType`), that
the files are finitely many (`FilesType`), and that nobody is called `null`.

The assumptions on constants are the named ASSUMEs of the modules. TLC evaluates
them in the passing runs. Two of those of `Operations` deserve a word:
`SidsType`, that the sessions are finitely many and `null` is none of them, and
`StartsType`, that a workload starts from records the reducers can have made,
with one session for each thread, no cycle within the depth of the check, and
no more names and merge requests than the caps allow, and with an alias that is
no junk and agrees with its entry. `NullType` says that the absence of a name or
a time is neither a time nor junk, `NoFilterType` that a filter not given is no
state.
`IdentityInv`, `OperationsInv`, `HarvestInv` and `SweepInv` were checked by TLC
on the instances of their runs before they were proved.

Only model-checked: liveness (`EveryCallReturns`, `EverySearchEnds`,
`ChangesAreHeard`), which needs ENABLED; `TreeIsWhole`, whose walks are
RECURSIVE; the readers that select from a sequence (`SearchFindsNames`,
`NamesViewAgrees`), as the provers cannot expand `SelectSeq` and the library
states nothing of it; and, so far, `NamesOutliveTheirLog`.

## 6. What is left, and the plan

Theorems, in this order:

1. `Files`: `NamesOutliveTheirLog` (in `FilesProofs`).
2. `Search`: `SearchFindsNames`, from what `ProjectionProofs` shows of `names`;
   `IsSearchable` states which names it does not promise.

## 7. Not modelled

* The parsers: lines of transcripts and rollouts, the workspace's config file,
  git's output, the registry of worktrees, the arguments of commands. They are
  pure; the models start from what they return. Which workspace a rollout
  belongs to is part of it.
* Sanitising (`sanitize.mjs`) beyond clean-or-empty, UUIDv7 generation beyond
  freshness, wording, colours, widths, and the order and snippets of search
  results.
* The `manual_link` reducer: nothing in the code writes that event.
* `opts.paths`, which only tests pass, and the thresholds that sweep would read
  from `_meta` (`sweep.mjs:65-74`), which nothing writes.
* A `.generation` left empty by a failed write twice, while some process
  remembers the first time: it would take its count of the cache for current.
* The package surface: re-exports, the generated bundle `src/lib/index.cjs` and
  the type declarations.

## 8. Running

```
tlc -workers 2 -config MCStoreIdentity.cfg MCStore.tla
tlc -workers 2 -config MCStoreFaults.cfg MCStore.tla
tlc -workers 2 -config MCDeferral.cfg MCDeferral.tla
tlc -workers 2 -config MCProjection.cfg MCProjection.tla
tlc -workers 2 -config MCOperations.cfg MCOperations.tla
tlc -workers 2 -config MCIdentity.cfg MCIdentity.tla
tlc -workers 2 -config MCSearchCache.cfg MCSearchCache.tla
tlc -workers 2 -config MCFiles.cfg MCFiles.tla
tlc -workers 2 -config MCStoragePaths.cfg MCStoragePaths.tla
tlapm StoreProofs.tla && tlapm HookProofs.tla && tlapm Folding.tla
tlapm FilesProofs.tla && tlapm ProjectionProofs.tla && tlapm IdentityProofs.tla
tlapm OperationsProofs.tla && tlapm SearchCacheProofs.tla
```

The expected violations: `MCStoreRebuild.cfg` with `MCStore.tla`,
`MCStoreDrift.cfg` with `MCStoreDrift.tla`, `MCFilesTorn.cfg` with
`MCFiles.tla`.
