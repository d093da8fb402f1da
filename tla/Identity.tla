------------------------------ MODULE Identity ------------------------------
(***************************************************************************)
(* lib/identity.mjs, with the hooks that feed it: which session a          *)
(* claude_session_id is bound to.                                          *)
(*                                                                         *)
(* A conversation may go on under other ids: a fork starts a transcript    *)
(* whose first record names the last one of the transcript it leaves, a    *)
(* copied transcript starts with the same records.  The hooks read a       *)
(* transcript first and resolve later, under the lock, so a hook may act on*)
(* a transcript that has grown, and other hooks may have come between.     *)
(*                                                                         *)
(* The whole of recordSessionSeen under the lock is one step (Store opens  *)
(* it up).  Which hook defers is left to Deferral: here any start hook may *)
(* record.  Fingerprints are the values they are hashes of.                *)
(***************************************************************************)
EXTENDS Naturals, SequencesExt

CONSTANTS
  Csids, Prompts, Null,
  Places,              \* [cwd, worktree, branch]: where a process can run
  Folder,              \* Folder[cwd]: workspaceHashFromCwd
  TimeWindow,          \* DEFAULT_TIME_WINDOW_HOURS
  MinCorroborators,    \* DEFAULT_MIN_CORROBORATORS
  MaxCandidates,       \* MAX_PARENT_CANDIDATES
  MaxParsed,           \* records of a file of DEFAULT_MAX_MB
  Budgets              \* bounds: how often each kind of step may happen

ASSUME PlacesType == \A p \in Places : DOMAIN p = {"cwd", "worktree", "branch"}
ASSUME NullIsNoPlace == Null \notin Places
ASSUME NumbersType ==
  {TimeWindow, MinCorroborators, MaxCandidates, MaxParsed} \subseteq Nat
Kinds == {"begin", "fork", "copy", "move", "turn", "tick", "hook", "handed"}
ASSUME BudgetsType == Budgets \subseteq [Kinds -> Nat]

VARIABLES
  now,
  place,        \* place[c]: where c runs, Null before it ever ran
  transcripts,  \* transcripts[c]: the file named after c, as the parser sees it
  sessions,     \* the records, in the order they were made
  hook,         \* hook[c]: what the hook under way for c has read, or Null
  budget        \* budget[k]: how many steps of kind k are left

\* What is true of the conversations, whatever the hooks know of it.
VARIABLES
  root,         \* root[c]: the id the conversation of c began under
  handed,       \* handed[c]: those of the conversations whose transcripts hooks of
                \* c were handed
  stood,        \* stood[c]: the places c ran in
  said          \* said[c]: the prompts typed to c, or found in those transcripts

truth == <<root, handed, stood, said>>
vars == <<now, place, transcripts, sessions, hook, budget, truth>>

Sids == DOMAIN sessions

Spend(k) == budget[k] > 0 /\ budget' = [budget EXCEPT ![k] = @ - 1]

-----------------------------------------------------------------------------
\* Transcripts.

\* What parseTranscriptFile keeps, the folder of the file, and how many
\* records it has.  A uuid is <<id, n>>, the nth record written under id.
NoFile == [first |-> Null, parent |-> Null, last |-> Null, prompt |-> Null,
           folder |-> Null, size |-> 0]
OnDisk(c) == transcripts[c].size > 0

\* A bug to compare with: the last resort is some file of the folder.
SomeFileOfFolder(c, explicit) ==
  LET here == {d \in Csids : transcripts[d].folder = Folder[place[c].cwd]} IN
  IF explicit # Null THEN explicit
  ELSE IF OnDisk(c) THEN c
  ELSE IF here # {} THEN CHOOSE d \in here : TRUE
  ELSE Null
\* locateTranscript: the path the hook was handed, if there is such a file,
\* whatever its name; or the file named after the id, which is looked for in
\* the folder of the working directory and then in all folders.
LocateTranscript(c, explicit) ==
  IF explicit # Null THEN explicit ELSE IF OnDisk(c) THEN c ELSE Null

\* Of a file too large nothing is read, but it is still the transcript.
ParseTranscriptFile(file) ==
  IF file = Null \/ transcripts[file].size > MaxParsed THEN NoFile
  ELSE transcripts[file]

\* computeFingerprints.  The lineage prefix is the first record with its
\* parent.
Fingerprints(meta) ==
  [human |-> meta.prompt,
   lineage |-> IF meta.first = Null THEN Null ELSE <<meta.first, meta.parent>>]

-----------------------------------------------------------------------------
\* resolveIdentity.

\* Nothing corroborates what is not known.
Same(old, new) == new # Null /\ old = new

FindByClaudeSessionId(c) == {s \in Sids : c \in sessions[s].csids}
FindByTranscriptLineage(meta) ==
  {s \in Sids : \E f \in DOMAIN sessions[s].files :
                   Same(sessions[s].files[f], meta.parent)}
ScanFingerprintCandidates(prints) ==
  {s \in Sids : \/ Same(sessions[s].human, prints.human)
                \/ Same(sessions[s].lineage, prints.lineage)}

WithinTimeWindow(s) == now - sessions[s].last_progress_at \in 0..TimeWindow
Strong(s, where) ==
  Cardinality({f \in {"cwd", "worktree"} : Same(sessions[s][f], where[f])})
Weak(s, where) ==
  (IF Same(sessions[s].branch, where.branch) THEN 1 ELSE 0)
    + (IF WithinTimeWindow(s) THEN 1 ELSE 0)

\* A bug to compare with: any corroborators will do.
AnyCorroborators(s, where) == Strong(s, where) + Weak(s, where) >= MinCorroborators
MeetsThreshold(s, where) ==
  /\ Strong(s, where) >= 1
  /\ Strong(s, where) + Weak(s, where) >= MinCorroborators

\* capParentCandidates: the strongest first, then the latest, then by id (ids
\* grow with time).
Ahead(s, t, where) ==
  LET a == sessions[s] b == sessions[t] IN
  \/ Strong(s, where) > Strong(t, where)
  \/ /\ Strong(s, where) = Strong(t, where)
     /\ \/ a.last_progress_at > b.last_progress_at
        \/ a.last_progress_at = b.last_progress_at /\ s < t
CapParentCandidates(found, where) ==
  {s \in found : Cardinality({t \in found : Ahead(t, s, where)}) < MaxCandidates}

Resolved(s) == [sid |-> s, candidates |-> {}, omitted |-> 0]
\* Hints(s, found): the session is s; what else was found are hints.
Hints(s, found, where) ==
  LET kept == CapParentCandidates(found, where) IN
  [sid |-> s, candidates |-> kept, omitted |-> Cardinality(found \ kept)]
Fresh == Len(sessions) + 1

ResolveByFingerprint(where, prints) ==
  LET found == ScanFingerprintCandidates(prints)
      above == {s \in found : MeetsThreshold(s, where)}
  IN  IF Cardinality(above) = 1
      THEN LET accepted == Min(above) IN Hints(accepted, found \ {accepted}, where)
      ELSE Hints(Fresh, found, where)

\* A bug to compare with: a structural match goes first.
LineageFirst(c, meta, where, prints) ==
  CASE FindByTranscriptLineage(meta) # {} ->
         Resolved(Min(FindByTranscriptLineage(meta)))
    [] FindByClaudeSessionId(c) # {} /\ FindByTranscriptLineage(meta) = {} ->
         Resolved(Min(FindByClaudeSessionId(c)))
    [] OTHER -> ResolveByFingerprint(where, prints)
\* A bug to compare with: what the cap cuts off is forgotten.
ForgetOmitted(c, meta, where, prints) ==
  IF FindByClaudeSessionId(c) # {} THEN Resolved(Min(FindByClaudeSessionId(c)))
  ELSE IF FindByTranscriptLineage(meta) # {}
       THEN Resolved(Min(FindByTranscriptLineage(meta)))
       ELSE [ResolveByFingerprint(where, prints) EXCEPT !.omitted = 0]
\* The first match wins, in the order of the records.
ResolveIdentity(c, meta, where, prints) ==
  IF FindByClaudeSessionId(c) # {} THEN Resolved(Min(FindByClaudeSessionId(c)))
  ELSE IF FindByTranscriptLineage(meta) # {}
       THEN Resolved(Min(FindByTranscriptLineage(meta)))
       ELSE ResolveByFingerprint(where, prints)

-----------------------------------------------------------------------------
\* recordSessionSeen and reduceSessionSeen.

SetIfPresent(old, new) == IF new = Null THEN old ELSE new
SetIfMissing(old, new) == IF old = Null THEN new ELSE old

EmptySession ==
  [csids |-> {}, files |-> [x \in {} |-> Null], human |-> Null,
   lineage |-> Null, cwd |-> Null, worktree |-> Null, branch |-> Null,
   candidates |-> {}, omitted |-> 0, last_progress_at |-> now]

\* A file is entered with its last uuid, or that is brought up to date.
WithFile(files, file, last) ==
  [f \in DOMAIN files \union {file} |-> IF f = file THEN last ELSE files[f]]

\* The worktree is the last one seen, the fingerprints, the directory and the
\* branch the first; hints add up, but their count is the last one above 0.
ReduceSessionSeen(s, p) ==
  [s EXCEPT !.csids = @ \union {p.csid},
            !.files = IF p.file = Null THEN @ ELSE WithFile(@, p.file, p.last),
            !.human = SetIfMissing(@, p.prints.human),
            !.lineage = SetIfMissing(@, p.prints.lineage),
            !.cwd = SetIfMissing(@, p.start.cwd),
            !.worktree = SetIfPresent(@, p.start.worktree),
            !.branch = SetIfMissing(@, p.start.branch),
            !.candidates = @ \union p.hints.candidates,
            !.omitted = IF p.hints.omitted > 0 THEN p.hints.omitted ELSE @,
            !.last_progress_at = now]

\* start is what the payload says of the start of the session, where is what
\* the hook sees now: identity is resolved with the latter.
RecordSessionSeen(c, file, meta, prints, start, where) ==
  LET hints == ResolveIdentity(c, meta, where, prints)
      old == IF hints.sid \in Sids THEN sessions[hints.sid] ELSE EmptySession
      new == ReduceSessionSeen(old,
               [csid |-> c, file |-> file, last |-> meta.last, prints |-> prints,
                start |-> start, hints |-> hints])
  IN  sessions' = IF hints.sid \in Sids
                  THEN [sessions EXCEPT ![hints.sid] = new]
                  ELSE Append(sessions, new)

-----------------------------------------------------------------------------
\* The conversations.

Running(c) == place[c] # Null
Started(c, p, file, origin) ==
  /\ ~Running(c)
  /\ place' = [place EXCEPT ![c] = p]
  /\ transcripts' = [transcripts EXCEPT ![c] = file]
  /\ root' = [root EXCEPT ![c] = root[origin]]
  /\ stood' = [stood EXCEPT ![c] = {p}]
  /\ said' = [said EXCEPT ![c] = IF file.prompt = Null THEN {} ELSE {file.prompt}]
  /\ UNCHANGED <<now, sessions, hook, handed>>

\* A process comes up; its transcript is written with the first record.
Begin(c, p) == Spend("begin") /\ Started(c, p, NoFile, c)
Fork(c, d, p) ==
  /\ Spend("fork")
  /\ OnDisk(d)
  /\ Started(c, p, [NoFile EXCEPT !.first = <<c, 1>>, !.last = <<c, 1>>,
                                  !.parent = transcripts[d].last,
                                  !.folder = Folder[p.cwd], !.size = 1], d)
\* The same records under another name.
Copy(c, d, p) ==
  /\ Spend("copy")
  /\ OnDisk(d)
  /\ Started(c, p, [transcripts[d] EXCEPT !.folder = Folder[p.cwd]], d)

\* The same id goes on elsewhere; its file stays where it is.
Move(c, p) ==
  /\ Spend("move")
  /\ Running(c) /\ p # place[c] /\ hook[c] = Null
  /\ place' = [place EXCEPT ![c] = p]
  /\ stood' = [stood EXCEPT ![c] = @ \union {p}]
  /\ UNCHANGED <<now, transcripts, sessions, hook, root, handed, said>>

\* A turn: the prompt (Null: none) is written to the transcript.
WithTurn(file, c, prompt) ==
  LET n == file.size + 1 IN
  [file EXCEPT !.first = SetIfMissing(@, <<c, n>>), !.last = <<c, n>>,
               !.prompt = SetIfMissing(@, prompt),
               !.folder = SetIfMissing(@, Folder[place[c].cwd]), !.size = n]
Turn(c, prompt) ==
  /\ Running(c)
  /\ transcripts' = [transcripts EXCEPT ![c] = WithTurn(transcripts[c], c, prompt)]
  /\ said' = [said EXCEPT ![c] = @ \union ({prompt} \ {Null})]
  /\ UNCHANGED <<now, place, hook, root, handed, stood>>
TurnUnseen(c, prompt) ==
  Spend("turn") /\ Turn(c, prompt) /\ UNCHANGED sessions

Tick == Spend("tick") /\ now' = now + 1
        /\ UNCHANGED <<place, transcripts, sessions, hook, truth>>

-----------------------------------------------------------------------------
\* The hooks.

\* SessionStart reads the transcript: the payload names one that exists, its
\* own or another, or none ...
StartHookReads(c, explicit) ==
  /\ Running(c) /\ hook[c] = Null
  /\ Spend(IF explicit \in {c, Null} THEN "hook" ELSE "handed")
  /\ explicit # Null => OnDisk(explicit)
  /\ LET file == LocateTranscript(c, explicit) IN
     hook' = [hook EXCEPT ![c] =
       [file |-> file, meta |-> ParseTranscriptFile(file), where |-> place[c]]]
  /\ IF explicit = Null THEN UNCHANGED <<handed, said>>
     ELSE /\ handed' = [handed EXCEPT ![c] = @ \union {root[explicit]}]
          /\ said' = [said EXCEPT ![c] = @ \union ({transcripts[explicit].prompt} \ {Null})]
  /\ UNCHANGED <<now, place, transcripts, sessions, root, stood>>
\* ... and resolves and records under the lock.
StartHookRecords(c) ==
  /\ hook[c] # Null
  /\ LET h == hook[c] IN
     RecordSessionSeen(c, h.file, h.meta, Fingerprints(h.meta), h.where, h.where)
  /\ hook' = [hook EXCEPT ![c] = Null]
  /\ UNCHANGED <<now, place, transcripts, budget, truth>>
\* Killed, timed out, or deferred.
StartHookEnds(c) ==
  /\ hook[c] # Null
  /\ hook' = [hook EXCEPT ![c] = Null]
  /\ UNCHANGED <<now, place, transcripts, sessions, budget, truth>>

\* recordFirstPrompt: the prompt is the only fingerprint.  gitContextFast does
\* not look for the worktree; of the place the session started in the pending
\* record tells it.
PromptPlace(c) == [place[c] EXCEPT !.worktree = Null]
StartPlace(c, staged) == IF staged = Null THEN PromptPlace(c) ELSE staged
RecordFirstPrompt(c, prompt, staged) ==
  RecordSessionSeen(c, Null, NoFile, [human |-> prompt, lineage |-> Null],
                    StartPlace(c, staged), PromptPlace(c))
\* session_progress
Heartbeat(c) ==
  LET s == Min(FindByClaudeSessionId(c)) IN
  sessions' = [sessions EXCEPT ![s].cwd = SetIfMissing(@, place[c].cwd),
                               ![s].last_progress_at = now]
\* UserPromptSubmit runs before the turn is written, with a session staged or
\* not.
PromptTurn(c, prompt, staged) ==
  /\ Spend("hook")
  /\ Turn(c, prompt)
  /\ IF staged # Null \/ FindByClaudeSessionId(c) = {}
     THEN RecordFirstPrompt(c, prompt, staged)
     ELSE Heartbeat(c)

-----------------------------------------------------------------------------
Init ==
  /\ now = 0
  /\ place = [c \in Csids |-> Null]
  /\ transcripts = [c \in Csids |-> NoFile]
  /\ sessions = <<>>
  /\ hook = [c \in Csids |-> Null]
  /\ budget \in Budgets
  /\ root = [c \in Csids |-> c]
  /\ handed = [c \in Csids |-> {}]
  /\ stood = [c \in Csids |-> {}]
  /\ said = [c \in Csids |-> {}]

Conversation(c) ==
  \/ \E p \in Places : Begin(c, p) \/ Move(c, p)
  \/ \E p \in Places, d \in Csids \ {c} : Fork(c, d, p) \/ Copy(c, d, p)
  \/ \E prompt \in Prompts \union {Null} : TurnUnseen(c, prompt)
Hook(c) ==
  \/ \E explicit \in Csids \union {Null} : StartHookReads(c, explicit)
  \/ StartHookRecords(c) \/ StartHookEnds(c)
  \/ \E prompt \in Prompts, staged \in stood[c] \union {Null} :
        PromptTurn(c, prompt, staged)
Next == Tick \/ \E c \in Csids : Conversation(c) \/ Hook(c)

Spec == Init /\ [][Next]_vars

-----------------------------------------------------------------------------
Indexed(c) == FindByClaudeSessionId(c) # {}

\* A session holds two ids only if each of them continues another's
\* conversation, or Claude Code handed it a transcript of that, or it started
\* like one of the others and ran where one of the others ran: the same branch
\* within the same days is no reason (identity.mjs), nor is a stranger's
\* transcript in the same folder (locateTranscript), however the fields of the
\* record came together from the hooks of all of them.
Roots(c) == {root[c]} \union handed[c]
Kin(c, d) == Roots(c) \intersect Roots(d) # {}
SamePlace(c, d) ==
  \E p \in stood[c], q \in stood[d] : \E f \in {"cwd", "worktree"} : Same(p[f], q[f])
WeakEvidenceNeverJoins ==
  \A s \in Sids : \A c \in sessions[s].csids :
    LET others == sessions[s].csids \ {c} IN
    \/ others = {}
    \/ \E d \in others : Kin(c, d)
    \/ /\ \E d \in others : said[c] \intersect said[d] # {}
       /\ \E d \in others : SamePlace(c, d)

\* Once an id is bound to a session it stays bound to that one alone, whatever
\* its transcript and its surroundings come to say (resolveIdentity looks at
\* the index first).
IdentitySticks ==
  [][\A c \in Csids : Indexed(c) =>
       FindByClaudeSessionId(c)' = FindByClaudeSessionId(c)]_vars

\* The hints of a new session account for all the sessions that start like it:
\* they are named, or counted as left out (capParentCandidates); an ambiguous
\* match is not resolved silently.
HintsAreComplete ==
  [][\A s \in Sids' \ Sids :
       LET likes == {t \in Sids : \/ Same(sessions[t].human, sessions'[s].human)
                                  \/ Same(sessions[t].lineage, sessions'[s].lineage)}
       IN  /\ sessions'[s].candidates \subseteq likes
           /\ Cardinality(likes) = Cardinality(sessions'[s].candidates)
                                     + sessions'[s].omitted]_vars

=============================================================================
