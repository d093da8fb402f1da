------------------------------ MODULE Deferral ------------------------------
(***************************************************************************)
(* lib/pending.mjs and the two hooks that use it.                          *)
(*                                                                         *)
(* SessionStart comes up for processes nobody ever speaks to.  It          *)
(* therefore records nothing of a session it has no evidence of: it stages *)
(* a file that the first prompt promotes.  It does so only while a marker  *)
(* shows that the prompt hook runs at all.                                 *)
(*                                                                         *)
(* Hooks are processes; every access to a file is a step.                  *)
(* recordSessionSeen and tryUpdateProjection are one step each: Store      *)
(* opens them up.  Which session an id is bound to is left to Identity;    *)
(* here an id has one record.                                              *)
(***************************************************************************)
EXTENDS Naturals, FiniteSets

CONSTANTS
  Procs,            \* hook invocations that may overlap
  Csids,            \* claude_session_id values
  None,
  Faults,           \* which of FaultKinds may happen
  PromoterRefresh,  \* PROMOTER_REFRESH_MS: the marker is written at most so often
  PromoterStaleAfter, PromoterMaxAge,
  BacklogMinCount, BacklogMinAge,
  PendingMaxAge,
  MaxTime           \* bound: the clock stops here

FaultKinds == {"write", "stage", "mark", "load", "killed"}

ASSUME FaultsType == Faults \subseteq FaultKinds
ASSUME AgesType ==
  /\ {PromoterRefresh, PromoterStaleAfter, PromoterMaxAge, BacklogMinCount,
      BacklogMinAge, PendingMaxAge, MaxTime} \subseteq Nat
  /\ PromoterRefresh <= PromoterStaleAfter /\ PromoterStaleAfter <= PromoterMaxAge
ASSUME NoneIsNone == None \notin Nat /\ None \notin Csids

VARIABLES
  now,
  marker,      \* mtime of .promoter, or None
  pending,     \* pending[c]: when the staged record was observed, or None; its
               \* mtime is the same, as nothing happens between the two
  created,     \* created[c]: created_at of the record that holds c, or None
  shown,       \* ids whose record has a first_prompt_preview
  hooks        \* hooks[p]: the hook that p runs, as far as it got

\* What happened.
VARIABLES
  spoken,      \* ids that somebody typed a prompt into
  distrusted   \* the marker was retired, and no prompt hook ran since

files == <<marker, pending>>
history == <<spoken, distrusted>>
vars == <<now, files, created, shown, hooks, history>>

Steps == {"idle", "judge", "retire", "known", "stage", "sweep", "seen",
          "mark", "read", "promote", "delete", "lookup", "heartbeat", "mint"}

Idle == [at |-> "idle", csid |-> None, found |-> None, expired |-> {},
         gives |-> FALSE, preview |-> FALSE, erred |-> FALSE]

Init ==
  /\ now = 0
  /\ marker = None
  /\ pending = [c \in Csids |-> None]
  /\ created = [c \in Csids |-> None]
  /\ shown = {}
  /\ hooks = [p \in Procs |-> Idle]
  /\ spoken = {}
  /\ distrusted = FALSE

Allowed(fault) == fault \in Faults
Recorded == {c \in Csids : created[c] # None}
Staged == {c \in Csids : pending[c] # None}

HookAt(p, step) == hooks[p].at = step
Goto(p, step) == hooks' = [hooks EXCEPT ![p].at = step]
GotoErred(p, step) == hooks' = [hooks EXCEPT ![p].at = step, ![p].erred = TRUE]

\* The hook exits.  erred tells the properties whether it met an error.
Exit(p) == hooks' = [hooks EXCEPT ![p] = [Idle EXCEPT !.erred = hooks[p].erred]]
ExitErred(p) == hooks' = [hooks EXCEPT ![p] = [Idle EXCEPT !.erred = TRUE]]

\* first_prompt_preview of the event, if the hook gives one.
ShowPreview(p) ==
  shown' = IF hooks[p].gives THEN shown \union {hooks[p].csid} ELSE shown

\* The earlier time wins (reduceSessionSeen).
Earliest(old, new) == IF old = None \/ new < old THEN new ELSE old

-----------------------------------------------------------------------------
\* SessionStart

\* A transcript with a human prompt in it is evidence enough.  That of a session
\* somebody typed into may hold it (resume, compact), or not yet.  gives: a
\* preview is made of the prompt, that is, previews are not switched off and
\* sanitising leaves something.
StartBegins(p, c) ==
  /\ HookAt(p, "idle")
  /\ \E hasHumanPrompt \in {FALSE, (c \in spoken)}, gives \in BOOLEAN :
       /\ gives => hasHumanPrompt
       /\ hooks' = [hooks EXCEPT ![p] =
                    [Idle EXCEPT !.at = IF hasHumanPrompt THEN "seen" ELSE "judge",
                                 !.csid = c, !.gives = gives]]
  /\ UNCHANGED <<now, files, created, shown, history>>

\* hasUnpromotedBacklog: staged after the marker was last written, and long
\* enough ago that a prompt hook would have come by.
Backlog == {c \in Staged : pending[c] > marker /\ now - pending[c] >= BacklogMinAge}
HasUnpromotedBacklog == Cardinality(Backlog) >= BacklogMinCount

\* isPromoterAlive, up to the unlink.
JudgePromoter(p) ==
  /\ HookAt(p, "judge")
  /\ Goto(p, IF marker = None \/ now - marker > PromoterMaxAge THEN "seen"
             ELSE IF now - marker > PromoterStaleAfter /\ HasUnpromotedBacklog
             THEN "retire" ELSE "known")
  /\ UNCHANGED <<now, files, created, shown, history>>

\* A bug to compare with: the answer is no, and the marker stays.
RetireInName(p) ==
  /\ HookAt(p, "retire")
  /\ distrusted' = TRUE
  /\ Goto(p, "seen")
  /\ UNCHANGED <<now, files, created, shown, spoken>>
RetireMarker(p) ==
  /\ HookAt(p, "retire")
  /\ marker' = None
  /\ distrusted' = TRUE
  /\ Goto(p, "seen")
  /\ UNCHANGED <<now, pending, created, shown, spoken>>

\* isKnownSession, without the lock; what cannot be read is unknown.
StartLooksUp(p) ==
  /\ HookAt(p, "known")
  /\ \/ Goto(p, IF hooks[p].csid \in Recorded THEN "seen" ELSE "stage")
     \/ Allowed("load") /\ Goto(p, "stage")
  /\ UNCHANGED <<now, files, created, shown, history>>

\* sweepPending finds what has expired ...
GotoSweep(p) ==
  hooks' = [hooks EXCEPT
    ![p].at = "sweep",
    ![p].expired = {c \in Staged \ {hooks[p].csid} : now - pending[c] > PendingMaxAge}]

\* writePending, whose failure means that the session is recorded after all.
\* A bug to compare with: its answer is not looked at.
StageUnchecked(p) ==
  /\ HookAt(p, "stage")
  /\ \/ pending' = [pending EXCEPT ![hooks[p].csid] = now]
     \/ Allowed("stage") /\ UNCHANGED pending
  /\ GotoSweep(p)
  /\ UNCHANGED <<now, marker, created, shown, history>>
Stage(p) ==
  /\ HookAt(p, "stage")
  /\ \/ /\ pending' = [pending EXCEPT ![hooks[p].csid] = now]
        /\ GotoSweep(p)
     \/ /\ Allowed("stage")
        /\ Goto(p, "seen")
        /\ UNCHANGED pending
  /\ UNCHANGED <<now, marker, created, shown, history>>

\* ... and unlinks them, whatever was staged there since.
SweepUnlinks(p) ==
  /\ HookAt(p, "sweep")
  /\ pending' = [c \in Csids |-> IF c \in hooks[p].expired THEN None ELSE pending[c]]
  /\ Exit(p)
  /\ UNCHANGED <<now, marker, created, shown, history>>

\* recordSessionSeen; what fails is dropped.
StartRecords(p) ==
  /\ HookAt(p, "seen")
  /\ \/ /\ created' = [created EXCEPT ![hooks[p].csid] = Earliest(@, now)]
        /\ ShowPreview(p)
        /\ Exit(p)
     \/ /\ Allowed("write")
        /\ ExitErred(p)
        /\ UNCHANGED <<created, shown>>
  /\ UNCHANGED <<now, files, history>>

-----------------------------------------------------------------------------
\* UserPromptSubmit

PromptBegins(p, c) ==
  /\ HookAt(p, "idle")
  /\ hooks' = [hooks EXCEPT ![p] = [Idle EXCEPT !.at = "mark", !.csid = c]]
  /\ spoken' = spoken \union {c}
  /\ UNCHANGED <<now, files, created, shown, distrusted>>

\* markPromoterAlive.
MarkPromoterAlive(p) ==
  /\ HookAt(p, "mark")
  /\ \/ /\ marker' = IF marker # None /\ now - marker < PromoterRefresh
                     THEN marker ELSE now
        /\ distrusted' = FALSE
     \/ Allowed("mark") /\ UNCHANGED <<marker, distrusted>>
  /\ Goto(p, "read")
  /\ UNCHANGED <<now, pending, created, shown, spoken>>

\* The prompt, which may make no preview, and readPending.
ReadPending(p) ==
  /\ HookAt(p, "read")
  /\ \E gives \in BOOLEAN :
       LET found == pending[hooks[p].csid] IN
       hooks' = [hooks EXCEPT ![p].gives = gives, ![p].found = found,
                            ![p].at = IF found = None THEN "lookup" ELSE "promote"]
  /\ UNCHANGED <<now, files, created, shown, history>>

\* recordFirstPrompt: the record dates from the staged observation if there was
\* one.
RecordFirstPrompt(p, observed) ==
  /\ created' = [created EXCEPT ![hooks[p].csid] = Earliest(@, Earliest(observed, now))]
  /\ ShowPreview(p)

\* A bug to compare with: the staged file goes, whatever became of the write.
PromoteOnce(p) ==
  /\ HookAt(p, "promote")
  /\ \/ RecordFirstPrompt(p, hooks[p].found) /\ Goto(p, "delete")
     \/ Allowed("write") /\ GotoErred(p, "delete") /\ UNCHANGED <<created, shown>>
  /\ UNCHANGED <<now, files, history>>
Promote(p) ==
  /\ HookAt(p, "promote")
  /\ \/ RecordFirstPrompt(p, hooks[p].found) /\ Goto(p, "delete")
     \/ Allowed("write") /\ GotoErred(p, "lookup") /\ UNCHANGED <<created, shown>>
  /\ UNCHANGED <<now, files, history>>

DeletePending(p) ==
  /\ HookAt(p, "delete")
  /\ pending' = [pending EXCEPT ![hooks[p].csid] = None]
  /\ Exit(p)
  /\ UNCHANGED <<now, marker, created, shown, history>>

\* lookupSessionByCsid, without the lock; preview: the heartbeat need not send
\* one.
\* A bug to compare with: a session neither staged nor known is somebody else's.
LookupOrLeave(p) ==
  /\ HookAt(p, "lookup")
  /\ IF hooks[p].csid \in Recorded
     THEN hooks' = [hooks EXCEPT ![p].at = "heartbeat", ![p].preview = hooks[p].csid \in shown]
     ELSE Exit(p)
  /\ UNCHANGED <<now, files, created, shown, history>>
PromptLooksUp(p) ==
  /\ HookAt(p, "lookup")
  /\ \/ hooks' = [hooks EXCEPT
          ![p].at = IF hooks[p].csid \in Recorded THEN "heartbeat" ELSE "mint",
          ![p].preview = hooks[p].csid \in shown]
     \/ Allowed("load") /\ Goto(p, "mint")
  /\ UNCHANGED <<now, files, created, shown, history>>

\* session_progress
Heartbeat(p) ==
  /\ HookAt(p, "heartbeat")
  /\ \/ /\ IF hooks[p].preview THEN UNCHANGED shown ELSE ShowPreview(p)
        /\ Exit(p)
     \/ /\ Allowed("write")
        /\ ExitErred(p)
        /\ UNCHANGED shown
  /\ UNCHANGED <<now, files, created, history>>

\* Nothing staged, nothing known.
Mint(p) ==
  /\ HookAt(p, "mint")
  /\ \/ RecordFirstPrompt(p, None) /\ Exit(p)
     \/ /\ Allowed("write")
        /\ ExitErred(p)
        /\ UNCHANGED <<created, shown>>
  /\ UNCHANGED <<now, files, history>>

-----------------------------------------------------------------------------
\* A hook is killed, by its hard time-out or by the agent.
Killed(p) ==
  /\ Allowed("killed")
  /\ ~HookAt(p, "idle")
  /\ ExitErred(p)
  /\ UNCHANGED <<now, files, created, shown, history>>

\* Hours pass between hooks: their hard time-outs let none live for one.
HoursPass ==
  /\ now < MaxTime
  /\ \A p \in Procs : HookAt(p, "idle")
  /\ now' = now + 1
  /\ UNCHANGED <<files, created, shown, hooks, history>>

StartStep(p) ==
  \/ JudgePromoter(p) \/ RetireMarker(p) \/ StartLooksUp(p) \/ Stage(p)
  \/ SweepUnlinks(p) \/ StartRecords(p)
PromptStep(p) ==
  \/ MarkPromoterAlive(p) \/ ReadPending(p) \/ Promote(p) \/ DeletePending(p)
  \/ PromptLooksUp(p) \/ Heartbeat(p) \/ Mint(p)

Next ==
  \/ \E p \in Procs, c \in Csids : StartBegins(p, c) \/ PromptBegins(p, c)
  \/ \E p \in Procs : StartStep(p) \/ PromptStep(p) \/ Killed(p)
  \/ HoursPass

Spec == Init /\ [][Next]_vars

-----------------------------------------------------------------------------
\* When SessionStart has done what it does for its session, and goes on to tidy
\* up or ends without an error, the session is recorded or staged.  (A sweep
\* that runs beside it may take the staged record away again: its list is old.)
StartLeavesTrace ==
  [][\A p \in Procs :
       /\ hooks[p].at \in {"judge", "retire", "known", "stage", "seen"}
       /\ hooks'[p].at = "sweep" \/ hooks'[p] = Idle
       => hooks[p].csid \in Recorded' \union Staged']_vars

\* "A lost pending file degrades to the session being recorded at its first
\* prompt": when a prompt hook ends and met no error, the session is recorded,
\* with a preview if this prompt makes one, whatever was collected, overwritten
\* or promoted meanwhile.
SpokenIsRecorded ==
  [][\A p \in Procs :
       /\ hooks[p].at \in {"mark", "read", "promote", "delete", "lookup",
                          "heartbeat", "mint"}
       /\ hooks'[p] = Idle
       => /\ hooks[p].csid \in Recorded'
          /\ hooks[p].gives => hooks[p].csid \in shown']_vars

\* A staged record is deleted by a prompt only when the record it was promoted
\* to is as old, so that a failed write never costs the time of the start.
PromotedBeforeDeleted ==
  [][\A c \in Csids :
       pending[c] # None /\ pending'[c] = None =>
         \/ created[c] # None /\ created[c] <= pending[c]
         \/ \E p \in Procs : HookAt(p, "sweep") /\ c \in hooks[p].expired]_vars

\* "Retiring makes the decision stick": after the marker was retired nobody
\* defers, until a prompt hook has run.
DistrustSticks ==
  [][\A p \in Procs : HookAt(p, "judge") /\ hooks'[p].at = "known" => ~distrusted]_vars
=============================================================================
