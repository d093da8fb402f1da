----------------------------- MODULE HookProofs -----------------------------
(***************************************************************************)
(* Theorems about the hooks: about Deferral, for any number of hooks and   *)
(* ids, any ages and every set of faults; then about StoragePaths and      *)
(* HookProcess, for any number of directories, any budgets, and any        *)
(* databases that appear.                                                  *)
(***************************************************************************)
EXTENDS Deferral, HookProcess, FiniteSetTheorems, WellFoundedInduction, TLAPS

-----------------------------------------------------------------------------
(* Pending records: the inductive invariant of Deferral.                   *)

HookRecord ==
  [at : Steps, csid : Csids \union {None}, found : Nat \union {None},
   expired : SUBSET Csids, gives : BOOLEAN, preview : BOOLEAN, erred : BOOLEAN]
Types ==
  /\ now \in Nat
  /\ marker \in Nat \union {None}
  /\ pending \in [Csids -> Nat \union {None}]
  /\ created \in [Csids -> Nat \union {None}]
  /\ shown \subseteq Csids
  /\ hooks \in [Procs -> HookRecord]
  /\ distrusted \in BOOLEAN

\* Nothing was staged in the future.
StagedInThePast == \A c \in Csids : pending[c] # None => pending[c] <= now

\* What a hook knows of the files when it acts on what it has read, though
\* others have written them since.
\* A hook runs for an id.
HasId(p) == hooks[p].at # "idle" => hooks[p].csid \in Csids
\* It promotes what was staged, or was staged before what is there now.
FoundIsOldest(p) ==
  LET h == hooks[p] IN
  h.at \in {"promote", "delete"} =>
    /\ h.found \in Nat
    /\ h.found <= now
    /\ pending[h.csid] # None => h.found <= pending[h.csid]
\* It deletes after the promotion.
DeletesPromoted(p) ==
  LET h == hooks[p] IN
  h.at = "delete" =>
    /\ created[h.csid] # None
    /\ created[h.csid] <= h.found
    /\ h.gives => h.csid \in shown
\* It sends a heartbeat to a session that is recorded.
BeatsForRecorded(p) ==
  LET h == hooks[p] IN
  h.at = "heartbeat" =>
    /\ created[h.csid] # None
    /\ h.preview => h.csid \in shown
Knows(p) == HasId(p) /\ FoundIsOldest(p) /\ DeletesPromoted(p) /\ BeatsForRecorded(p)

\* A marker that is retired is gone.
RetiredIsGone == distrusted => marker = None

DeferralInv ==
  /\ Types
  /\ StagedInThePast
  /\ \A p \in Procs : Knows(p)
  /\ RetiredIsGone

-----------------------------------------------------------------------------
LEMMA EarliestIsEarliest ==
  ASSUME NEW old \in Nat \union {None}, NEW new \in Nat
  PROVE  /\ Earliest(old, new) \in Nat
         /\ Earliest(old, new) <= new
         /\ old # None => Earliest(old, new) <= old
  BY NoneIsNone DEF Earliest

LEMMA EarliestNone ==
  ASSUME NEW new \in Nat
  PROVE  Earliest(None, new) = new
  BY DEF Earliest

\* The record a prompt writes.
LEMMA FirstPromptRecords ==
  ASSUME Types, NEW p \in Procs, hooks[p].csid \in Csids,
         NEW observed \in Nat \union {None},
         RecordFirstPrompt(p, observed)
  PROVE  LET c == hooks[p].csid IN
         /\ created' \in [Csids -> Nat \union {None}]
         /\ created'[c] \in Nat
         /\ observed # None => created'[c] <= observed
         /\ created[c] # None => created'[c] <= created[c]
         /\ \A d \in Csids \ {c} : created'[d] = created[d]
         /\ shown' = IF hooks[p].gives THEN shown \union {c} ELSE shown
  <1> DEFINE c == hooks[p].csid
             o == Earliest(observed, now)
  <1>1. created[c] \in Nat \union {None} /\ now \in Nat
    BY DEF Types
  <1>2. o \in Nat /\ (observed # None => o <= observed)
    BY <1>1, EarliestIsEarliest
  <1>3. /\ Earliest(created[c], o) \in Nat
        /\ Earliest(created[c], o) <= o
        /\ created[c] # None => Earliest(created[c], o) <= created[c]
    BY <1>1, <1>2, EarliestIsEarliest
  <1>4. /\ created' = [created EXCEPT ![c] = Earliest(created[c], o)]
        /\ shown' = IF hooks[p].gives THEN shown \union {c} ELSE shown
    BY DEF RecordFirstPrompt, ShowPreview
  <1>5. created'[c] = Earliest(created[c], o)
    BY <1>4 DEF Types
  <1>6. observed # None => created'[c] <= observed
    <2> HAVE observed # None
    <2>1. observed \in Nat
      OBVIOUS
    <2> HIDE DEF o, c
    <2> QED
      BY <2>1, <1>2, <1>3, <1>5
  <1> QED
    BY <1>3, <1>4, <1>5, <1>6 DEF Types

-----------------------------------------------------------------------------
(* What one hook may do to what another knows.                             *)

\* Time and the database only go forward; a staged record stays, goes or is new.
Forward ==
  /\ now <= now'
  /\ shown \subseteq shown'
  /\ \A c \in Csids :
       /\ created[c] # None => created'[c] # None /\ created'[c] <= created[c]
       /\ pending'[c] \in {pending[c], None, now'}

LEMMA OthersKnow ==
  ASSUME DeferralInv, Types', Forward, NEW q \in Procs, hooks'[q] = hooks[q]
  PROVE  Knows(q)'
  <1> DEFINE h == hooks[q]
  <1>1. Knows(q) /\ h \in HookRecord
    BY DEF DeferralInv, Types
  <1>2. HasId(q)'
    BY <1>1 DEF Knows, HasId
  <1>3. FoundIsOldest(q)'
    <2> SUFFICES ASSUME h.at \in {"promote", "delete"}
                 PROVE  /\ h.found \in Nat
                        /\ h.found <= now'
                        /\ pending'[h.csid] # None => h.found <= pending'[h.csid]
      BY DEF FoundIsOldest
    <2>1. /\ h.csid \in Csids /\ h.found \in Nat /\ h.found <= now
          /\ pending[h.csid] # None => h.found <= pending[h.csid]
      BY <1>1 DEF Knows, HasId, FoundIsOldest
    <2>2. now \in Nat /\ now' \in Nat /\ h.found <= now'
      BY <2>1 DEF DeferralInv, Types, Forward
    <2>3. pending'[h.csid] \in {pending[h.csid], None, now'}
      BY <2>1 DEF Forward
    <2> QED
      BY <2>1, <2>2, <2>3
  <1>4. DeletesPromoted(q)'
    <2> SUFFICES ASSUME h.at = "delete"
                 PROVE  /\ created'[h.csid] # None
                        /\ created'[h.csid] <= h.found
                        /\ h.gives => h.csid \in shown'
      BY DEF DeletesPromoted
    <2>1. /\ h.csid \in Csids /\ h.found \in Nat
          /\ created[h.csid] # None /\ created[h.csid] <= h.found
          /\ h.gives => h.csid \in shown
      BY <1>1 DEF Knows, HasId, FoundIsOldest, DeletesPromoted
    <2>2. created'[h.csid] # None /\ created'[h.csid] <= created[h.csid]
      BY <2>1 DEF Forward
    <2>3. created[h.csid] \in Nat /\ created'[h.csid] \in Nat
      BY <2>1, <2>2 DEF DeferralInv, Types
    <2> QED
      BY <2>1, <2>2, <2>3 DEF Forward
  <1>5. BeatsForRecorded(q)'
    BY <1>1 DEF Knows, HasId, BeatsForRecorded, Forward
  <1> QED
    BY <1>2, <1>3, <1>4, <1>5 DEF Knows

\* A step of p leaves the other hooks where they are; if p knows afterwards what
\* it has to know, it keeps the invariant.
Others(p) == \A q \in Procs \ {p} : hooks'[q] = hooks[q]

LEMMA StepKeepsInv ==
  ASSUME DeferralInv, Types', Forward, StagedInThePast', RetiredIsGone',
         NEW p \in Procs, Knows(p)', Others(p)
  PROVE  DeferralInv'
  <1>1. \A q \in Procs : Knows(q)'
    <2> TAKE q \in Procs
    <2>1. CASE q = p
      BY <2>1
    <2>2. CASE q # p
      <3>1. hooks'[q] = hooks[q]
        BY <2>2 DEF Others
      <3> QED
        BY <3>1, OthersKnow
    <2> QED
      BY <2>1, <2>2
  <1> QED
    BY <1>1 DEF DeferralInv
-----------------------------------------------------------------------------
(* The records of hooks.                                                   *)

LEMMA HookBecomes ==
  ASSUME Types, NEW p \in Procs, NEW r \in HookRecord,
         hooks' = [hooks EXCEPT ![p] = r]
  PROVE  hooks' \in [Procs -> HookRecord] /\ hooks'[p] = r /\ Others(p)
  BY DEF Types, Others

LEMMA IdleRecord ==
  ASSUME NEW e \in BOOLEAN
  PROVE  LET r == [Idle EXCEPT !.erred = e] IN r \in HookRecord /\ r.at = "idle"
  BY DEF HookRecord, Steps, Idle

LEMMA ExitIsTyped ==
  ASSUME Types, NEW p \in Procs, Exit(p) \/ ExitErred(p)
  PROVE  /\ hooks' \in [Procs -> HookRecord]
         /\ hooks'[p].at = "idle"
         /\ Others(p)
  <1>1. PICK e \in BOOLEAN : hooks' = [hooks EXCEPT ![p] = [Idle EXCEPT !.erred = e]]
    <2>1. hooks[p].erred \in BOOLEAN
      BY DEF Types, HookRecord
    <2>2. CASE Exit(p)
      BY <2>1, <2>2, Zenon DEF Exit
    <2>3. CASE ExitErred(p)
      BY <2>3, Zenon DEF ExitErred
    <2> QED
      BY <2>2, <2>3
  <1> QED
    BY <1>1, IdleRecord, HookBecomes

LEMMA GotoErredIsTyped ==
  ASSUME Types, NEW p \in Procs, NEW step \in Steps, GotoErred(p, step)
  PROVE  /\ hooks' \in [Procs -> HookRecord]
         /\ hooks'[p].at = step /\ hooks'[p].csid = hooks[p].csid
         /\ Others(p)
  <1>1. PICK e \in BOOLEAN : hooks' = [hooks EXCEPT ![p].at = step, ![p].erred = e]
    BY Zenon DEF GotoErred
  <1> DEFINE r == [hooks[p] EXCEPT !.at = step, !.erred = e]
  <1>2. hooks[p] \in HookRecord /\ hooks' = [hooks EXCEPT ![p] = r]
    BY <1>1 DEF Types, HookRecord
  <1>3. r \in HookRecord /\ r.at = step /\ r.csid = hooks[p].csid
    BY <1>1, <1>2 DEF HookRecord
  <1> HIDE DEF r
  <1> QED
    BY <1>2, <1>3, HookBecomes

\* A hook that has exited knows all it has to.
LEMMA IdleKnows ==
  ASSUME NEW p, hooks'[p].at = "idle"
  PROVE  Knows(p)'
  BY DEF Knows, HasId, FoundIsOldest, DeletesPromoted, BeatsForRecorded

LEMMA RunningHasId ==
  ASSUME DeferralInv, NEW p \in Procs, hooks[p].at # "idle"
  PROVE  hooks[p].csid \in Csids
  BY DEF DeferralInv, Knows, HasId

\* A step after which p has exited.
LEMMA LastStepKeepsInv ==
  ASSUME DeferralInv, Forward, NEW p \in Procs, Exit(p) \/ ExitErred(p),
         now' \in Nat, marker' \in Nat \union {None},
         pending' \in [Csids -> Nat \union {None}],
         created' \in [Csids -> Nat \union {None}],
         shown' \subseteq Csids, distrusted' \in BOOLEAN,
         StagedInThePast', RetiredIsGone'
  PROVE  DeferralInv' /\ Others(p)
  <1>1. /\ hooks' \in [Procs -> HookRecord]
        /\ hooks'[p].at = "idle"
        /\ Others(p)
    BY ExitIsTyped DEF DeferralInv
  <1>2. Types'
    BY <1>1 DEF Types
  <1> QED
    BY <1>1, <1>2, IdleKnows, StepKeepsInv

-----------------------------------------------------------------------------
(* Every step of SessionStart.                                             *)

LEMMA StartBeginsInv ==
  ASSUME DeferralInv, NEW p \in Procs, NEW c \in Csids, StartBegins(p, c)
  PROVE  DeferralInv' /\ Others(p)
  <1>1. UNCHANGED <<now, marker, pending, created, shown, spoken, distrusted>>
    BY DEF StartBegins, files, history
  <1>2. PICK human \in BOOLEAN, gives \in BOOLEAN :
          hooks' = [hooks EXCEPT ![p] =
                    [Idle EXCEPT !.at = IF human THEN "seen" ELSE "judge",
                                 !.csid = c, !.gives = gives]]
    <2> DEFINE Began(human, gives) ==
          hooks' = [hooks EXCEPT ![p] =
                    [Idle EXCEPT !.at = IF human THEN "seen" ELSE "judge",
                                 !.csid = c, !.gives = gives]]
    <2>1. PICK gives \in BOOLEAN : Began(FALSE, gives) \/ Began(c \in spoken, gives)
      BY Zenon DEF StartBegins
    <2>2. FALSE \in BOOLEAN /\ (c \in spoken) \in BOOLEAN
      OBVIOUS
    <2> QED
      BY <2>1, <2>2, Zenon
  <1> DEFINE r == [Idle EXCEPT !.at = IF human THEN "seen" ELSE "judge",
                               !.csid = c, !.gives = gives]
  <1>3. r \in HookRecord /\ r.at \in {"seen", "judge"} /\ r.csid = c
    BY <1>2 DEF HookRecord, Idle, Steps
  <1>4. /\ hooks' \in [Procs -> HookRecord] /\ Others(p)
        /\ hooks'[p].at \in {"seen", "judge"} /\ hooks'[p].csid = c
    <2> HIDE DEF r
    <2>1. hooks' = [hooks EXCEPT ![p] = r]
      BY <1>2 DEF r
    <2> QED
      BY <1>3, <2>1, HookBecomes DEF DeferralInv
  <1>5. Types' /\ Forward
    BY <1>1, <1>4 DEF DeferralInv, Types, Forward
  <1>6. StagedInThePast' /\ RetiredIsGone'
    BY <1>1 DEF DeferralInv, StagedInThePast, RetiredIsGone
  <1>7. Knows(p)'
    BY <1>4 DEF Knows, HasId, FoundIsOldest, DeletesPromoted, BeatsForRecorded
  <1> QED
    BY <1>4, <1>5, <1>6, <1>7, StepKeepsInv

LEMMA JudgePromoterInv ==
  ASSUME DeferralInv, NEW p \in Procs, JudgePromoter(p)
  PROVE  DeferralInv' /\ Others(p)
  <1> USE DEF JudgePromoter, HookAt, Goto, files, history
  <1>1. Types' /\ Others(p)
    BY RunningHasId DEF DeferralInv, Types, HookRecord, Steps, Others
  <1>2. Forward /\ StagedInThePast' /\ RetiredIsGone'
    BY DEF DeferralInv, Types, Forward, StagedInThePast, RetiredIsGone
  <1>3. Knows(p)'
    BY RunningHasId DEF DeferralInv, Types, HookRecord,
       Knows, HasId, FoundIsOldest, DeletesPromoted, BeatsForRecorded
  <1> QED
    BY <1>1, <1>2, <1>3, StepKeepsInv

LEMMA RetireMarkerInv ==
  ASSUME DeferralInv, NEW p \in Procs, RetireMarker(p)
  PROVE  DeferralInv' /\ Others(p)
  <1> USE DEF RetireMarker, HookAt, Goto, files, history
  <1>1. Types' /\ Others(p)
    BY RunningHasId DEF DeferralInv, Types, HookRecord, Steps, Others
  <1>2. Forward /\ StagedInThePast' /\ RetiredIsGone'
    BY DEF DeferralInv, Types, Forward, StagedInThePast, RetiredIsGone
  <1>3. Knows(p)'
    BY RunningHasId DEF DeferralInv, Types, HookRecord,
       Knows, HasId, FoundIsOldest, DeletesPromoted, BeatsForRecorded
  <1> QED
    BY <1>1, <1>2, <1>3, StepKeepsInv

LEMMA StartLooksUpInv ==
  ASSUME DeferralInv, NEW p \in Procs, StartLooksUp(p)
  PROVE  DeferralInv' /\ Others(p)
  <1> USE DEF StartLooksUp, HookAt, Goto, files, history
  <1>1. Types' /\ Others(p)
    BY RunningHasId DEF DeferralInv, Types, HookRecord, Steps, Others
  <1>2. Forward /\ StagedInThePast' /\ RetiredIsGone'
    BY DEF DeferralInv, Types, Forward, StagedInThePast, RetiredIsGone
  <1>3. Knows(p)'
    BY RunningHasId DEF DeferralInv, Types, HookRecord,
       Knows, HasId, FoundIsOldest, DeletesPromoted, BeatsForRecorded
  <1> QED
    BY <1>1, <1>2, <1>3, StepKeepsInv

LEMMA StageInv ==
  ASSUME DeferralInv, NEW p \in Procs, Stage(p)
  PROVE  DeferralInv' /\ Others(p)
  <1> USE DEF Stage, HookAt, Goto, GotoSweep, files, history
  <1>1. Types' /\ Others(p)
    BY RunningHasId DEF DeferralInv, Types, HookRecord, Steps, Others
  <1>2. Forward /\ StagedInThePast' /\ RetiredIsGone'
    BY DEF DeferralInv, Types, Forward, StagedInThePast, RetiredIsGone
  <1>3. Knows(p)'
    BY RunningHasId DEF DeferralInv, Types, HookRecord,
       Knows, HasId, FoundIsOldest, DeletesPromoted, BeatsForRecorded
  <1> QED
    BY <1>1, <1>2, <1>3, StepKeepsInv

LEMMA SweepUnlinksInv ==
  ASSUME DeferralInv, NEW p \in Procs, SweepUnlinks(p)
  PROVE  DeferralInv' /\ Others(p)
  <1> USE DEF SweepUnlinks, files, history
  <1>1. Forward
    BY DEF DeferralInv, Types, Forward
  <1>2. StagedInThePast' /\ RetiredIsGone'
    BY DEF DeferralInv, Types, StagedInThePast, RetiredIsGone
  <1> QED
    BY <1>1, <1>2, LastStepKeepsInv DEF DeferralInv, Types

LEMMA StartRecordsInv ==
  ASSUME DeferralInv, NEW p \in Procs, StartRecords(p)
  PROVE  DeferralInv' /\ Others(p)
  <1> DEFINE c == hooks[p].csid
  <1>1. c \in Csids /\ Types
    BY RunningHasId DEF StartRecords, HookAt, DeferralInv
  <1>2. UNCHANGED <<now, marker, pending, spoken, distrusted>>
    BY DEF StartRecords, files, history
  <1>3. /\ created' \in [Csids -> Nat \union {None}]
        /\ shown \subseteq shown' /\ shown' \subseteq Csids
        /\ \A d \in Csids : created[d] # None => created'[d] # None /\ created'[d] <= created[d]
    <2>1. CASE UNCHANGED <<created, shown>>
      BY <1>1, <2>1 DEF Types
    <2>2. CASE /\ created' = [created EXCEPT ![c] = Earliest(created[c], now)]
               /\ shown' = IF hooks[p].gives THEN shown \union {c} ELSE shown
      <3>1. created[c] \in Nat \union {None} /\ now \in Nat
        BY <1>1 DEF Types
      <3>2. /\ Earliest(created[c], now) \in Nat
            /\ created[c] # None => Earliest(created[c], now) <= created[c]
        BY <3>1, EarliestIsEarliest
      <3> QED
        BY <1>1, <2>2, <3>2, NoneIsNone DEF Types
    <2> QED
      BY <2>1, <2>2 DEF StartRecords, ShowPreview
  <1>4. Forward /\ StagedInThePast' /\ RetiredIsGone'
    BY <1>1, <1>2, <1>3 DEF DeferralInv, Types, Forward, StagedInThePast, RetiredIsGone
  <1>5. Exit(p) \/ ExitErred(p)
    BY DEF StartRecords
  <1> QED
    BY <1>1, <1>2, <1>3, <1>4, <1>5, LastStepKeepsInv DEF Types

-----------------------------------------------------------------------------
(* Every step of UserPromptSubmit.                                         *)

LEMMA PromptBeginsInv ==
  ASSUME DeferralInv, NEW p \in Procs, NEW c \in Csids, PromptBegins(p, c)
  PROVE  DeferralInv' /\ Others(p)
  <1> USE DEF PromptBegins, HookAt, Idle, files, history
  <1>1. Types' /\ Others(p)
    <2>1. hooks' \in [Procs -> HookRecord] /\ Others(p)
      BY RunningHasId DEF DeferralInv, Types, HookRecord, Steps, Others
    <2>2. /\ {now', marker'} \subseteq Nat \union {None} /\ now' \in Nat
          /\ {pending', created'} \subseteq [Csids -> Nat \union {None}]
          /\ shown' \subseteq Csids /\ distrusted' \in BOOLEAN
      BY DEF DeferralInv, Types
    <2> QED
      BY <2>1, <2>2 DEF Types
  <1>2. Forward /\ StagedInThePast' /\ RetiredIsGone'
    BY DEF DeferralInv, Types, Forward, StagedInThePast, RetiredIsGone
  <1>3. Knows(p)'
    BY RunningHasId DEF DeferralInv, Types, HookRecord,
       Knows, HasId, FoundIsOldest, DeletesPromoted, BeatsForRecorded
  <1> QED
    BY <1>1, <1>2, <1>3, StepKeepsInv

LEMMA MarkPromoterAliveInv ==
  ASSUME DeferralInv, NEW p \in Procs, MarkPromoterAlive(p)
  PROVE  DeferralInv' /\ Others(p)
  <1> USE DEF MarkPromoterAlive, HookAt, Goto, files, history
  <1>1. Types' /\ Others(p)
    <2>1. hooks' \in [Procs -> HookRecord] /\ Others(p)
      BY RunningHasId DEF DeferralInv, Types, HookRecord, Steps, Others
    <2>2. /\ {now', marker'} \subseteq Nat \union {None} /\ now' \in Nat
          /\ {pending', created'} \subseteq [Csids -> Nat \union {None}]
          /\ shown' \subseteq Csids /\ distrusted' \in BOOLEAN
      BY DEF DeferralInv, Types
    <2> QED
      BY <2>1, <2>2 DEF Types
  <1>2. Forward /\ StagedInThePast' /\ RetiredIsGone'
    BY DEF DeferralInv, Types, Forward, StagedInThePast, RetiredIsGone
  <1>3. Knows(p)'
    BY RunningHasId DEF DeferralInv, Types, HookRecord,
       Knows, HasId, FoundIsOldest, DeletesPromoted, BeatsForRecorded
  <1> QED
    BY <1>1, <1>2, <1>3, StepKeepsInv

LEMMA ReadPendingInv ==
  ASSUME DeferralInv, NEW p \in Procs, ReadPending(p)
  PROVE  DeferralInv' /\ Others(p)
  <1> USE DEF ReadPending, HookAt, files, history
  <1>1. Types' /\ Others(p)
    <2>1. hooks' \in [Procs -> HookRecord] /\ Others(p)
      BY RunningHasId DEF DeferralInv, Types, HookRecord, Steps, Others
    <2>2. /\ {now', marker'} \subseteq Nat \union {None} /\ now' \in Nat
          /\ {pending', created'} \subseteq [Csids -> Nat \union {None}]
          /\ shown' \subseteq Csids /\ distrusted' \in BOOLEAN
      BY DEF DeferralInv, Types
    <2> QED
      BY <2>1, <2>2 DEF Types
  <1>2. Forward /\ StagedInThePast' /\ RetiredIsGone'
    BY DEF DeferralInv, Types, Forward, StagedInThePast, RetiredIsGone
  <1>3. Knows(p)'
    BY RunningHasId DEF DeferralInv, Types, HookRecord,
       Knows, HasId, FoundIsOldest, DeletesPromoted, BeatsForRecorded
  <1> QED
    BY <1>1, <1>2, <1>3, StepKeepsInv

LEMMA PromoteInv ==
  ASSUME DeferralInv, NEW p \in Procs, Promote(p)
  PROVE  DeferralInv' /\ Others(p)
  <1> DEFINE c == hooks[p].csid
             f == hooks[p].found
  <1>1. /\ c \in Csids /\ Types
        /\ f \in Nat /\ f <= now /\ (pending[c] # None => f <= pending[c])
    BY RunningHasId DEF Promote, HookAt, DeferralInv, Knows, FoundIsOldest
  <1>2. UNCHANGED <<now, marker, pending, spoken, distrusted>>
    BY DEF Promote, files, history
  <1>3. StagedInThePast' /\ RetiredIsGone'
    BY <1>2 DEF DeferralInv, StagedInThePast, RetiredIsGone
  <1>4. CASE RecordFirstPrompt(p, f) /\ Goto(p, "delete")
    <2>1. /\ created' \in [Csids -> Nat \union {None}]
          /\ created'[c] \in Nat /\ created'[c] <= f
          /\ created[c] # None => created'[c] <= created[c]
          /\ \A d \in Csids \ {c} : created'[d] = created[d]
          /\ shown' = IF hooks[p].gives THEN shown \union {c} ELSE shown
      BY <1>1, <1>4, FirstPromptRecords, NoneIsNone
    <2>2. /\ hooks' \in [Procs -> HookRecord] /\ Others(p)
          /\ hooks'[p].at = "delete" /\ hooks'[p].csid = c /\ hooks'[p].found = f
          /\ hooks'[p].gives = hooks[p].gives
      BY <1>1, <1>4 DEF Goto, Types, HookRecord, Steps, Others
    <2>3. Types' /\ Forward
      BY <1>1, <1>2, <2>1, <2>2, NoneIsNone DEF Types, Forward
    <2>4. Knows(p)'
      BY <1>1, <1>2, <2>1, <2>2, NoneIsNone
      DEF Knows, HasId, FoundIsOldest, DeletesPromoted, BeatsForRecorded
    <2> QED
      BY <1>3, <2>2, <2>3, <2>4, StepKeepsInv
  <1>5. CASE GotoErred(p, "lookup") /\ UNCHANGED <<created, shown>>
    <2>1. "lookup" \in Steps
      BY DEF Steps
    <2>2. /\ hooks' \in [Procs -> HookRecord] /\ Others(p)
          /\ hooks'[p].at = "lookup" /\ hooks'[p].csid = c
      BY <1>1, <1>5, <2>1, GotoErredIsTyped
    <2>3. Types' /\ Forward
      BY <1>1, <1>2, <1>5, <2>2 DEF Types, Forward
    <2>4. Knows(p)'
      BY <1>1, <2>2 DEF Knows, HasId, FoundIsOldest, DeletesPromoted, BeatsForRecorded
    <2> QED
      BY <1>3, <2>2, <2>3, <2>4, StepKeepsInv
  <1> QED
    BY <1>4, <1>5 DEF Promote

LEMMA DeletePendingInv ==
  ASSUME DeferralInv, NEW p \in Procs, DeletePending(p)
  PROVE  DeferralInv' /\ Others(p)
  <1> USE DEF DeletePending, files, history
  <1>1. Forward
    BY DEF DeferralInv, Types, Forward
  <1>2. StagedInThePast' /\ RetiredIsGone'
    BY DEF DeferralInv, Types, StagedInThePast, RetiredIsGone
  <1> QED
    BY <1>1, <1>2, LastStepKeepsInv DEF DeferralInv, Types

LEMMA PromptLooksUpInv ==
  ASSUME DeferralInv, NEW p \in Procs, PromptLooksUp(p)
  PROVE  DeferralInv' /\ Others(p)
  <1> DEFINE c == hooks[p].csid
  <1>1. c \in Csids /\ Types
    BY RunningHasId DEF PromptLooksUp, HookAt, DeferralInv
  <1>2. UNCHANGED <<now, marker, pending, created, shown, spoken, distrusted>>
    BY DEF PromptLooksUp, files, history
  <1>3. PICK step \in {"heartbeat", "mint"}, preview \in BOOLEAN :
          /\ hooks' = [hooks EXCEPT ![p].at = step, ![p].preview = preview]
          /\ step = "heartbeat" => c \in Recorded /\ (preview => c \in shown)
    <2>1. CASE hooks' = [hooks EXCEPT ![p].at = IF c \in Recorded THEN "heartbeat" ELSE "mint",
                                    ![p].preview = c \in shown]
      <3> DEFINE s == IF c \in Recorded THEN "heartbeat" ELSE "mint"
                 v == c \in shown
      <3>1. s \in {"heartbeat", "mint"} /\ v \in BOOLEAN
        OBVIOUS
      <3>2. s = "heartbeat" => c \in Recorded /\ (v => c \in shown)
        OBVIOUS
      <3>3. hooks' = [hooks EXCEPT ![p].at = s, ![p].preview = v]
        BY <2>1, Zenon
      <3> HIDE DEF s, v
      <3> QED
        BY <3>1, <3>2, <3>3, Zenon
    <2>2. CASE Goto(p, "mint")
      <3>1. hooks[p].preview \in BOOLEAN
        BY <1>1 DEF Types, HookRecord
      <3>2. hooks' = [hooks EXCEPT ![p].at = "mint", ![p].preview = hooks[p].preview]
        BY <1>1, <2>2 DEF Goto, Types, HookRecord
      <3> QED
        BY <3>1, <3>2
    <2> QED
      BY <2>1, <2>2 DEF PromptLooksUp
  <1> DEFINE r == [hooks[p] EXCEPT !.at = step, !.preview = preview]
  <1>4. hooks[p] \in HookRecord /\ hooks' = [hooks EXCEPT ![p] = r]
    BY <1>1, <1>3 DEF Types, HookRecord
  <1>5. r \in HookRecord /\ r.at = step /\ r.csid = c /\ r.preview = preview
    BY <1>3, <1>4 DEF HookRecord, Steps
  <1>6. hooks' \in [Procs -> HookRecord] /\ hooks'[p] = r /\ Others(p)
    <2> HIDE DEF r
    <2> QED
      BY <1>1, <1>4, <1>5, HookBecomes
  <1>7. Types' /\ Forward
    BY <1>1, <1>2, <1>6 DEF Types, Forward
  <1>8. StagedInThePast' /\ RetiredIsGone'
    BY <1>2 DEF DeferralInv, StagedInThePast, RetiredIsGone
  <1>9. Knows(p)'
    <2> HIDE DEF r
    <2>1. hooks'[p].at \in {"heartbeat", "mint"} /\ hooks'[p].csid = c
      BY <1>3, <1>5, <1>6
    <2>2. hooks'[p].at = "heartbeat" => c \in Recorded /\ (hooks'[p].preview => c \in shown)
      BY <1>3, <1>5, <1>6
    <2> QED
      BY <1>1, <1>2, <2>1, <2>2
      DEF Recorded, Knows, HasId, FoundIsOldest, DeletesPromoted, BeatsForRecorded
  <1> QED
    BY <1>6, <1>7, <1>8, <1>9, StepKeepsInv

LEMMA HeartbeatInv ==
  ASSUME DeferralInv, NEW p \in Procs, Heartbeat(p)
  PROVE  DeferralInv' /\ Others(p)
  <1>1. hooks[p].csid \in Csids /\ Types
    BY RunningHasId DEF Heartbeat, HookAt, DeferralInv
  <1>2. /\ UNCHANGED <<now, marker, pending, created, spoken, distrusted>>
        /\ shown \subseteq shown' /\ shown' \subseteq Csids
    BY <1>1 DEF Heartbeat, ShowPreview, Types, files, history
  <1>3. Forward /\ StagedInThePast' /\ RetiredIsGone'
    BY <1>1, <1>2 DEF DeferralInv, Types, Forward, StagedInThePast, RetiredIsGone
  <1>4. Exit(p) \/ ExitErred(p)
    BY DEF Heartbeat
  <1> QED
    BY <1>1, <1>2, <1>3, <1>4, LastStepKeepsInv DEF Types

LEMMA MintInv ==
  ASSUME DeferralInv, NEW p \in Procs, Mint(p)
  PROVE  DeferralInv' /\ Others(p)
  <1> DEFINE c == hooks[p].csid
  <1>1. c \in Csids /\ Types
    BY RunningHasId DEF Mint, HookAt, DeferralInv
  <1>2. UNCHANGED <<now, marker, pending, spoken, distrusted>>
    BY DEF Mint, files, history
  <1>3. /\ created' \in [Csids -> Nat \union {None}]
        /\ shown \subseteq shown' /\ shown' \subseteq Csids
        /\ \A d \in Csids : created[d] # None => created'[d] # None /\ created'[d] <= created[d]
    <2>1. CASE UNCHANGED <<created, shown>>
      BY <1>1, <2>1 DEF Types
    <2>2. CASE RecordFirstPrompt(p, None)
      <3>1. /\ created' \in [Csids -> Nat \union {None}]
            /\ created'[c] \in Nat
            /\ created[c] # None => created'[c] <= created[c]
            /\ \A d \in Csids \ {c} : created'[d] = created[d]
            /\ shown' = IF hooks[p].gives THEN shown \union {c} ELSE shown
        BY <1>1, <2>2, FirstPromptRecords
      <3> QED
        BY <1>1, <3>1, NoneIsNone DEF Types
    <2> QED
      BY <2>1, <2>2 DEF Mint
  <1>4. Forward /\ StagedInThePast' /\ RetiredIsGone'
    BY <1>1, <1>2, <1>3 DEF DeferralInv, Types, Forward, StagedInThePast, RetiredIsGone
  <1>5. Exit(p) \/ ExitErred(p)
    BY DEF Mint
  <1> QED
    BY <1>1, <1>2, <1>3, <1>4, <1>5, LastStepKeepsInv DEF Types

LEMMA KilledInv ==
  ASSUME DeferralInv, NEW p \in Procs, Killed(p)
  PROVE  DeferralInv' /\ Others(p)
  <1> USE DEF Killed, files, history
  <1>1. Forward
    BY DEF DeferralInv, Types, Forward
  <1>2. StagedInThePast' /\ RetiredIsGone'
    BY DEF DeferralInv, Types, StagedInThePast, RetiredIsGone
  <1> QED
    BY <1>1, <1>2, LastStepKeepsInv DEF DeferralInv, Types

-----------------------------------------------------------------------------
(* The invariant, and the properties it carries.                           *)

LEMMA TickInv ==
  ASSUME DeferralInv, HoursPass
  PROVE  DeferralInv'
  <1>1. Types' /\ Forward
    BY DEF HoursPass, DeferralInv, Types, Forward, files, history
  <1>2. StagedInThePast' /\ RetiredIsGone'
    BY DEF HoursPass, DeferralInv, Types, StagedInThePast, RetiredIsGone, files, history
  <1>3. \A q \in Procs : Knows(q)'
    BY <1>1, OthersKnow DEF HoursPass
  <1> QED
    BY <1>1, <1>2, <1>3 DEF DeferralInv

LEMMA InitInv == Init => DeferralInv
  <1> SUFFICES ASSUME Init
               PROVE  DeferralInv
    OBVIOUS
  <1>1. Types
    BY DEF Init, Types, HookRecord, Idle, Steps
  <1>2. StagedInThePast /\ RetiredIsGone
    BY DEF Init, StagedInThePast, RetiredIsGone
  <1>3. \A p \in Procs : Knows(p)
    BY DEF Init, Idle, Knows, HasId, FoundIsOldest, DeletesPromoted, BeatsForRecorded
  <1> QED
    BY <1>1, <1>2, <1>3 DEF DeferralInv

LEMMA NextKeepsInv ==
  ASSUME DeferralInv, [Next]_vars
  PROVE  DeferralInv'
  <1>1. CASE \E p \in Procs, c \in Csids : StartBegins(p, c) \/ PromptBegins(p, c)
    BY <1>1, StartBeginsInv, PromptBeginsInv
  <1>2. CASE \E p \in Procs : StartStep(p)
    BY <1>2, JudgePromoterInv, RetireMarkerInv, StartLooksUpInv, StageInv,
       SweepUnlinksInv, StartRecordsInv DEF StartStep
  <1>3. CASE \E p \in Procs : PromptStep(p)
    BY <1>3, MarkPromoterAliveInv, ReadPendingInv, PromoteInv, DeletePendingInv,
       PromptLooksUpInv, HeartbeatInv, MintInv DEF PromptStep
  <1>4. CASE \E p \in Procs : Killed(p)
    BY <1>4, KilledInv
  <1>5. CASE HoursPass
    BY <1>5, TickInv
  <1>6. CASE UNCHANGED vars
    BY <1>6 DEF vars, files, history, DeferralInv, Types, StagedInThePast,
       RetiredIsGone, Knows, HasId, FoundIsOldest, DeletesPromoted, BeatsForRecorded
  <1> QED
    BY <1>1, <1>2, <1>3, <1>4, <1>5, <1>6 DEF Next

\* What hooks know of the files stays true while others write them
\* (lib/pending.mjs, the two hooks).
THEOREM DeferralInvariant == Spec => []DeferralInv
  <1>1. DeferralInv /\ [Next]_vars => DeferralInv'
    BY NextKeepsInv
  <1> QED
    BY InitInv, <1>1, PTL DEF Spec

\* Only its own steps move a hook.
LEMMA OwnSteps ==
  ASSUME DeferralInv, [Next]_vars, NEW p \in Procs, hooks'[p] # hooks[p]
  PROVE  \/ \E c \in Csids : StartBegins(p, c) \/ PromptBegins(p, c)
         \/ StartStep(p) \/ PromptStep(p) \/ Killed(p)
  <1>1. ASSUME NEW q \in Procs, Others(q)
        PROVE  q = p
    BY <1>1 DEF Others
  <1>2. ASSUME NEW q \in Procs, NEW c \in Csids, StartBegins(q, c) \/ PromptBegins(q, c)
        PROVE  q = p
    BY <1>1, <1>2, StartBeginsInv, PromptBeginsInv
  <1>3. ASSUME NEW q \in Procs, StartStep(q)
        PROVE  q = p
    BY <1>1, <1>3, JudgePromoterInv, RetireMarkerInv, StartLooksUpInv, StageInv,
       SweepUnlinksInv, StartRecordsInv DEF StartStep
  <1>4. ASSUME NEW q \in Procs, PromptStep(q)
        PROVE  q = p
    BY <1>1, <1>4, MarkPromoterAliveInv, ReadPendingInv, PromoteInv, DeletePendingInv,
       PromptLooksUpInv, HeartbeatInv, MintInv DEF PromptStep
  <1>5. ASSUME NEW q \in Procs, Killed(q)
        PROVE  q = p
    BY <1>1, <1>5, KilledInv
  <1>6. ~HoursPass /\ ~UNCHANGED vars
    BY DEF HoursPass, vars
  <1> QED
    BY <1>2, <1>3, <1>4, <1>5, <1>6 DEF Next

\* What a hook does that ends without an error.
LEMMA ExitErredIsSeen ==
  ASSUME Types, NEW p \in Procs, ExitErred(p)
  PROVE  hooks'[p] # Idle
  <1>1. hooks'[p].erred /\ ~Idle.erred
    BY DEF Types, ExitErred, Idle
  <1> QED
    BY <1>1

\* A hook that judges the promoter and goes on to defer found a marker, which is
\* not there when the promoter is distrusted.
THEOREM DeferralDistrustSticks == Spec => DistrustSticks
  <1>1. ASSUME DeferralInv, [Next]_vars, NEW p \in Procs,
               HookAt(p, "judge"), hooks'[p].at = "known"
        PROVE  ~distrusted
    <2>1. StartStep(p)
      <3>1. hooks'[p] # hooks[p]
        BY <1>1 DEF HookAt
      <3>2. ~ \E c \in Csids : StartBegins(p, c) \/ PromptBegins(p, c)
        BY <1>1 DEF StartBegins, PromptBegins, HookAt
      <3>3. ~PromptStep(p)
        BY <1>1 DEF PromptStep, MarkPromoterAlive, ReadPending, Promote, DeletePending,
           PromptLooksUp, Heartbeat, Mint, HookAt
      <3>4. ~Killed(p)
        BY <1>1, ExitIsTyped DEF Killed, DeferralInv
      <3> QED
        BY <1>1, <3>1, <3>2, <3>3, <3>4, OwnSteps
    <2>2. JudgePromoter(p)
      BY <1>1, <2>1 DEF StartStep, RetireMarker, StartLooksUp, Stage, SweepUnlinks,
         StartRecords, HookAt
    <2>3. marker # None
      BY <1>1, <2>2 DEF JudgePromoter, Goto, DeferralInv, Types, HookRecord
    <2> QED
      BY <1>1, <2>3 DEF DeferralInv, RetiredIsGone
  <1>2. DeferralInv /\ [Next]_vars =>
          \A p \in Procs : HookAt(p, "judge") /\ hooks'[p].at = "known" => ~distrusted
    BY <1>1
  <1> QED
    BY <1>2, DeferralInvariant, PTL DEF Spec, DistrustSticks

\* SessionStart has recorded or staged its session when it is done with it.
THEOREM DeferralStartLeavesTrace == Spec => StartLeavesTrace
  <1> DEFINE Traced(p) == hooks[p].csid \in Recorded' \union Staged'
  <1>1. ASSUME DeferralInv, [Next]_vars, NEW p \in Procs,
               hooks[p].at \in {"judge", "retire", "known", "stage", "seen"},
               hooks'[p].at = "sweep" \/ hooks'[p] = Idle
        PROVE  Traced(p)
    <2>1. StartStep(p)
      <3>1. hooks'[p] # hooks[p]
        BY <1>1 DEF Idle
      <3>2. ~ \E c \in Csids : StartBegins(p, c) \/ PromptBegins(p, c)
        BY <1>1 DEF StartBegins, PromptBegins, HookAt
      <3>3. ~PromptStep(p)
        BY <1>1 DEF PromptStep, MarkPromoterAlive, ReadPending, Promote, DeletePending,
           PromptLooksUp, Heartbeat, Mint, HookAt
      <3>4. ~Killed(p)
        BY <1>1, ExitIsTyped, ExitErredIsSeen DEF Killed, DeferralInv
      <3> QED
        BY <1>1, <3>1, <3>2, <3>3, <3>4, OwnSteps
    <2>2. hooks[p].csid \in Csids /\ Types /\ Types'
      BY <1>1, RunningHasId, NextKeepsInv DEF DeferralInv
    <2>3. Stage(p) \/ StartRecords(p)
      <3>1. ~JudgePromoter(p) /\ ~RetireMarker(p) /\ ~StartLooksUp(p)
        BY <1>1, <2>2 DEF JudgePromoter, RetireMarker, StartLooksUp, Goto, Types,
           HookRecord, Idle
      <3>2. ~SweepUnlinks(p)
        BY <1>1 DEF SweepUnlinks, HookAt
      <3> QED
        BY <2>1, <3>1, <3>2 DEF StartStep
    <2>4. CASE Stage(p)
      <3>1. pending' = [pending EXCEPT ![hooks[p].csid] = now]
        BY <1>1, <2>2, <2>4 DEF Stage, Goto, Types, HookRecord, Idle
      <3> QED
        BY <2>2, <3>1, NoneIsNone DEF Types, Staged
    <2>5. CASE StartRecords(p)
      <3>1. ~ExitErred(p)
        BY <1>1, <2>2, ExitIsTyped, ExitErredIsSeen
      <3>2. created' = [created EXCEPT ![hooks[p].csid] = Earliest(created[hooks[p].csid], now)]
        BY <2>5, <3>1 DEF StartRecords
      <3>3. Earliest(created[hooks[p].csid], now) \in Nat
        BY <2>2, EarliestIsEarliest DEF Types
      <3> QED
        BY <2>2, <3>2, <3>3, NoneIsNone DEF Types, Recorded
    <2> QED
      BY <2>3, <2>4, <2>5
  <1>2. DeferralInv /\ [Next]_vars =>
          \A p \in Procs :
            /\ hooks[p].at \in {"judge", "retire", "known", "stage", "seen"}
            /\ hooks'[p].at = "sweep" \/ hooks'[p] = Idle
            => Traced(p)
    BY <1>1
  <1> QED
    BY <1>2, DeferralInvariant, PTL DEF Spec, StartLeavesTrace

\* A prompt hook that ends without an error leaves its session recorded, with a
\* preview if its prompt makes one.
THEOREM DeferralSpokenIsRecorded == Spec => SpokenIsRecorded
  <1> DEFINE Prompting(p) == hooks[p].at \in {"mark", "read", "promote", "delete",
                                             "lookup", "heartbeat", "mint"}
  <1>1. ASSUME DeferralInv, [Next]_vars, NEW p \in Procs, Prompting(p), hooks'[p] = Idle
        PROVE  /\ hooks[p].csid \in Recorded'
               /\ hooks[p].gives => hooks[p].csid \in shown'
    <2> DEFINE c == hooks[p].csid
    <2>1. c \in Csids /\ Types /\ Types' /\ Knows(p)
      BY <1>1, RunningHasId, NextKeepsInv DEF DeferralInv
    <2>2. hooks'[p].at = "idle"
      BY <1>1 DEF Idle
    <2>3. PromptStep(p)
      <3>1. hooks'[p] # hooks[p]
        BY <1>1, <2>2
      <3>2. ~ \E d \in Csids : StartBegins(p, d) \/ PromptBegins(p, d)
        BY <1>1 DEF StartBegins, PromptBegins, HookAt
      <3>3. ~StartStep(p)
        BY <1>1 DEF StartStep, JudgePromoter, RetireMarker, StartLooksUp, Stage,
           SweepUnlinks, StartRecords, HookAt
      <3>4. ~Killed(p)
        BY <1>1, <2>1, ExitErredIsSeen DEF Killed
      <3> QED
        BY <1>1, <3>1, <3>2, <3>3, <3>4, OwnSteps
    <2>4. DeletePending(p) \/ Heartbeat(p) \/ Mint(p)
      <3>1. ~MarkPromoterAlive(p) /\ ~PromptLooksUp(p)
        BY <2>1, <2>2 DEF MarkPromoterAlive, PromptLooksUp, Goto, Types, HookRecord
      <3>2. ~ReadPending(p)
        <4> SUFFICES ASSUME ReadPending(p)  PROVE FALSE
          OBVIOUS
        <4>1. PICK gives \in BOOLEAN :
                hooks' = [hooks EXCEPT
                  ![p].gives = gives, ![p].found = pending[c],
                  ![p].at = IF pending[c] = None THEN "lookup" ELSE "promote"]
          BY DEF ReadPending
        <4>2. hooks'[p].at \in {"lookup", "promote"}
          BY <2>1, <4>1 DEF Types, HookRecord
        <4> QED
          BY <2>2, <4>2
      <3>3. ~Promote(p)
        <4>1. ~GotoErred(p, "lookup")
          BY <2>1, <2>2, GotoErredIsTyped DEF Steps
        <4> QED
          BY <2>1, <2>2, <4>1 DEF Promote, Goto, Types, HookRecord
      <3> QED
        BY <2>3, <3>1, <3>2, <3>3 DEF PromptStep
    <2>5. ~ExitErred(p)
      BY <1>1, <2>1, ExitErredIsSeen
    <2>6. CASE DeletePending(p)
      BY <2>1, <2>6 DEF DeletePending, HookAt, Knows, DeletesPromoted, Recorded
    <2>7. CASE Heartbeat(p)
      BY <2>1, <2>5, <2>7 DEF Heartbeat, ShowPreview, HookAt, Knows, BeatsForRecorded, Recorded
    <2>8. CASE Mint(p)
      <3>1. RecordFirstPrompt(p, None)
        BY <2>5, <2>8 DEF Mint
      <3>2. created'[c] \in Nat /\ (hooks[p].gives => c \in shown')
        BY <2>1, <3>1, FirstPromptRecords
      <3> QED
        BY <2>1, <3>2, NoneIsNone DEF Recorded
    <2> QED
      BY <2>4, <2>6, <2>7, <2>8
  <1>2. DeferralInv /\ [Next]_vars =>
          \A p \in Procs :
            /\ hooks[p].at \in {"mark", "read", "promote", "delete", "lookup",
                               "heartbeat", "mint"}
            /\ hooks'[p] = Idle
            => /\ hooks[p].csid \in Recorded'
               /\ hooks[p].gives => hooks[p].csid \in shown'
    BY <1>1
  <1> QED
    BY <1>2, DeferralInvariant, PTL DEF Spec, SpokenIsRecorded

\* The time of a start that was staged is not thrown away by a prompt before
\* the record has one as early.
THEOREM DeferralPromotedBeforeDeleted == Spec => PromotedBeforeDeleted
  <1> DEFINE Kept(c) ==
        \/ created[c] # None /\ created[c] <= pending[c]
        \/ \E p \in Procs : HookAt(p, "sweep") /\ c \in hooks[p].expired
  <1>1. ASSUME DeferralInv, [Next]_vars, NEW c \in Csids,
               pending[c] # None, pending'[c] = None
        PROVE  Kept(c)
    <2>1. Types /\ pending' # pending
      BY <1>1 DEF DeferralInv
    <2>2. PICK p \in Procs : Stage(p) \/ SweepUnlinks(p) \/ DeletePending(p)
      <3>1. \A p \in Procs, d \in Csids : ~StartBegins(p, d) /\ ~PromptBegins(p, d)
        BY <2>1 DEF StartBegins, PromptBegins, files
      <3>2. \A p \in Procs :
              /\ ~JudgePromoter(p) /\ ~RetireMarker(p) /\ ~StartLooksUp(p)
              /\ ~StartRecords(p) /\ ~Killed(p)
        BY <2>1 DEF JudgePromoter, RetireMarker, StartLooksUp, StartRecords, Killed, files
      <3>3. \A p \in Procs :
              /\ ~MarkPromoterAlive(p) /\ ~ReadPending(p) /\ ~Promote(p)
              /\ ~PromptLooksUp(p) /\ ~Heartbeat(p) /\ ~Mint(p)
        BY <2>1 DEF MarkPromoterAlive, ReadPending, Promote, PromptLooksUp, Heartbeat,
           Mint, files
      <3>4. ~HoursPass /\ ~UNCHANGED vars
        BY <2>1 DEF HoursPass, vars, files
      <3> QED
        BY <1>1, <3>1, <3>2, <3>3, <3>4 DEF Next, StartStep, PromptStep
    <2>3. CASE Stage(p)
      BY <1>1, <2>1, <2>3, NoneIsNone DEF Stage, Types
    <2>4. CASE SweepUnlinks(p)
      BY <1>1, <2>1, <2>4 DEF SweepUnlinks
    <2>5. CASE DeletePending(p)
      <3> DEFINE h == hooks[p]
      <3>1. c = h.csid
        BY <1>1, <2>1, <2>5 DEF DeletePending, Types
      <3>2. /\ h.found \in Nat /\ h.found <= pending[c]
            /\ created[c] # None /\ created[c] <= h.found
        BY <1>1, <2>5, <3>1
        DEF DeferralInv, Knows, FoundIsOldest, DeletesPromoted, DeletePending, HookAt
      <3>3. created[c] \in Nat /\ pending[c] \in Nat
        BY <1>1, <2>1, <3>2 DEF Types
      <3> QED
        BY <3>2, <3>3
    <2> QED
      BY <2>2, <2>3, <2>4, <2>5
  <1>2. DeferralInv /\ [Next]_vars =>
          \A c \in Csids : pending[c] # None /\ pending'[c] = None => Kept(c)
    BY <1>1
  <1> QED
    BY <1>2, DeferralInvariant, PTL DEF Spec, PromotedBeforeDeleted

-----------------------------------------------------------------------------
(* Storage: where a call writes.                                           *)

LEMMA LeastOfNats ==
  ASSUME NEW S \in SUBSET Nat, S # {}
  PROVE  Min(S) \in S /\ \A y \in S : Min(S) <= y
  <1>1. PICK x \in S : \A y \in S : ~(<<y, x>> \in OpToRel(<, Nat))
    BY NatLessThanWellFounded, WFMin
  <1>2. \A y \in S : ~(y < x)
    BY <1>1 DEF OpToRel
  <1>3. \E z \in S : \A y \in S : z <= y
    BY <1>2
  <1> QED
    BY <1>3 DEF Min

LEMMA TargetIs ==
  ASSUME NEW w \in Dirs
  PROVE  Target(w) = IF envRoot # NoPlace THEN envRoot
                     ELSE IF At(w, "dru") \in dbs THEN At(w, "dru")
                     ELSE At(w, "tickets")
  <1>1. At(w, "dru") \in Place
    BY DEF At, Place
  <1>2. CASE envRoot # NoPlace
    BY <1>2 DEF Target, PlaceOf, ResolvePaths, ResolveStorageTarget, RootPath,
                ResolveStoragePaths, BuildFilePaths
  <1>3. CASE envRoot = NoPlace /\ At(w, "dru") \in dbs
    BY <1>1, <1>3, NoPlaceIsNoPlace
    DEF Target, PlaceOf, ResolvePaths, ResolveStorageTarget, RootPath,
        ResolveStoragePaths, BuildFilePaths
  <1>4. CASE envRoot = NoPlace /\ At(w, "dru") \notin dbs
    BY <1>4 DEF Target, PlaceOf, ResolvePaths, ResolveStorageTarget, Root, LegacyPaths
  <1> QED
    BY <1>2, <1>3, <1>4

LEMMA AscendIs ==
  ASSUME NEW d \in Dirs
  PROVE  \/ /\ AscendForExistingDb(d) = NoPlace
            /\ \A x \in Ascent(d) : LayoutsAt(x) = {}
         \/ \E x \in Ascent(d) :
              /\ LayoutsAt(x) # {}
              /\ AscendForExistingDb(d) =
                   At(x, IF "tickets" \in LayoutsAt(x) THEN "tickets" ELSE "dru")
              /\ \A y \in Ascent(d) : y < x => LayoutsAt(y) = {}
  <1> DEFINE hits == {x \in Ascent(d) : LayoutsAt(x) # {}}
  <1>1. CASE hits = {}
    BY <1>1 DEF AscendForExistingDb
  <1>2. CASE hits # {}
    <2>1. hits \in SUBSET Nat
      BY DepthType DEF Ascent, Dirs
    <2>2. Min(hits) \in hits /\ \A y \in hits : Min(hits) <= y
      BY <1>2, <2>1, LeastOfNats
    <2>3. AscendForExistingDb(d) =
            At(Min(hits), IF "tickets" \in LayoutsAt(Min(hits)) THEN "tickets" ELSE "dru")
      BY <1>2 DEF AscendForExistingDb
    <2>4. \A y \in Ascent(d) : y < Min(hits) => LayoutsAt(y) = {}
      <3> SUFFICES ASSUME NEW y \in Ascent(d), y < Min(hits), LayoutsAt(y) # {}
                   PROVE  FALSE
        OBVIOUS
      <3> QED
        BY <2>1, <2>2
    <2> QED
      BY <2>2, <2>3, <2>4
  <1> QED
    BY <1>1, <1>2

LEMMA DefaultIs ==
  ASSUME NEW cwd \in Dirs
  PROVE  PlaceOf(ResolvePaths(NoOptions(cwd))) =
           IF envRoot # NoPlace THEN envRoot
           ELSE IF AscendForExistingDb(cwd) # NoPlace THEN AscendForExistingDb(cwd)
           ELSE At(cwd, "dru")
  BY DEF PlaceOf, ResolvePaths, NoOptions, ResolveStoragePaths, BuildFilePaths

-----------------------------------------------------------------------------
\* The databases there are, and the environment, are places.
PlacesInv ==
  /\ dbs \subseteq Place
  /\ envRoot \in Place \union {NoPlace}
  /\ PromptScattersNothing

LEMMA TargetIsPlace ==
  ASSUME PlacesInv, NEW w \in Dirs
  PROVE  Target(w) \in Place
  <1>1. Target(w) \in {envRoot, At(w, "dru"), At(w, "tickets")}
    BY TargetIs
  <1>2. At(w, "dru") \in Place /\ At(w, "tickets") \in Place
    BY DEF At, Place
  <1>3. Target(w) = envRoot => envRoot # NoPlace
    BY <1>2, TargetIs, NoPlaceIsNoPlace
  <1> QED
    BY <1>1, <1>2, <1>3 DEF PlacesInv

LEMMA CommandsWritePlaces ==
  ASSUME PlacesInv, NEW d \in Dirs
  PROVE  /\ PlaceOf(ResolvePaths(NoOptions(d))) \in Place
         /\ PlaceOf(ResolvePaths(Root(d))) \in Place
  <1>1. Ascent(d) \subseteq Dirs
    BY DepthType DEF Ascent, Dirs
  <1>2. AscendForExistingDb(d) \in Place \union {NoPlace}
    BY AscendIs, <1>1 DEF At, Place
  <1>3. PlaceOf(ResolvePaths(NoOptions(d))) \in Place
    BY DefaultIs, <1>2 DEF PlacesInv, At, Place
  <1>4. PlaceOf(ResolvePaths(Root(d))) \in Place
    BY DEF PlaceOf, ResolvePaths, Root, LegacyPaths, At, Place
  <1> QED
    BY <1>3, <1>4

\* A prompt writes in a database, or where one may be made.
LEMMA GateAnchors ==
  ASSUME PlacesInv, NEW w \in Dirs,
         w = Worktree \/ envRoot # NoPlace \/ HasInitializedStorage(w)
  PROVE  Anchored(Target(w)) \/ Target(w) \in dbs
  <1>1. CASE envRoot # NoPlace
    BY <1>1, TargetIs DEF Anchored
  <1>2. CASE envRoot = NoPlace /\ w = Worktree
    <2>1. Target(w) \in {At(Worktree, "dru"), At(Worktree, "tickets")}
      BY <1>2, TargetIs
    <2> QED
      BY <2>1 DEF Anchored, At
  <1>3. CASE envRoot = NoPlace /\ HasInitializedStorage(w)
    <2>1. PICK place \in dbs : place.dir = w
      BY <1>3 DEF HasInitializedStorage, LayoutsAt
    <2>2. place \in {At(w, "tickets"), At(w, "dru")}
      BY <2>1 DEF PlacesInv, Place, At
    <2> QED
      BY <1>3, <2>1, <2>2, TargetIs
  <1> QED
    BY <1>1, <1>2, <1>3

LEMMA HookWritesKeeps ==
  ASSUME PlacesInv, NEW kind \in Hooks, NEW place \in Place,
         kind = "prompt" => Anchored(place) \/ place \in dbs,
         HookWrites(kind, place)
  PROVE  PlacesInv'
  BY DEF PlacesInv, HookWrites, WriteTo, PromptScattersNothing, Anchored

LEMMA NextKeepsPlaces ==
  ASSUME PlacesInv, [PathsNext]_pathVars
  PROVE  PlacesInv'
  <1>1. ASSUME NEW cwd \in Dirs, SessionStart(cwd)
        PROVE  PlacesInv'
    <2>1. PICK probe \in Probe(cwd) \ {"not_a_repo"} :
            HookWrites("session_start", Target(WorkspaceRoot(cwd, probe)))
      BY <1>1 DEF SessionStart
    <2>2. WorkspaceRoot(cwd, probe) \in Dirs
      BY WorktreeType DEF WorkspaceRoot, Dirs
    <2> QED
      BY <2>1, <2>2, TargetIsPlace, HookWritesKeeps DEF Hooks
  <1>2. ASSUME NEW cwd \in Dirs, Prompt(cwd)
        PROVE  PlacesInv'
    <2>1. PICK probe \in Probe(cwd) :
            /\ probe = "ok" \/ envRoot # NoPlace \/ HasInitializedStorage(cwd)
            /\ HookWrites("prompt", Target(WorkspaceRoot(cwd, probe)))
      BY <1>2 DEF Prompt
    <2> DEFINE w == WorkspaceRoot(cwd, probe)
    <2>2. w \in Dirs /\ (w = Worktree \/ envRoot # NoPlace \/ HasInitializedStorage(w))
      BY <2>1, WorktreeType DEF WorkspaceRoot, Dirs
    <2>3. Anchored(Target(w)) \/ Target(w) \in dbs
      BY <2>2, GateAnchors
    <2>4. Target(w) \in Place
      BY <2>2, TargetIsPlace
    <2> HIDE DEF w
    <2>5. HookWrites("prompt", Target(w))
      BY <2>1 DEF w
    <2> QED
      BY <2>3, <2>4, <2>5, HookWritesKeeps DEF Hooks
  <1>3. ASSUME NEW d \in Dirs, Command(NoOptions(d)) \/ Command(Root(d))
        PROVE  PlacesInv'
    BY <1>3, CommandsWritePlaces
    DEF Command, WriteTo, PlacesInv, PromptScattersNothing, Anchored
  <1>4. ASSUME NEW place \in Place, InitProjection(place)
        PROVE  PlacesInv'
    BY <1>4 DEF InitProjection, WriteTo, PlacesInv, PromptScattersNothing, Anchored
  <1>5. ASSUME NEW place \in dbs, RemoveProjection(place)
        PROVE  PlacesInv'
    BY <1>5 DEF RemoveProjection, PlacesInv, PromptScattersNothing, Anchored
  <1>6. CASE UNCHANGED pathVars
    BY <1>6 DEF pathVars, PlacesInv, PromptScattersNothing, Anchored
  <1> QED
    BY <1>1, <1>2, <1>3, <1>4, <1>5, <1>6 DEF PathsNext
\* The databases stay within the places, and prompts anchored, forever.
LEMMA InitPlaces == PathsInit => PlacesInv
  BY DEF PathsInit, PlacesInv, PromptScattersNothing

-----------------------------------------------------------------------------
(* Commands and hooks find the same database.                              *)

LEMMA OneLayout ==
  ASSUME PlacesInv, NEW d \in Dirs, Cardinality(LayoutsAt(d)) = 1
  PROVE  \/ At(d, "tickets") \in dbs /\ LayoutsAt(d) = {"tickets"}
         \/ At(d, "dru") \in dbs /\ LayoutsAt(d) = {"dru"}
  <1>1. \A place \in dbs : place.dir = d =>
          place = At(d, place.layout) /\ place.layout \in {"tickets", "dru"}
    BY DEF PlacesInv, Place, At
  <1>2. LayoutsAt(d) \subseteq {"tickets", "dru"}
    BY <1>1 DEF LayoutsAt
  <1>3. \A l \in LayoutsAt(d) : At(d, l) \in dbs
    BY <1>1 DEF LayoutsAt
  <1>4. LayoutsAt(d) # {}
    BY FS_EmptySet
  <1>5. LayoutsAt(d) # {"tickets", "dru"}
    <2> DEFINE both == {"dru"} \union {"tickets"}
    <2>1. IsFiniteSet({"dru"})
      BY FS_Singleton
    <2>2. IsFiniteSet(both)
      BY <2>1, FS_AddElement, Zenon
    <2>3. both # {"tickets"} /\ both # {"dru"} /\ both = {"tickets", "dru"}
      OBVIOUS
    <2> HIDE DEF both
    <2>4. Cardinality(both) = 1 => \E x : both = {x}
      BY <2>2, FS_Singleton
    <2> QED
      BY <2>3, <2>4
  <1> QED
    BY <1>2, <1>3, <1>4, <1>5

LEMMA PlacesAgree == PlacesInv => CommandsFindHookDatabase
  <1> SUFFICES ASSUME PlacesInv, NEW cwd \in Dirs
               PROVE  /\ envRoot # NoPlace => SameDatabase(cwd)
                      /\ NothingNearer(cwd) /\ Cardinality(LayoutsAt(Worktree)) = 1
                           => SameDatabase(cwd)
    BY DEF CommandsFindHookDatabase
  <1>1. Worktree \in Dirs
    BY WorktreeType DEF Dirs
  <1>2. ASSUME envRoot # NoPlace
        PROVE  SameDatabase(cwd)
    BY <1>1, <1>2, TargetIs, DefaultIs DEF SameDatabase
  <1>3. ASSUME envRoot = NoPlace, NothingNearer(cwd), Cardinality(LayoutsAt(Worktree)) = 1
        PROVE  SameDatabase(cwd)
    <2>1. \/ At(Worktree, "tickets") \in dbs /\ LayoutsAt(Worktree) = {"tickets"}
          \/ At(Worktree, "dru") \in dbs /\ LayoutsAt(Worktree) = {"dru"}
      BY <1>1, <1>3, OneLayout
    <2>2. PICK x \in Ascent(cwd) :
            /\ LayoutsAt(x) # {}
            /\ AscendForExistingDb(cwd) =
                 At(x, IF "tickets" \in LayoutsAt(x) THEN "tickets" ELSE "dru")
            /\ \A y \in Ascent(cwd) : y < x => LayoutsAt(y) = {}
      BY <1>3, <2>1, AscendIs DEF NothingNearer
    <2>3. x \in Nat /\ x >= cwd /\ cwd \in Nat /\ Worktree \in Nat
      BY <1>1, DepthType DEF Ascent, Dirs
    <2>4. ~(Worktree < x)
      BY <1>3, <2>1, <2>2 DEF NothingNearer
    <2>5. ~(x < Worktree)
      <3> SUFFICES ASSUME x < Worktree PROVE FALSE
        OBVIOUS
      <3>1. x \in cwd .. Worktree - 1
        BY <2>3
      <3> QED
        BY <1>3, <2>2, <3>1 DEF NothingNearer, HasInitializedStorage
    <2>6. x = Worktree
      BY <2>3, <2>4, <2>5
    <2>7. At(Worktree, "dru") \in Place /\ At(Worktree, "tickets") \in Place
      BY <1>1 DEF At, Place
    <2>8. AscendForExistingDb(cwd) =
            IF LayoutsAt(Worktree) = {"tickets"} THEN At(Worktree, "tickets")
            ELSE At(Worktree, "dru")
      BY <2>1, <2>2, <2>6
    <2>9. PlaceOf(ResolvePaths(NoOptions(cwd))) = AscendForExistingDb(cwd)
      BY <1>3, <2>7, <2>8, DefaultIs, NoPlaceIsNoPlace
    <2>10. LayoutsAt(Worktree) = {"tickets"} => At(Worktree, "dru") \notin dbs
      BY DEF LayoutsAt, At
    <2>11. Target(Worktree) = IF At(Worktree, "dru") \in dbs THEN At(Worktree, "dru")
                              ELSE At(Worktree, "tickets")
      BY <1>1, <1>3, TargetIs
    <2> QED
      BY <2>1, <2>8, <2>9, <2>10, <2>11 DEF SameDatabase
  <1> QED
    BY <1>2, <1>3
-----------------------------------------------------------------------------
(* The running hook.                                                       *)

ProcessRecord ==
  [kind : Hooks, cwd : Dirs, step : {"stdin", "run", "wait", "anchor", "write"},
   now : Nat, until : Nat, probe : Nat, limit : Nat,
   child : {"none", "running", "answers", "fails", "killed"}, drained : BOOLEAN,
   root : BOOLEAN, errors : BOOLEAN,
   status : {"ok", "partial", "error", "not_a_repo"}, target : Place \union {NoPlace}]

\* Until the last answer the deadline has not passed, and the timer of the git
\* that runs ends with it.
InTime(h) ==
  /\ h.step \in {"run", "wait", "anchor"} => h.now <= h.until
  /\ h.step = "wait" => h.limit = h.until
\* What it believes of git, git has said.
Believes(h) ==
  /\ h.root \/ h.child = "answers" => h.cwd <= Worktree
  /\ h.step = "stdin" => ~h.root /\ h.child = "none"
  /\ h.step = "wait" => h.child # "none"
  /\ h.step \in {"stdin", "run", "wait"} => h.status = "ok"
  /\ h.status = "not_a_repo" => h.child = "fails"
\* Where a prompt is about to write, a database is or may be made.
Aims(h) ==
  h.step = "write" =>
    /\ h.target \in Place
    /\ h.kind = "prompt" => Anchored(h.target) \/ h.target \in dbs
Sound(h) == h \in ProcessRecord /\ InTime(h) /\ Believes(h) /\ Aims(h)

HookInv == PlacesInv /\ (hook = NoHook \/ Sound(hook))

LEMMA FinalizeSound ==
  ASSUME NEW h \in ProcessRecord, h.now <= h.until,
         h.root \/ h.child = "answers" => h.cwd <= Worktree,
         h.status = "not_a_repo" => h.child = "fails"
  PROVE  Sound(Finalize(h))
  BY DEF Finalize, ProcessRecord, Sound, InTime, Believes, Aims

LEMMA NextProbeSound ==
  ASSUME NEW h \in ProcessRecord, h.now <= h.until, h.status = "ok",
         h.root \/ h.child = "answers" => h.cwd <= Worktree
  PROVE  Sound(NextProbe(h))
  <1>1. CASE h.probe = Len(Probes) \/ Lapsed(h)
    BY <1>1, FinalizeSound DEF NextProbe
  <1>2. CASE ~(h.probe = Len(Probes) \/ Lapsed(h))
    <2> DEFINE n == IF Probes[h.probe + 1] = "git-dir" /\ ~h.root
                    THEN h.probe + 2 ELSE h.probe + 1
    <2>1. NextProbe(h) = [h EXCEPT !.step = "run", !.probe = n]
      BY <1>2 DEF NextProbe
    <2>2. n \in Nat
      BY DEF ProcessRecord
    <2> HIDE DEF n
    <2> QED
      BY <2>1, <2>2 DEF ProcessRecord, Sound, InTime, Believes, Aims
  <1> QED
    BY <1>1, <1>2

\* Only "fails" of a git that failed is taken for its word.
LEMMA AnsweredSound ==
  ASSUME NEW h \in ProcessRecord, InTime(h), Believes(h), h.step \in {"run", "wait"},
         NEW result \in {"ok", "fails", "timed_out", "spawn_failed"},
         NEW output \in BOOLEAN,
         result = "fails" => h.child = "fails",
         result = "ok" => h.child = "answers" /\ output
  PROVE  Sound(Answered(h, result, output))
  <1>1. /\ h.now <= h.until /\ h.status = "ok"
        /\ h.root \/ h.child = "answers" => h.cwd <= Worktree
    BY DEF InTime, Believes
  <1>2. CASE h.kind = "prompt"
    <2> DEFINE g == [h EXCEPT
                       !.root = result = "ok" /\ output,
                       !.status = CASE result = "ok" -> "ok"
                                    [] result = "fails" -> "not_a_repo"
                                    [] OTHER -> "error"]
    <2>1. /\ g \in ProcessRecord /\ g.now <= g.until
          /\ g.root \/ g.child = "answers" => g.cwd <= Worktree
          /\ g.status = "not_a_repo" => g.child = "fails"
      BY <1>1 DEF ProcessRecord
    <2>2. Answered(h, result, output) = Finalize(g)
      BY <1>2 DEF Answered, FastAnswer
    <2> HIDE DEF g
    <2> QED
      BY <2>1, <2>2, FinalizeSound
  <1>3. CASE h.kind # "prompt" /\ h.probe = 1
    <2>1. CASE result = "ok"
      <3> DEFINE g == [h EXCEPT !.errors = Lapsed(h)]
      <3>1. Lapsed(h) \in BOOLEAN
        BY DEF Lapsed
      <3>2. /\ g \in ProcessRecord /\ g.now <= g.until /\ g.status = "ok"
            /\ g.root \/ g.child = "answers" => g.cwd <= Worktree
        BY <1>1, <3>1 DEF ProcessRecord
      <3>3. Answered(h, result, output) = NextProbe(g)
        BY <1>3, <2>1 DEF Answered, FirstAnswer
      <3> HIDE DEF g
      <3> QED
        BY <3>2, <3>3, NextProbeSound
    <2>2. CASE result \in {"timed_out", "spawn_failed"}
      <3> DEFINE g == [h EXCEPT !.status = "error"]
      <3>1. /\ g \in ProcessRecord /\ g.now <= g.until
            /\ g.root \/ g.child = "answers" => g.cwd <= Worktree
            /\ g.status = "not_a_repo" => g.child = "fails"
        BY <1>1 DEF ProcessRecord
      <3>2. Answered(h, result, output) = Finalize(g)
        BY <1>3, <2>2 DEF Answered, FirstAnswer
      <3> HIDE DEF g
      <3> QED
        BY <3>1, <3>2, FinalizeSound
    <2>3. CASE result = "fails"
      <3> DEFINE g == [h EXCEPT !.status = "not_a_repo"]
      <3>1. /\ g \in ProcessRecord /\ g.now <= g.until
            /\ g.root \/ g.child = "answers" => g.cwd <= Worktree
            /\ g.status = "not_a_repo" => g.child = "fails"
        BY <1>1, <2>3 DEF ProcessRecord
      <3>2. Answered(h, result, output) = Finalize(g)
        BY <1>3, <2>3 DEF Answered, FirstAnswer
      <3> HIDE DEF g
      <3> QED
        BY <3>1, <3>2, FinalizeSound
    <2> QED
      BY <2>1, <2>2, <2>3
  <1>4. CASE h.kind # "prompt" /\ h.probe # 1
    <2> DEFINE g == [h EXCEPT
                       !.root = @ \/ (Probes[h.probe] = "show-toplevel" /\ result = "ok" /\ output),
                       !.errors = @ \/ result # "ok"]
    <2>1. /\ g \in ProcessRecord /\ g.now <= g.until /\ g.status = "ok"
          /\ g.root \/ g.child = "answers" => g.cwd <= Worktree
      BY <1>1 DEF ProcessRecord
    <2>2. Answered(h, result, output) = NextProbe(g)
      BY <1>4 DEF Answered, LaterAnswer
    <2> HIDE DEF g
    <2> QED
      BY <2>1, <2>2, NextProbeSound
  <1> QED
    BY <1>2, <1>3, <1>4
-----------------------------------------------------------------------------
(* Each step keeps the invariant.                                          *)

\* A database that appears takes nothing from what the hook knows.
LEMMA AppearingKeeps ==
  ASSUME HookInv, NEW place \in Place, InitProjection(place), UNCHANGED hook
  PROVE  HookInv'
  <1>1. PlacesInv'
    BY DEF HookInv, PlacesInv, InitProjection, WriteTo, PromptScattersNothing, Anchored
  <1>2. dbs \subseteq dbs' /\ envRoot' = envRoot
    BY DEF InitProjection, WriteTo
  <1>3. ASSUME Sound(hook)
        PROVE  Sound(hook)'
    BY <1>2, <1>3 DEF Sound, ProcessRecord, InTime, Believes, Aims, Anchored
  <1> QED
    BY <1>1, <1>3 DEF HookInv

\* A step of the hook alone.
LEMMA HookMoves ==
  ASSUME HookInv, UNCHANGED pathVars, hook' = NoHook \/ Sound(hook')
  PROVE  HookInv'
  <1>1. PlacesInv'
    BY DEF pathVars, HookInv, PlacesInv, PromptScattersNothing, Anchored
  <1>2. ASSUME Sound(hook')
        PROVE  Sound(hook)'
    BY <1>2 DEF pathVars, Sound, ProcessRecord, InTime, Believes, Aims, Anchored
  <1> QED
    BY <1>1, <1>2 DEF HookInv

LEMMA StartKeeps ==
  ASSUME HookInv, NEW kind \in Hooks, NEW cwd \in Dirs, StartHook(kind, cwd)
  PROVE  HookInv'
  <1>1. PlacesInv'
    BY DEF HookInv, PlacesInv, StartHook, PromptScattersNothing
  <1>2. hook' = [kind |-> kind, cwd |-> cwd, step |-> "stdin", now |-> 0, until |-> 0,
                 probe |-> 1, limit |-> 0, child |-> "none", drained |-> FALSE,
                 root |-> FALSE, errors |-> FALSE, status |-> "ok", target |-> NoPlace]
    BY DEF StartHook
  <1>3. Sound(hook)'
    BY <1>2 DEF Sound, ProcessRecord, InTime, Believes, Aims
  <1> QED
    BY <1>1, <1>3 DEF HookInv

\* The payload, or what is made of its absence.
LEMMA GateSound ==
  ASSUME Sound(hook), hook.step = "stdin", NEW cwd \in Dirs, PassGate(cwd)
  PROVE  hook' = NoHook \/ Sound(hook')
  <1>1. hook.kind \in Hooks /\ hook.now \in Nat
    BY DEF Sound, ProcessRecord
  <1>2. hook.now + Budget[hook.kind] \in Nat /\ hook.now <= hook.now + Budget[hook.kind]
    BY <1>1, TimesType
  <1> DEFINE end == hook.now + Budget[hook.kind]
  <1>3. CASE IsDruumenWorkspace(cwd)
    <2>1. hook' = [hook EXCEPT !.cwd = cwd, !.step = "run", !.until = end]
      BY <1>3 DEF PassGate
    <2>2. end \in Nat /\ hook.now <= end
      BY <1>2
    <2> HIDE DEF end
    <2> QED
      BY <2>1, <2>2 DEF Sound, ProcessRecord, InTime, Believes, Aims
  <1>4. CASE ~IsDruumenWorkspace(cwd)
    BY <1>4 DEF PassGate
  <1> QED
    BY <1>3, <1>4

LEMMA PayloadKeeps ==
  ASSUME HookInv, PayloadArrives \/ PayloadIsLate
  PROVE  HookInv'
  <1>1. hook.step = "stdin" /\ UNCHANGED pathVars
    BY DEF PayloadArrives, PayloadIsLate, IsAt
  <1>2. Sound(hook)
    BY <1>1 DEF HookInv, NoHook
  <1>3. hook.cwd \in Dirs
    BY <1>2 DEF Sound, ProcessRecord
  <1>4. hook' = NoHook \/ \E cwd \in Dirs : PassGate(cwd)
    BY <1>3 DEF PayloadArrives, PayloadIsLate
  <1> QED
    BY <1>1, <1>2, <1>4, GateSound, HookMoves

\* A git is started only with time left, and its timer is the deadline.
LEMMA RunGitKeeps ==
  ASSUME HookInv, RunGit
  PROVE  HookInv'
  <1>1. hook.step = "run" /\ UNCHANGED pathVars
    BY DEF RunGit, IsAt
  <1>2. Sound(hook)
    BY <1>1 DEF HookInv, NoHook
  <1>3. Sound(Answered(hook, "timed_out", FALSE)) /\ Sound(Answered(hook, "spawn_failed", FALSE))
    BY <1>1, <1>2, AnsweredSound DEF Sound
  <1>4. Sound([hook EXCEPT !.step = "wait", !.limit = hook.until,
                           !.child = "running", !.drained = FALSE])
    BY <1>1, <1>2 DEF Sound, ProcessRecord, InTime, Believes, Aims
  <1>5. Sound(hook')
    BY <1>3, <1>4 DEF RunGit
  <1> QED
    BY <1>1, <1>5, HookMoves

LEMMA ChildKeeps ==
  ASSUME HookInv, ChildEnds \/ ChildDrains
  PROVE  HookInv'
  <1>1. hook.step = "wait" /\ UNCHANGED pathVars
    BY DEF ChildEnds, ChildDrains, IsAt
  <1>2. Sound(hook)
    BY <1>1 DEF HookInv, NoHook
  <1>3. CASE ChildEnds
    <2>1. PICK how \in {"answers", "fails", "killed"} :
            /\ how = "answers" => hook.cwd <= Worktree
            /\ hook' = [hook EXCEPT !.child = how]
      BY <1>3 DEF ChildEnds
    <2> QED
      BY <1>1, <1>2, <2>1, HookMoves DEF Sound, ProcessRecord, InTime, Believes, Aims
  <1>4. CASE ChildDrains
    <2>1. hook' = [hook EXCEPT !.drained = TRUE]
      BY <1>4 DEF ChildDrains
    <2> QED
      BY <1>1, <1>2, <2>1, HookMoves DEF Sound, ProcessRecord, InTime, Believes, Aims
  <1> QED
    BY <1>3, <1>4

LEMMA SettleKeeps ==
  ASSUME HookInv, SettleOnClose \/ SettleOnTimer
  PROVE  HookInv'
  <1>1. hook.step = "wait" /\ UNCHANGED pathVars
    BY DEF SettleOnClose, SettleOnTimer, IsAt
  <1>2. Sound(hook)
    BY <1>1 DEF HookInv, NoHook
  <1>3. CASE SettleOnTimer
    <2>1. Sound(Answered(hook, "timed_out", FALSE))
      BY <1>1, <1>2, AnsweredSound DEF Sound
    <2> QED
      BY <1>1, <1>3, <2>1, HookMoves DEF SettleOnTimer
  <1>4. CASE SettleOnClose
    <2> DEFINE result == Result(hook.child)
               output == hook.child = "answers"
    <2>1. hook.child \in {"answers", "fails", "killed"}
      <3>1. hook.child \in {"none", "running", "answers", "fails", "killed"}
        BY <1>2 DEF Sound, ProcessRecord
      <3>2. hook.child # "running"
        BY <1>4 DEF SettleOnClose
      <3>3. hook.child # "none"
        BY <1>1, <1>2 DEF Sound, Believes
      <3> QED
        BY <3>1, <3>2, <3>3
    <2>2. /\ result \in {"ok", "fails", "timed_out", "spawn_failed"}
          /\ output \in BOOLEAN
          /\ result = "fails" => hook.child = "fails"
          /\ result = "ok" => hook.child = "answers" /\ output
      BY <2>1 DEF Result
    <2>3. hook' = Answered(hook, result, output)
      BY <1>4 DEF SettleOnClose
    <2> HIDE DEF result, output
    <2>4. Sound(Answered(hook, result, output))
      BY <1>1, <1>2, <2>2, AnsweredSound DEF Sound
    <2> QED
      BY <1>1, <2>3, <2>4, HookMoves
  <1> QED
    BY <1>3, <1>4

\* The anchor gate.
LEMMA ChooseTargetKeeps ==
  ASSUME HookInv, ChooseTarget
  PROVE  HookInv'
  <1>1. hook.step = "anchor" /\ UNCHANGED pathVars
    BY DEF ChooseTarget, IsAt
  <1>2. Sound(hook)
    BY <1>1 DEF HookInv, NoHook
  <1> DEFINE w == IF hook.root THEN Worktree ELSE hook.cwd
  <1>3. w \in Dirs
    BY <1>2, WorktreeType DEF Sound, ProcessRecord, Dirs
  <1>4. Target(w) \in Place
    BY <1>3, TargetIsPlace DEF HookInv
  <1>5. ASSUME GoesOn, hook.kind = "prompt"
        PROVE  Anchored(Target(w)) \/ Target(w) \in dbs
    <2>1. w = Worktree \/ envRoot # NoPlace \/ HasInitializedStorage(w)
      BY <1>5 DEF GoesOn
    <2> HIDE DEF w
    <2> QED
      BY <1>3, <2>1, GateAnchors DEF HookInv
  <1>6. CASE ~GoesOn
    BY <1>1, <1>6, HookMoves DEF ChooseTarget
  <1>7. CASE GoesOn
    <2>1. hook' = [hook EXCEPT !.step = "write", !.target = Target(w)]
      BY <1>7 DEF ChooseTarget
    <2> DEFINE t == Target(w)
    <2>2. t \in Place /\ (hook.kind = "prompt" => Anchored(t) \/ t \in dbs)
      BY <1>4, <1>5, <1>7
    <2>3. hook' = [hook EXCEPT !.step = "write", !.target = t]
      BY <2>1
    <2> HIDE DEF w, t
    <2>4. Sound(hook')
      BY <1>2, <2>2, <2>3 DEF Sound, ProcessRecord, InTime, Believes, Aims
    <2> QED
      BY <1>1, <2>4, HookMoves
  <1> QED
    BY <1>6, <1>7

LEMMA WriteKeeps ==
  ASSUME HookInv, Write
  PROVE  HookInv'
  <1>1. hook.step = "write" /\ HookWrites(hook.kind, hook.target) /\ hook' = NoHook
    BY DEF Write, IsAt
  <1>2. Sound(hook)
    BY <1>1 DEF HookInv, NoHook
  <1>3. /\ hook.kind \in Hooks /\ hook.target \in Place
        /\ hook.kind = "prompt" => Anchored(hook.target) \/ hook.target \in dbs
    BY <1>1, <1>2 DEF Sound, ProcessRecord, Aims
  <1>4. PlacesInv'
    BY <1>1, <1>3, HookWritesKeeps DEF HookInv
  <1> QED
    BY <1>1, <1>4 DEF HookInv

\* Time does not pass a timer that is due.
LEMMA TickKeeps ==
  ASSUME HookInv, Tick
  PROVE  HookInv'
  <1>1. /\ hook.step \in {"stdin", "wait", "write"} /\ UNCHANGED pathVars
        /\ hook' = [hook EXCEPT !.now = hook.now + 1]
        /\ hook.step = "wait" => hook.now # hook.limit
    BY DEF Tick, TimerDue, IsAt
  <1>2. Sound(hook)
    BY <1>1 DEF HookInv, NoHook
  <1>3. /\ hook.now \in Nat /\ hook.until \in Nat
        /\ hook.step = "wait" => hook.now + 1 <= hook.until
    BY <1>1, <1>2 DEF Sound, ProcessRecord, InTime
  <1>4. Sound(hook')
    BY <1>1, <1>2, <1>3 DEF Sound, ProcessRecord, InTime, Believes, Aims
  <1> QED
    BY <1>1, <1>4, HookMoves

LEMMA ProcessNextKeeps ==
  ASSUME HookInv, [ProcessNext]_hookVars
  PROVE  HookInv'
  <1>1. CASE hook = NoHook /\ PathsNext /\ UNCHANGED hook
    <2>1. PlacesInv'
      BY <1>1, NextKeepsPlaces DEF HookInv
    <2> QED
      BY <1>1, <2>1 DEF HookInv
  <1>2. ASSUME NEW kind \in Hooks, NEW cwd \in Dirs, StartHook(kind, cwd)
        PROVE  HookInv'
    BY <1>2, StartKeeps
  <1>3. ASSUME NEW place \in Appearing, InitProjection(place), UNCHANGED hook
        PROVE  HookInv'
    BY <1>3, PlacesType, AppearingKeeps
  <1>4. CASE HookStep
    <2>1. CASE ShimTimer
      BY <2>1, HookMoves DEF ShimTimer
    <2> QED
      BY <1>4, <2>1, PayloadKeeps, RunGitKeeps, ChildKeeps, SettleKeeps,
         ChooseTargetKeeps, WriteKeeps, TickKeeps DEF HookStep
  <1>5. CASE UNCHANGED hookVars
    <2>1. UNCHANGED pathVars /\ hook' = hook
      BY <1>5 DEF hookVars
    <2> QED
      BY <2>1, HookMoves DEF HookInv
  <1> QED
    BY <1>1, <1>2, <1>3, <1>4, <1>5 DEF ProcessNext

-----------------------------------------------------------------------------
\* What a running hook has found out and is about to do stays sound: it is in
\* time, it believes what git has said, and it aims at a database or at a place
\* where one may be made, whatever databases appear meanwhile.
THEOREM HookInvariant == ProcessSpec => []HookInv
  <1>1. ProcessInit => HookInv
    BY InitPlaces DEF ProcessInit, HookInv
  <1> QED
    BY <1>1, ProcessNextKeeps, PTL DEF ProcessSpec

\* A hook spends one budget on all its probes, whatever the budget and however
\* many of them are slow, hang or do not start.
THEOREM HookProbesShareBudget == ProcessSpec => []ProbesShareBudget
  <1>1. HookInv => ProbesShareBudget
    BY DEF HookInv, ProbesShareBudget, Sound, InTime, NoHook
  <1> QED
    BY <1>1, HookInvariant, PTL

\* A hook takes a directory for one outside of a repository only when git has
\* said so, and what it finds out is what StoragePaths takes it to find out.
THEOREM HookNotARepoIsTrue == ProcessSpec => []NotARepoIsTrue
  <1>1. HookInv => NotARepoIsTrue
    <2> SUFFICES ASSUME HookInv, hook.step = "anchor"
                 PROVE  /\ hook.status = "not_a_repo" => hook.child = "fails"
                        /\ (IF hook.root THEN "ok"
                            ELSE IF hook.status = "not_a_repo" THEN "not_a_repo"
                            ELSE "error") \in Probe(hook.cwd)
      BY DEF NotARepoIsTrue, IsAt
    <2>1. Sound(hook)
      BY DEF HookInv, NoHook
    <2> QED
      BY <2>1 DEF Sound, Believes, Probe
  <1> QED
    BY <1>1, HookInvariant, PTL

\* UserPrompt makes a database only at the root of the worktree or where the
\* environment says, though it decides some time before it writes, and others
\* make databases in between.
THEOREM HookPromptScattersNothing == ProcessSpec => []PromptScattersNothing
  <1>1. HookInv => PromptScattersNothing
    BY DEF HookInv, PlacesInv
  <1> QED
    BY <1>1, HookInvariant, PTL

\* A command run anywhere in the worktree, however deep and whatever the bound
\* of the ascent, finds the database that the hooks write, unless another is
\* nearer or the worktree holds one of each layout.
THEOREM CommandsFindIt == ProcessSpec => []CommandsFindHookDatabase
  <1>1. HookInv => CommandsFindHookDatabase
    BY PlacesAgree DEF HookInv
  <1> QED
    BY <1>1, HookInvariant, PTL
=============================================================================
