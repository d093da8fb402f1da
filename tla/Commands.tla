------------------------------ MODULE Commands ------------------------------
(***************************************************************************)
(* The commands of cli/ that write, one action each: what the arguments    *)
(* may be, which are refused before the library is asked, and what is only *)
(* previewed.  Together with the hooks and the agents of Operations they   *)
(* make the next-state relation.                                           *)
(***************************************************************************)
EXTENDS Operations

\* A value that was not given is Null; "unknown" is no outcome.
AliasCommand(p) ==
  \E sid \in Sids, value \in Texts \union {Null, Junk}, clear, dry \in BOOLEAN :
    IF clear <=> value # Null THEN Usage(p)
    ELSE IF ~clear /\ ~IsGoodName(value) THEN Refuse(p)
    ELSE IF dry THEN Preview(p)
    ELSE SetAlias(p, sid, value)

\* No command sets another name; a library call does.
SetNameCall(p) ==
  \E sid \in Sids, channel \in {"cc_custom_title", "alias"},
     value \in Texts \union {Null, Junk} : SetName(p, sid, channel, value)

LinkCommand(p) ==
  \E tasks \in SUBSET {"t1"}, remove, dry \in BOOLEAN :
    IF tasks = {} THEN Usage(p)
    ELSE IF dry THEN Preview(p)
    ELSE \E sid \in Sids :
      IF remove THEN UnlinkTask(p, sid, tasks) ELSE LinkTask(p, sid, tasks)

LinkParentCommand(p) ==
  \E child \in Sids, parent \in Sids \union {Null}, remove, dry \in BOOLEAN :
    IF remove <=> parent # Null THEN Usage(p)
    ELSE IF parent = child THEN Refuse(p)
    ELSE IF dry THEN Preview(p)
    ELSE SetParent(p, child, parent)

CloseCommand(p) ==
  \E sid \in Sids, outcome \in {Null, "unknown", "open", "done"}, dry \in BOOLEAN :
    IF outcome \in {Null, "unknown"} THEN Usage(p)
    ELSE IF dry THEN Preview(p)
    ELSE CloseSession(p, sid, outcome)

SweepCommand(p) ==
  \E idle, archive \in {Null, 2}, dry \in BOOLEAN :
    IF BadThresholds(idle, archive) THEN Usage(p) ELSE RunSweep(p, idle, archive, dry)

\* The commands that scan are dry unless they are told --yes.
HarvestCommand(p) ==
  \E dry, yes \in BOOLEAN,
     todo \in SUBSET {sid \in DOMAIN sessions : HasTranscript(sid)} :
    IF dry /\ yes THEN Usage(p) ELSE RunHarvest(p, todo, ~yes)

PruneCommand(p) ==
  \E dry, yes, accept \in BOOLEAN :
    IF dry /\ yes THEN Usage(p) ELSE RunPrune(p, accept, ~yes)

IngestCodexCommand(p) ==
  \E dry, yes \in BOOLEAN :
    IF dry /\ yes THEN Usage(p) ELSE RunIngestCodex(p, ~yes)

SyncCodexNamesCommand ==
  \E yes \in BOOLEAN : IF yes THEN SyncCodexNames ELSE UNCHANGED vars

Begin(p) ==
  \/ "alias" \in workload /\ AliasCommand(p)
  \/ "name" \in workload /\ SetNameCall(p)
  \/ "link" \in workload /\ LinkCommand(p)
  \/ "close" \in workload /\ CloseCommand(p)
  \/ "parent" \in workload /\ LinkParentCommand(p)
  \/ "sweep" \in workload /\ SweepCommand(p)
  \/ "harvest" \in workload /\ HarvestCommand(p)
  \/ "prune" \in workload /\ PruneCommand(p)
  \/ "codex" \in workload /\ (IngestCodexCommand(p) \/ RunCodexHook(p))

Next ==
  \/ \E p \in Procs : Begin(p) \/ Continue(p)
  \/ Rebuild
  \/ SyncCodexNamesCommand \/ NameThread \/ Tick \/ Speak \/ WriteTranscript

Spec == Init /\ [][Next]_vars
=============================================================================
