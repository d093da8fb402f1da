------------------------------- MODULE Listing -------------------------------
(***************************************************************************)
(* cli/find and the rows of cli/format: which sessions are listed, and     *)
(* under which label.  Paint, widths and truncation are left out.  The     *)
(* state is that of Commands; nothing is written here.                     *)
(***************************************************************************)
EXTENDS Commands

\* "alias" comes first in NAME_PRECEDENCE, and the lack of a name is no channel.
ASSUME PrecedenceType ==
  /\ Precedence \in Seq(ToSet(Precedence)) /\ Precedence # <<>>
  /\ Precedence[1] = "alias" /\ Null \notin ToSet(Precedence)

-----------------------------------------------------------------------------
\* cli/find.  A filter that was not given is Null.
ASSUME NoFilterType == Null \notin {"active", "idle"}

\* matches: all the filters that were given.
Matches(s, filters) ==
  /\ filters.task \in {Null} \union s.tasks
  /\ filters.branch \in {Null, s.branch}
  /\ filters.alias \in {Null, s.alias}
  /\ filters.state \in {Null, s.activity}
  /\ filters.outcome \in {Null, s.outcome}

\* searchSessions: the latest progress first, a stable sort, and the first
\* `limit` of them; which they are, not the order.
SearchSessions(filters, limit) ==
  LET found == SetToSeq({sid \in DOMAIN sessions : Matches(sessions[sid], filters)})
      At(i) == sessions[found[i]].last_progress_at
      Ahead(i) == {j \in DOMAIN found : At(j) > At(i) \/ (At(j) = At(i) /\ j < i)}
  IN  {found[i] : i \in {i \in DOMAIN found : Cardinality(Ahead(i)) < limit}}

Everything == [task |-> Null, branch |-> Null, alias |-> Null, state |-> Null,
               outcome |-> Null]
Find(state) == SearchSessions([Everything EXCEPT !.state = state], 50)

\* relTime, in days.
RelTime(s) == IF s.last_progress_at > day THEN Null ELSE day - s.last_progress_at

\* pickLabel, through displayNameForSession: resolved when shown, not stored.
PickLabel(s) == RefreshDerivedNames(s).display

\* formatSessionTable, a row.
TableRow(sid) ==
  LET s == sessions[sid]
  IN  [sid |-> sid, label |-> PickLabel(s), state |-> s.activity,
       outcome |-> s.outcome, last |-> RelTime(s), branch |-> s.branch]

-----------------------------------------------------------------------------
\* After a sweep that reported success, and until anybody writes or the day
\* ends, `find --state` tells the sessions apart by their age: the active ones
\* progressed within the idle threshold, the idle ones before it but within the
\* other one, and none past it is left in either.  A transcript still being
\* written counts as progress.
SweepThenFind ==
  \A p \in Procs :
    call[p].kind = "sweep" /\ call[p].step = "done" /\ call[p].exit = 0
      /\ call[p].opts # Null /\ alone[p] =>
      LET opts == call[p].opts
          Age(sid) == day - Min({day, Max({sessions[sid].last_progress_at, indexed[sid]})})
      IN  /\ \A sid \in Find("active") : Age(sid) < opts.idle /\ Age(sid) < opts.archive
          /\ \A sid \in Find("idle") : opts.idle <= Age(sid) /\ Age(sid) < opts.archive

\* The alias is kept twice, as a field, which `tree` shows, and as an entry,
\* which the table of `find` prefers to every other name.  They agree whichever
\* of setAlias and setName wrote last and however full the entries are.
AliasAgrees ==
  \A sid \in DOMAIN sessions :
    LET s == sessions[sid]
        label == TableRow(sid).label
    IN  IF s.alias = Null THEN label.channel # "alias"
        ELSE label = [channel |-> "alias", name |-> s.alias]
=============================================================================
