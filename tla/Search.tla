------------------------------- MODULE Search -------------------------------
(***************************************************************************)
(* Two readers of names: `sessions-db search` (cli/search.mjs with         *)
(* lib/search.mjs; the scan of transcripts is in module SearchCache) and   *)
(* `sessions-db names` (cli/names.mjs).  The first reads the projection    *)
(* and, asked for former names, the log; the second reads the log only.    *)
(*                                                                         *)
(* That a text contains the query is abstracted to their being equal: a    *)
(* query is a name, an id or the number of a merge request.                *)
(***************************************************************************)
EXTENDS Projection

CONSTANT ChannelOrder  \* every channel in the order of sortChannels

\* The channels of a set, in that order.
SortChannels(channels) == SelectSeq(ChannelOrder, LAMBDA c : c \in channels)

-----------------------------------------------------------------------------
\* The metadata of a session: lib/search.mjs.

\* A bug to compare with: a name that two channels hold is dropped.
NamesOfOneChannel(s) ==
  SortChannels({c \in ToSet(ChannelOrder) :
    /\ NameValue(s, c) # Null
    /\ \A d \in ToSet(ChannelOrder) \ {c} : NameValue(s, d) # NameValue(s, c)})
\* distinctCurrentNames: the channels that have a value, each value once, under
\* the first channel that holds it.
DistinctCurrentNames(s) ==
  LET named == SortChannels({c \in ToSet(ChannelOrder) : NameValue(s, c) # Null})
      First(i) == \A j \in 1 .. i - 1 : NameValue(s, named[j]) # NameValue(s, named[i])
  IN  SelectSeq(named, LAMBDA c : \E i \in DOMAIN named : named[i] = c /\ First(i))

\* sessionMetadataFields.  branch stands for the worktrees and cwd too, tasks
\* for projects.  The channels alias and first_prompt appear as the fields the
\* record had before there were channels.
SessionMetadataFields(sid, s) ==
  {f \in {<<"stable_id", sid>>, <<"alias", Cleaned(s.alias)>>,
          <<"first_prompt", Cleaned(s.preview)>>, <<"branch", s.branch>>} : f[2] # Null}
  \union ({"task"} \X s.tasks)
  \union ({"claude_session_id"} \X s.csids)
  \union ({"codex_session_id"} \X s.codexIds)
  \union {<<c, NameValue(s, c)>> :
            c \in ToSet(DistinctCurrentNames(s)) \ {"alias", "first_prompt"}}

\* sessionMatchesPrQuery
SessionMatchesPrQuery(s, query) ==
  \E key \in DOMAIN s.prs : query \in {key.number, key.repository, s.prs[key].url}

\* matchSessionMetadata: the labels of the fields that match.
MatchSessionMetadata(sid, s, query) ==
  {f[1] : f \in {f \in SessionMetadataFields(sid, s) : f[2] = query}}
  \union {label \in {"pr"} : SessionMatchesPrQuery(s, query)}

\* matchCurrentNames and matchNameHistory
Hit(channel, value, kind) == [channel |-> channel, value |-> value, kind |-> kind]
MatchCurrentNames(s, query) ==
  {Hit(c, query, "current") : c \in {c \in ToSet(DistinctCurrentNames(s)) :
                                       c # "first_prompt" /\ NameValue(s, c) = query}}
MatchNameHistory(byChannel, query) ==
  {Hit(c, query, "history") : c \in {c \in DOMAIN byChannel :
     \E i \in 1 .. Len(byChannel[c]) - 1 : byChannel[c][i].value = query}}

-----------------------------------------------------------------------------
\* cli/search: run.  A filter that was not given is Null.

\* The tier of former names does not look at the source.
ByMetadata(query, state, source) ==
  {sid \in DOMAIN proj.sessions :
     LET s == proj.sessions[sid] IN
     /\ state \in {Null, s.activity} /\ source \in {Null, s.source}
     /\ MatchSessionMetadata(sid, s, query) # {}}
ByHistory(query, state) ==
  {sid \in DOMAIN proj.sessions :
     /\ state \in {Null, proj.sessions[sid].activity}
     /\ MatchNameHistory(FoldNameHistory(sid), query) # {}}

\* The rows found, each with the names that matched.
SearchRows(query, wantHistory, state, source) ==
  LET metadata == ByMetadata(query, state, source)
      history == IF wantHistory THEN ByHistory(query, state) ELSE {}
  IN  [sid \in metadata \union history |->
         (IF sid \in metadata THEN MatchCurrentNames(proj.sessions[sid], query) ELSE {})
         \union
         (IF sid \in history THEN MatchNameHistory(FoldNameHistory(sid), query) ELSE {})]

\* hiddenNameLines: the names that the row has not printed so far.
Label(s) == RefreshDerivedNames(s).display
HiddenNameLines(s, hits) ==
  LET shown == {h.value : h \in hits} \union {Label(s).name}
  IN  {c \in ToSet(DistinctCurrentNames(s)) \ {"first_prompt"} : NameValue(s, c) \notin shown}

-----------------------------------------------------------------------------
\* cli/names: buildNamesView.

Mark(last) == IF last THEN "current" ELSE "history"
\* A bug to compare with: the namings of a channel go in as the log has them.
TimelineOldestFirst(channel, entries) ==
  [i \in DOMAIN entries |->
     [channel |-> channel, naming |-> i, set_at |-> entries[i].set_at,
      kind |-> Mark(i = Len(entries))]]
\* The namings of a channel, the last one first.
Timeline(channel, entries) ==
  Reverse([i \in DOMAIN entries |->
     [channel |-> channel, naming |-> i, set_at |-> entries[i].set_at,
      kind |-> Mark(i = Len(entries))]])

\* history.sort(compareBySetAtDesc), a stable sort.
SortBySetAt(rows) ==
  LET order == SetToSortSeq(DOMAIN rows, LAMBDA i, j :
                 \/ rows[i].set_at > rows[j].set_at
                 \/ rows[i].set_at = rows[j].set_at /\ i < j)
  IN  [i \in DOMAIN rows |-> rows[order[i]]]

\* Only the events of the session are folded.  Channels set for the first time
\* in another order than ChannelOrder's may swap rows of the same instant.
BuildNamesView(sid) ==
  LET own == SelectSeq(log, LAMBDA e : e.sid = sid)
      folded1 == RebuildFromEvents(own).sessions
      byChannel == FoldNameHistory(sid)
      Rows(rows, c) == rows \o Timeline(c, byChannel[c])
      channels == SortChannels(DOMAIN byChannel)
  IN  IF sid \notin DOMAIN folded1 THEN Null
      ELSE [display |-> folded1[sid].display,
            channels |-> [c \in DOMAIN byChannel |->
              [value |-> Last(byChannel[c]).value, set_count |-> Len(byChannel[c])]],
            history |-> SortBySetAt(FoldLeft(Rows, <<>>, channels))]

-----------------------------------------------------------------------------
\* Whether the current name of the channel can be searched for.  A name goes by
\* the first channel that holds it, and two channels are passed over:
\* first_prompt, which setName accepts like any other, and behind which every
\* channel comes that this version does not know; and an alias whose text has
\* come to clean to nothing, while its entry keeps the good one.
IsSearchable(s, channel) ==
  /\ channel # "first_prompt"
  /\ \A c \in ToSet(DistinctCurrentNames(s)) :
       NameValue(s, c) = NameValue(s, channel) =>
         /\ c # "first_prompt"
         /\ c = "alias" => NameValue(s, c) = Cleaned(s.alias)

\* A search for a former name that the log gives a session finds it, when asked
\* for those, and a search for a current one without being asked; the row says
\* which of the two it is, and prints each current name exactly once, whatever
\* matched.  Of the current names, only those of channels that IsSearchable and
\* that the cap admitted are promised.
SearchFindsNames ==
  InOrder =>
    \A sid \in DOMAIN proj.sessions :
      LET s == proj.sessions[sid]
          history == FoldNameHistory(sid)
          Now(channels) == {Last(history[c]).value : c \in channels} \ {Null}
          former == UNION {{history[c][i].value : i \in 1 .. Len(history[c]) - 1} :
                             c \in DOMAIN history} \ {Null}
          current == Now({c \in DOMAIN s.names : IsSearchable(s, c)})
          passedOver == Now(DOMAIN history) \ current
      IN  \A v \in former \union current :
            LET rows == SearchRows(v, TRUE, s.activity, Null)
                hits == rows[sid]
                printed == HiddenNameLines(s, hits)
                Printed(n) == {c \in printed : NameValue(s, c) = n}
            IN  /\ sid \in DOMAIN rows
                /\ v \notin passedOver =>
                     (v \in current <=> sid \in DOMAIN SearchRows(v, FALSE, Null, s.source)
                                          /\ \E h \in hits : h.kind = "current")
                /\ \A n \in current :
                     IF n \in {v, Label(s).name} THEN Printed(n) = {}
                     ELSE Cardinality(Printed(n)) = 1

\* `names` answers for a session exactly as long as `find` does; it shows the
\* name and the counts of the projection; and in its list, newest first, of two
\* namings of a channel at the same instant the later one comes first, so that
\* the current name of a channel is above all its former ones of that instant.
NamesViewAgrees ==
  InOrder =>
    \A sid \in Sids :
      LET view == BuildNamesView(sid)
          Cell(n) == [value |-> n.value, set_count |-> n.set_count]
      IN  IF sid \notin DOMAIN proj.sessions THEN view = Null
          ELSE LET s == proj.sessions[sid] IN
               /\ view.display = s.display
               /\ \A c \in DOMAIN s.names : view.channels[c] = Cell(s.names[c])
               /\ \A i, j \in DOMAIN view.history :
                    LET a == view.history[i]  b == view.history[j] IN
                    i < j /\ a.channel = b.channel /\ a.set_at = b.set_at
                      => a.naming > b.naming /\ b.kind = "history"
=============================================================================
