---------------------------- MODULE MCProjection ----------------------------
(***************************************************************************)
(* Small instances of Projection: one session, two families of events, one *)
(* around its names, one around the rest of its record.                    *)
(***************************************************************************)
EXTENDS Search
CONSTANTS s1, A, B, c1, c2, k1, r1, t1, t2

Chain == <<"alias", "codex_thread_name", "cc_custom_title", "cc_ai_title",
           "first_prompt">>

Template(op, ts, p) == [op |-> op, sid |-> s1, ts |-> ts, p |-> p]
Seen(ts, csid, preview, branch, created) ==
  Template("session_seen", ts,
    [csid |-> csid, preview |-> preview, branch |-> branch, created_at |-> created])
Progress(ts, preview, branch) ==
  Template("session_progress", ts, [csid |-> c1, preview |-> preview, branch |-> branch])
NameSet(channel, value, source) ==
  Template("name_set", 1, [channel |-> channel, value |-> value, source |-> source])
Tombstone == Template("session_prune", 1, [reason |-> "noise"])

\* Two writers of one channel, a clear, a text that cleans to nothing, a name on
\* the channel first_prompt, one on a channel that nobody knows, and one channel
\* more than the cap admits.
NameTemplates ==
  {Seen(1, c1, Null, Null, Null), Progress(1, A, Null), Progress(1, Junk, Null), Tombstone,
   NameSet("alias", A, "harvest"), NameSet("cc_custom_title", B, "human"),
   NameSet("first_prompt", B, "harvest"), NameSet("nickname", A, "harvest"),
   Template("codex_session_seen", 1, [codexId |-> k1, preview |-> Null, created_at |-> Null]),
   NameSet("codex_thread_name", B, "harvest"), NameSet("codex_thread_name", Null, "harvest")}
  \union {Template("alias_set", IF v = A THEN 2 ELSE 1, [value |-> v]) : v \in {A, Null, Junk}}
  \union {Template("ai_title_seen", 1, [value |-> v]) : v \in {B, Junk}}

PrLinkSeen(ts, repository, observed, url) ==
  Template("pr_link_seen", ts,
    [repository |-> repository, number |-> 7, observed_at |-> observed, url |-> url])

\* Clocks that run backwards, a start time replayed late, and every op.
RecordTemplates ==
  {Seen(2, c1, Null, A, Null), Seen(1, c2, Null, Null, Null), Seen(3, c1, A, B, 2),
   Seen(3, c1, A, B, 1), Progress(1, B, B), Progress(3, A, Null),
   Template("session_link", 2, [tasks |-> {t1, t2}, remove |-> FALSE]),
   Template("session_link", 2, [tasks |-> {t1}, remove |-> TRUE]),
   Template("session_unlink", 2, [tasks |-> {t1}]),
   Template("sweep", 4, [activity |-> "idle", effective |-> 2]),
   Template("sweep", 4, [activity |-> "archived", effective |-> 3]),
   Template("parent_set", 2, [parent |-> B]),
   Template("close", 3, [outcome |-> "done"]),
   Template("codex_session_seen", 3, [codexId |-> k1, preview |-> B, created_at |-> 1]),
   NameSet("cc_custom_title", B, "human"),
   PrLinkSeen(4, r1, 2, Null), PrLinkSeen(4, r1, 1, A), PrLinkSeen(4, Null, 1, A), Tombstone}

SortedChannels == <<"alias", "codex_thread_name", "cc_custom_title", "cc_ai_title",
                    "agent_name", "first_prompt", "nickname">>
OneSession == {s1}
NamesOrRecord == {NameTemplates, RecordTemplates}
=============================================================================
