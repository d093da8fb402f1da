------------------------------ MODULE MCFiles ------------------------------
(***************************************************************************)
(* Scenes for Watch, and with it Files: caches of older versions beside    *)
(* logs that have lost their oldest part; damage and deletion; a watch     *)
(* while the file is created, replaced, written in place and deleted.      *)
(***************************************************************************)
EXTENDS Watch
CONSTANTS s1, s2, A, B, c1

Chain == <<"alias", "codex_thread_name", "cc_custom_title", "cc_ai_title",
           "first_prompt">>

Template(op, sid, p) == [op |-> op, sid |-> sid, ts |-> 1, p |-> p]
Alias(sid, v) == Template("alias_set", sid, [value |-> v])
AiTitle(sid, v) == Template("ai_title_seen", sid, [value |-> v])
Title(sid, v) ==
  Template("name_set", sid, [channel |-> "cc_custom_title", value |-> v, source |-> "harvest"])
Progress(sid) ==
  Template("session_progress", sid, [csid |-> c1, preview |-> Null, branch |-> Null])

Numbered(templates) ==
  [i \in DOMAIN templates |->
     [id |-> i, op |-> templates[i].op, sid |-> templates[i].sid,
      ts |-> templates[i].ts, p |-> templates[i].p]]

\* What older versions left: no entries, only the two fields; or entries that
\* count one naming each.
WithNames(p, N(_)) ==
  Body([p EXCEPT !.sessions = [sid \in DOMAIN @ |-> [@[sid] EXCEPT !.names = N(@)]]], FALSE)
NoEntries(names) == EmptyFunction
CountedOnce(names) == [c \in DOMAIN names |-> [names[c] EXCEPT !.set_count = 1]]

TwoFieldsOnly == Numbered(<<AiTitle(s2, A), Alias(s1, A), AiTitle(s1, A), Alias(s1, B)>>)
WithTitles == Numbered(<<Title(s1, A), Alias(s2, A), Alias(s1, A), Alias(s1, B)>>)

NamesScene(events, first, caches) ==
  [told |-> events, log |-> SubSeq(events, first, Len(events)), cache |-> caches,
   templates |-> {Alias(s1, A), Alias(s1, Null), AiTitle(s1, B), Title(s1, B)},
   watched |-> FALSE,
   bounds |-> [writes |-> 3, tears |-> 0, rotations |-> 1, losses |-> 0, inits |-> 0,
               rebuilds |-> 1]]
NamesScenes ==
  {NamesScene(TwoFieldsOnly, first,
     {WithNames(RebuildFromEvents(TwoFieldsOnly), NoEntries)}) : first \in {1, 3, 4}}
  \union
  {NamesScene(WithTitles, first,
     {WithNames(RebuildFromEvents(WithTitles), CountedOnce),
      Body(RebuildFromEvents(WithTitles), TRUE)}) : first \in {1, 3, 4}}

DamageScene ==
  [told |-> Numbered(<<Progress(s1), Alias(s1, A)>>),
   log |-> Numbered(<<Progress(s1), Alias(s1, A)>>),
   cache |-> {Null, Body(RebuildFromEvents(Numbered(<<Progress(s1), Alias(s1, A)>>)), TRUE)},
   templates |-> {Alias(s1, B), Title(s1, A)}, watched |-> FALSE,
   bounds |-> [writes |-> 2, tears |-> 3, rotations |-> 1, losses |-> 1, inits |-> 1,
               rebuilds |-> 1]]
WatchScene ==
  [DamageScene EXCEPT !.templates = {Progress(s1)}, !.watched = TRUE,
     !.bounds = [writes |-> 2, tears |-> 0, rotations |-> 0, losses |-> 1, inits |-> 1,
                 rebuilds |-> 0]]

AllScenes == NamesScenes \union {DamageScene, WatchScene}
OnlyDamage == {DamageScene}
=============================================================================
