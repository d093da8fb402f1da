---------------------------- MODULE MCOperations ----------------------------
(***************************************************************************)
(* A small instance of Operations and Views: one workload for each kind of *)
(* race, each with the sessions it starts from.                            *)
(***************************************************************************)
EXTENDS Views
CONSTANTS s1, s2, s3, s4, A, M, k1, k2, p1, p2

Family == {"parent"}
Ageing == {"sweep", "speak"}
Naming == {"alias", "name", "close"}
Harvesting == {"harvest"}
Pruning == {"prune", "link"}
Threading == {"codex"}
AllWorkloads == {Family, Ageing, Naming, Harvesting, Pruning, Threading}

\* Fresh sessions; sessions in a line, each the parent of the next; one with a
\* title from before there were entries, and some that setName has named;
\* sessions that an earlier sweep has moved.
Fresh(sids) == [sid \in sids |-> EmptySession(1)]
Line == [Fresh({s1, s2, s3, s4}) EXCEPT ![s2].parent = s1, ![s3].parent = s2]
Titled(v) == [sid \in {s1} |-> RefreshDerivedNames([EmptySession(1) EXCEPT !.ai_title = v])]
Named(channel, value) ==
  [sid \in {s1} |-> RefreshDerivedNames(ReduceNameSet(EmptySession(1),
     [op |-> "name_set", sid |-> sid, ts |-> 1,
      p |-> [channel |-> channel, value |-> value, source |-> "harvest"]]))]
Swept == [Fresh({s1, s2}) EXCEPT ![s1].activity = "idle", ![s2].activity = "archived"]
Starts ==
  [w \in AllWorkloads |->
     CASE w = Family -> {Fresh({s1, s2, s3, s4}), Line}
       [] w = Ageing -> {Fresh({s1, s2}), Swept}
       [] w = Naming -> {Fresh({s1}), Named("alias", A), Named("cc_custom_title", A)}
       [] w = Harvesting -> {Titled(A), Named("alias", A)}
                               \union {Named("cc_custom_title", v) : v \in {A, Null}}
       [] w = Pruning -> {Fresh({s1, s2})}
       [] w = Threading -> {Fresh({s4})}]

Calls == [w \in AllWorkloads |-> IF w = Ageing THEN 1 ELSE 2]
Records == [w \in AllWorkloads |-> CASE w = Pruning -> 1 [] w = Threading -> 2 [] OTHER -> 3]
Alike == Permutations(Procs) \union Permutations(Threads)

Chain == <<"alias", "codex_thread_name", "cc_custom_title", "cc_ai_title",
           "first_prompt">>
=============================================================================
