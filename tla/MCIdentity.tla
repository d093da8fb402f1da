----------------------------- MODULE MCIdentity -----------------------------
EXTENDS Identity

\* Two checkouts with the same branch, and a directory that is none.
MCPlaces ==
  {[cwd |-> "a", worktree |-> "A", branch |-> "main"],
   [cwd |-> "b", worktree |-> "B", branch |-> "main"],
   [cwd |-> "c", worktree |-> Null, branch |-> Null]}
MCFolder == [a |-> "ab", b |-> "ab", c |-> "c"]

Budget(begins, forks, copies, moves, turns, ticks, hooks, strays) ==
  [begin |-> begins, fork |-> forks, copy |-> copies, move |-> moves,
   turn |-> turns, tick |-> ticks, hook |-> hooks, handed |-> strays]
MCBudgets ==
  {Budget(3, 0, 0, 0, 0, 1, 4, 0),   \* strangers who say the same or not
   Budget(1, 1, 0, 0, 2, 0, 3, 0),   \* a fork
   Budget(1, 1, 1, 0, 1, 0, 2, 0),
   Budget(2, 0, 0, 1, 0, 1, 3, 0),   \* who moves about
   Budget(2, 1, 0, 0, 0, 0, 2, 1),   \* who is handed another's transcript
   Budget(2, 0, 0, 0, 1, 0, 2, 1)}
SameIds == Permutations(Csids) \union Permutations(Prompts)
=============================================================================
