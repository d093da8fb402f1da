--------------------------- MODULE SessionRegistry ---------------------------
(***************************************************************************)
(* What the store promises about identity, with no processes, files or     *)
(* locks: once an agent session id (a claude_session_id) has been observed *)
(* under a stable_id, every later observation of it carries that same      *)
(* stable_id.  Store.tla is shown to implement this.                       *)
(***************************************************************************)
CONSTANTS AgentIds, StableIds

VARIABLE bound   \* set of <<agent session id, stable id>> pairs observed

Init == bound = {}

\* An agent session is observed: for the first time, or again under the stable
\* id it has.
Observe(pair) ==
  /\ pair \in AgentIds \X StableIds
  /\ \A b \in bound : b[1] = pair[1] => b = pair
  /\ bound' = bound \union {pair}

\* The pair observed is one of those known afterwards; saying so keeps the
\* quantifier finite where StableIds is not.
Next == \E pair \in bound' : Observe(pair)

Spec == Init /\ [][Next]_bound
=============================================================================
