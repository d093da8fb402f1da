-------------------------------- MODULE Views --------------------------------
(***************************************************************************)
(* The family tree of a session, as cli/tree prints it and as it writes    *)
(* JSON.  Paint, widths and truncation are left out.                       *)
(***************************************************************************)
EXTENDS Listing

CONSTANT MaxTreeDepth   \* MAX_TREE_DEPTH of format.mjs, MAX_DEPTH of tree.mjs

-----------------------------------------------------------------------------
\* cli/tree.

Children(sid) ==
  SetToSortSeq({kid \in DOMAIN sessions \ {sid} : sessions[kid].parent = sid},
               LAMBDA a, b : sessions[a].created_at < sessions[b].created_at)

\* Both walks go through the children in order and carry the set of those
\* visited with them.  A row is a session, its depth and a mark.
Row(sid, depth, mark) == [sid |-> sid, depth |-> depth, mark |-> mark]
RECURSIVE Emit(_, _, _)
\* A bug to compare with: nobody remembers whom the walk has visited.
EmitUnmarked(sid, depth, acc) ==
  LET shown(mark) == [acc EXCEPT !.rows = Append(@, Row(sid, depth, mark))] IN
  IF depth >= MaxTreeDepth THEN shown("max depth")
  ELSE FoldLeft(LAMBDA a, kid : Emit(kid, depth + 1, a), shown("none"), Children(sid))

\* formatTree: the row of a session at the depth limit is always marked.
Emit(sid, depth, acc) ==
  LET shown(mark) == [acc EXCEPT !.rows = Append(@, Row(sid, depth, mark))] IN
  IF depth >= MaxTreeDepth THEN shown("max depth")
  ELSE IF sid \in acc.visited THEN shown("circular")
  ELSE FoldLeft(LAMBDA a, kid : Emit(kid, depth + 1, a),
                [shown("none") EXCEPT !.visited = @ \union {sid}], Children(sid))
FormatTree(root) == Emit(root, 0, [rows |-> <<>>, visited |-> {}]).rows

\* buildTreeJSON: only what lies below the limit is cut.
RECURSIVE Build(_, _, _)
Build(sid, depth, acc) ==
  LET shown(mark) == [acc EXCEPT !.rows = Append(@, Row(sid, depth, mark))] IN
  IF depth > MaxTreeDepth THEN shown("max depth")
  ELSE IF sid \in acc.visited THEN shown("circular")
  ELSE FoldLeft(LAMBDA a, kid : Build(kid, depth + 1, a),
                [shown("none") EXCEPT !.visited = @ \union {sid}], Children(sid))
BuildTreeJSON(root) == Build(root, 0, [rows |-> <<>>, visited |-> {}]).rows

-----------------------------------------------------------------------------
\* Whatever parents the sessions have got, cycles included, the tree of a
\* session shows it and each of its descendants within the depth limit exactly
\* once as itself, at its distance; only a session on a cycle may come back,
\* and then it is marked; and the two renderings agree above the limit.
TreeIsWhole ==
  \A root \in DOMAIN sessions :
    LET text == FormatTree(root)
        json == BuildTreeJSON(root)
        Dist(sid) == LET up == Ancestor(sid) IN
          Min({d \in 0 .. Cardinality(Sids) + 1 : d <= Cardinality(Sids) => up[d] = root})
        below == {sid \in DOMAIN sessions : Dist(sid) <= Min({MaxTreeDepth, Cardinality(Sids)})}
        shown == SelectSeq(text, LAMBDA r : r.mark # "circular")
        Above(rows) == SelectSeq(rows, LAMBDA r : r.depth < MaxTreeDepth)
        onCycle == \E d \in 1 .. Cardinality(Sids) : Ancestor(root)[d] = root
    IN  /\ \A sid \in below : \E i \in DOMAIN shown :
             shown[i].sid = sid /\ shown[i].depth = Dist(sid)
        /\ \A i \in DOMAIN shown : shown[i].sid \in below
        /\ \A i, j \in DOMAIN shown : shown[i].sid = shown[j].sid /\ i # j
             => onCycle /\ shown[i].sid = root
        /\ \A i \in DOMAIN text : text[i].mark = "circular" => onCycle /\ text[i].sid = root
        /\ Above(text) = Above(json)

\* Whatever concurrent calls made of the sessions, tree and find agree: the tree
\* is whole in both renderings, and the alias it prints, which is the old field,
\* is the label that the table prints, which comes from the entries of names.
ViewsAgree == TreeIsWhole /\ AliasAgrees
=============================================================================
