--------------------------- MODULE MCSearchCache ---------------------------
(***************************************************************************)
(* Small instances of SearchCache: one transcript that is rewritten while  *)
(* it is searched, and several that compete for a cache of one entry.      *)
(***************************************************************************)
EXTENDS SearchCache
CONSTANTS p1, p2, f, g, s1, s2, a1, b, noise, QA, QB

Texts == QA :> {a1} @@ QB :> {b}
Sources == s1 :> <<f>> @@ s2 :> <<>>
Owners == f :> s1 @@ g :> s2

Scene(procs, start, about, asks, written, edits, calls, faults) ==
  [procs |-> procs, start |-> start, about |-> about, asks |-> asks,
   written |-> written, edits |-> edits, calls |-> calls, faults |-> faults]
OneFile == f :> <<noise, a1>> @@ g :> <<>>
AllScenes ==
  {Scene({p1}, OneFile, {s1}, {QA, QB}, {f}, 2, 2, 0),
   Scene(Procs, OneFile, {s1}, {QA, QB}, {f}, 1, 2, 0),
   Scene(Procs, [x \in Files |-> <<b>>], {s1, s2}, {QA}, {}, 0, 4, 2)}
=============================================================================
