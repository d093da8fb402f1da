----------------------------- MODULE MCDeferral -----------------------------
(* Instances of Deferral.  Ids and processes are interchangeable.           *)
EXTENDS Deferral, TLC

Symmetry == Permutations(Csids) \union Permutations(Procs)
=============================================================================
