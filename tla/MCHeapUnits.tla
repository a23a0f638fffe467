---------------------------- MODULE MCHeapUnits ----------------------------
(***************************************************************************)
(* HeapUnits on a small instance.  Threads are interchangeable, and so are *)
(* addresses; used where only an invariant is checked.                     *)
(***************************************************************************)
EXTENDS HeapUnits, TLC

Symmetry == Permutations(Thread) \union Permutations(Unit)
=============================================================================
