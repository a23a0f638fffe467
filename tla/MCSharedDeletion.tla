-------------------------- MODULE MCSharedDeletion --------------------------
(***************************************************************************)
(* SharedDeletion for TLC: threads and fragments are interchangeable.      *)
(***************************************************************************)
EXTENDS SharedDeletion, TLC

Symmetry == Permutations(Thread) \cup Permutations(Fragment)
=============================================================================
