--------------------------- MODULE MCPrivateFlush ---------------------------
(***************************************************************************)
(* PrivateFlush for TLC: two threads, and a block in each of two areas, so *)
(* that a second flush finds something to delete in a thread that has not  *)
(* gone on after the first.                                                *)
(***************************************************************************)
EXTENDS PrivateFlush, TLC

CONSTANTS f1, f2, a1, a2
Blocks == f1 :> a1 @@ f2 :> a2
Symmetry == Permutations(Thread)
=============================================================================
