-------------------------- MODULE MCRecursiveLock --------------------------
(***************************************************************************)
(* RecursiveLock for TLC: three threads, and nesting to three so that a    *)
(* release that leaves two levels is reached.                              *)
(***************************************************************************)
EXTENDS RecursiveLock
=============================================================================
