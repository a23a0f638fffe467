------------------------------ MODULE MCRWLock ------------------------------
(***************************************************************************)
(* RWLock for TLC: two readers and a writer, or a reader and two writers,  *)
(* with spin_yield_rwlock on or off in the initial state.                  *)
(***************************************************************************)
EXTENDS RWLock
=============================================================================
