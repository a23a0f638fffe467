---------------------------- MODULE MCMutexLock ----------------------------
(***************************************************************************)
(* MutexLock for TLC: three threads, so that one can hold the lock, one    *)
(* take a request back and one poll.                                       *)
(***************************************************************************)
EXTENDS MutexLock
=============================================================================
