----------------------------- MODULE InnerMutex -----------------------------
(***************************************************************************)
(* The mutex_t that is a field of read_write_lock_t and recursive_lock_t   *)
(* (core/utils.h), and a thread's way through the routines around it.      *)
(***************************************************************************)
EXTENDS Integers, FiniteSets

CONSTANTS Thread,
          NoThread,     \* INVALID_THREAD_ID
          SpinCount,
          Build

ASSUME ThreadAssumption == IsFiniteSet(Thread) /\ NoThread \notin Thread
ASSUME BuildAssumption == SpinCount \in Nat /\ Build \in {"X86", "ARM"}

VARIABLES lock_requests, pc, spins,    \* the word of the mutex and its callers
          at         \* where each thread is in the routines of the outer lock

lockVars == <<lock_requests, pc, spins>>

Lock == INSTANCE MutexLock

Goto(t, l) == at' = [at EXCEPT ![t] = l]

From(t, l, m) == at[t] = l /\ Goto(t, m)
=============================================================================
