--------------------------- MODULE RecursiveLock ---------------------------
(***************************************************************************)
(* recursive_lock_t (core/utils.c), composed with the word-level mutex_t   *)
(* it contains: change_linking_lock and the heap's locks are of this type. *)
(* Every routine first compares owner with the caller, outside the mutex.  *)
(* owner and count are one step where only the owner can see count. Names  *)
(* that RWLock has as well are prefixed, so that a module can extend both. *)
(***************************************************************************)
EXTENDS InnerMutex

CONSTANT MaxDepth       \* bound on a caller's nesting

ASSUME MaxDepthAssumption == MaxDepth \in Nat \ {0}

VARIABLES owner,
          count,
          depth      \* each thread's acquisitions that it has not released

recursiveVars == <<lockVars, owner, count, depth, at>>

RecursiveLocation == {"out", "mutex", "trylock", "own", "unlock"}

RecursiveInit == /\ Lock!Init
                 /\ owner = NoThread
                 /\ count = 0
                 /\ depth = [t \in Thread |-> 0]
                 /\ at = [t \in Thread |-> "out"]

-----------------------------------------------------------------------------
(* acquire_recursive_lock and try_recursive_lock by the thread that is     *)
(* already the owner.                                                      *)
Reacquire(t) == /\ at[t] = "out"
                /\ owner = t
                /\ depth[t] < MaxDepth
                /\ count' = count + 1
                /\ depth' = [depth EXCEPT ![t] = @ + 1]
                /\ UNCHANGED <<lockVars, owner, at>>

StartAcquire(t) == /\ at[t] = "out"
                   /\ owner # t
                   /\ Lock!StartLock(t)
                   /\ Goto(t, "mutex")
                   /\ UNCHANGED <<owner, count, depth>>

StartTry(t) == /\ at[t] = "out"
               /\ owner # t
               /\ Lock!StartTrylock(t)
               /\ Goto(t, "trylock")
               /\ UNCHANGED <<owner, count, depth>>

(* A step of mutex_lock or mutex_trylock; a failed try is back outside.    *)
TakeMutex(t) == /\ at[t] \in {"mutex", "trylock"}
                /\ Lock!Proceed(t)
                /\ Goto(t, CASE pc'[t] = "held" -> "own"
                             [] pc'[t] = "idle" -> "out"
                             [] OTHER -> at[t])
                /\ UNCHANGED <<owner, count, depth>>

(* own_recursive_lock *)
Own(t) == /\ at[t] = "own"
          /\ owner' = t
          /\ count' = 1
          /\ depth' = [depth EXCEPT ![t] = @ + 1]
          /\ Goto(t, "out")
          /\ UNCHANGED lockVars

(* Mutant of Release: the owner is left for the next one to overwrite. *)
ReleaseStale(t) == /\ at[t] = "out"
                   /\ depth[t] > 0
                   /\ count' = count - 1
                   /\ depth' = [depth EXCEPT ![t] = @ - 1]
                   /\ Goto(t, IF count' = 0 THEN "unlock" ELSE "out")
                   /\ UNCHANGED <<lockVars, owner>>

(* Mutant of Release: the test is made on the count before the decrement. *)
ReleaseEarly(t) == /\ at[t] = "out"
                   /\ depth[t] > 0
                   /\ count' = count - 1
                   /\ depth' = [depth EXCEPT ![t] = @ - 1]
                   /\ IF count <= 2
                        THEN owner' = NoThread /\ Goto(t, "unlock")
                        ELSE UNCHANGED <<owner, at>>
                   /\ UNCHANGED lockVars

(* release_recursive_lock, up to its mutex_unlock *)
Release(t) == /\ at[t] = "out"
              /\ depth[t] > 0
              /\ count' = count - 1
              /\ depth' = [depth EXCEPT ![t] = @ - 1]
              /\ IF count' = 0
                   THEN owner' = NoThread /\ Goto(t, "unlock")
                   ELSE UNCHANGED <<owner, at>>
              /\ UNCHANGED lockVars

Unlock(t) == /\ at[t] = "unlock"
             /\ Lock!Unlock(t) \/ Lock!Notify(t)
             /\ Goto(t, IF pc'[t] = "idle" THEN "out" ELSE "unlock")
             /\ UNCHANGED <<owner, count, depth>>

-----------------------------------------------------------------------------
RecursiveNext == \E t \in Thread : \/ Reacquire(t) \/ StartAcquire(t) \/ StartTry(t)
                                   \/ TakeMutex(t) \/ Own(t)
                                   \/ Release(t) \/ Unlock(t)

RecursiveSpec == RecursiveInit /\ [][RecursiveNext]_recursiveVars

-----------------------------------------------------------------------------
RecursiveTypeOK == /\ Lock!TypeOK
                   /\ owner \in Thread \cup {NoThread}
                   /\ count \in 0 .. MaxDepth
                   /\ depth \in [Thread -> 0 .. MaxDepth]
                   /\ at \in [Thread -> RecursiveLocation]

(* Whatever the interleaving of a racing comparison with owner, at most    *)
(* one thread has acquisitions outstanding, the lock names it, and count   *)
(* is their number: no thread is let in on a stale owner, and none gives   *)
(* the mutex away before its outermost release.                            *)
NestingIsExact ==
    \A t \in Thread : /\ depth[t] > 0 => owner = t /\ count = depth[t]
                      /\ owner = t => depth[t] > 0 /\ pc[t] = "held"

(* Seen by its outermost acquisitions and releases, it is a mutex. *)
Outermost == INSTANCE Mutex
ImplementsMutex == Outermost!Spec
=============================================================================
