------------------------------- MODULE Mutex -------------------------------
(***************************************************************************)
(* What DynamoRIO's locks promise their users: at most one thread owns the *)
(* lock, only a free lock is acquired and only its owner releases it.      *)
(* mutex_t and the outermost level of recursive_lock_t (core/utils.c) are  *)
(* each shown to implement this module.                                    *)
(***************************************************************************)
CONSTANTS Thread,
          NoThread    \* anything but a thread

VARIABLE owner      \* the thread that owns the lock, or NoThread

Init == owner = NoThread

Acquire(t) == owner = NoThread /\ owner' = t

Release(t) == owner = t /\ owner' = NoThread

Next == \E t \in Thread : Acquire(t) \/ Release(t)

Spec == Init /\ [][Next]_owner
=============================================================================
