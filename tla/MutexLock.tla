----------------------------- MODULE MutexLock -----------------------------
(***************************************************************************)
(* mutex_t (core/utils.c, core/linux/os.c): the counting lock under every  *)
(* other lock of DynamoRIO.  One step is one access to the shared word     *)
(* lock_requests, which holds the number of requesting threads minus one;  *)
(* what a thread does between two accesses is in its program counter.      *)
(* INTERNAL_OPTION(spin_yield_mutex) is false in this build.               *)
(***************************************************************************)
EXTENDS Integers, FiniteSets

CONSTANTS Thread,
          NoThread,
          SpinCount,    \* spinlock_count: 0 on a uniprocessor
          Build         \* which atomic_compare_exchange_int is compiled

ASSUME ThreadAssumption == IsFiniteSet(Thread)
ASSUME NoThreadAssumption == NoThread \notin Thread
ASSUME SpinCountAssumption == SpinCount \in Nat
ASSUME BuildAssumption == Build \in {"X86", "ARM"}

VARIABLES lock_requests,  \* the shared word
          pc,             \* where each thread is in the lock's routines
          spins           \* what is left of each thread's spin loop (i)

vars == <<lock_requests, pc, spins>>

LOCK_FREE_STATE == -1
LOCK_SET_STATE == 0

(* "trylock" is a caller's own mutex_trylock; "try", "spin" and "inc" are  *)
(* mutex_lock; "undo" and "wait" are mutex_wait_contended_lock; "notify"   *)
(* is the tail of mutex_unlock.                                            *)
Location == {"idle", "trylock", "try", "spin", "inc", "undo", "wait",
             "held", "notify"}

Init == /\ lock_requests = LOCK_FREE_STATE
        /\ pc = [t \in Thread |-> "idle"]
        /\ spins = [t \in Thread |-> SpinCount]

Goto(t, l) == pc' = [pc EXCEPT ![t] = l]

(* atomic_compare_exchange(&lock_requests, FREE, SET) by thread t, which   *)
(* goes on at yes or at no.  On x86 it is lock cmpxchg and a test of ZF.   *)
(* In core/Arm/arm.s a mismatch skips the strexeq and then tests r4, which *)
(* nothing has set: the routine loops if it is not 0 (the thread stays     *)
(* where it is) and returns if it is 0, with the Z flag of that last test  *)
(* set, so that its caller takes the exchange for done.                    *)
CompareExchange(t, yes, no) ==
    \/ /\ lock_requests = LOCK_FREE_STATE
       /\ lock_requests' = LOCK_SET_STATE
       /\ Goto(t, yes)
    \/ /\ lock_requests # LOCK_FREE_STATE
       /\ Build = "X86"
       /\ Goto(t, no)
       /\ UNCHANGED lock_requests
    \/ /\ lock_requests # LOCK_FREE_STATE
       /\ Build = "ARM"
       /\ Goto(t, yes)
       /\ UNCHANGED lock_requests

-----------------------------------------------------------------------------
(* mutex_lock *)

StartLock(t) == /\ pc[t] = "idle"
                /\ Goto(t, IF SpinCount > 0 THEN "try" ELSE "inc")
                /\ spins' = [spins EXCEPT ![t] = SpinCount]
                /\ UNCHANGED lock_requests

LockTry(t) == /\ pc[t] = "try"
              /\ CompareExchange(t, "held", "spin")
              /\ UNCHANGED spins

LockSpin(t) == /\ pc[t] = "spin"
               /\ IF lock_requests = LOCK_SET_STATE /\ spins[t] > 1
                    THEN /\ spins' = [spins EXCEPT ![t] = @ - 1]
                         /\ UNCHANGED pc
                    ELSE /\ Goto(t, "inc")
                         /\ UNCHANGED spins
               /\ UNCHANGED lock_requests

(* atomic_inc_and_test is true when the incremented word is 0. *)
LockInc(t) == /\ pc[t] = "inc"
              /\ lock_requests' = lock_requests + 1
              /\ Goto(t, IF lock_requests' = 0 THEN "held" ELSE "undo")
              /\ UNCHANGED spins

(* Mutant of WaitUndo: the request is not taken back before polling. *)
WaitWithoutUndo(t) == /\ pc[t] = "undo"
                      /\ Goto(t, "wait")
                      /\ UNCHANGED <<lock_requests, spins>>

(* mutex_wait_contended_lock takes the request back, then polls. *)
WaitUndo(t) == /\ pc[t] = "undo"
               /\ lock_requests' = lock_requests - 1
               /\ Goto(t, "wait")
               /\ UNCHANGED spins

WaitTry(t) == /\ pc[t] = "wait"
              /\ CompareExchange(t, "held", "wait")
              /\ UNCHANGED spins

(* mutex_trylock called on its own *)
StartTrylock(t) == /\ pc[t] = "idle"
                   /\ Goto(t, "trylock")
                   /\ UNCHANGED <<lock_requests, spins>>

Trylock(t) == /\ pc[t] = "trylock"
              /\ CompareExchange(t, "held", "idle")
              /\ UNCHANGED spins

(* Mutant of Unlock: the word is set free, as a spin lock's would be, and  *)
(* the requests that are being taken back are forgotten.                   *)
UnlockStoresFree(t) == /\ pc[t] = "held"
                       /\ lock_requests' = LOCK_FREE_STATE
                       /\ Goto(t, "notify")
                       /\ UNCHANGED spins

(* mutex_unlock returns at once when atomic_dec_and_test is true, and that *)
(* is when the decremented word is 0.                                      *)
Unlock(t) == /\ pc[t] = "held"
             /\ lock_requests' = lock_requests - 1
             /\ Goto(t, IF lock_requests' = 0 THEN "idle" ELSE "notify")
             /\ UNCHANGED spins

(* mutex_notify_released_lock has nothing to do on Linux. *)
Notify(t) == /\ pc[t] = "notify"
             /\ Goto(t, "idle")
             /\ UNCHANGED <<lock_requests, spins>>

-----------------------------------------------------------------------------
(* The steps a thread must take once it has entered a routine ...          *)
Proceed(t) == \/ LockTry(t)
              \/ LockSpin(t)
              \/ LockInc(t)
              \/ WaitUndo(t)
              \/ WaitTry(t)
              \/ Trylock(t)
              \/ Notify(t)

(* ... and those it takes when its caller decides to. *)
Step(t) == \/ StartLock(t)
           \/ StartTrylock(t)
           \/ Proceed(t)
           \/ Unlock(t)

Next == \E t \in Thread : Step(t)

Spec == Init /\ [][Next]_vars

(* The operating system schedules every runnable thread, and no caller     *)
(* keeps a mutex for ever; a thread need not ask for the lock.             *)
Fairness == \A t \in Thread : WF_vars(Proceed(t)) /\ WF_vars(Unlock(t))

FairSpec == Spec /\ Fairness

-----------------------------------------------------------------------------
TypeOK == /\ lock_requests \in Int
          /\ pc \in [Thread -> Location]
          /\ spins \in [Thread -> 0 .. SpinCount]

(* No two threads are between a successful lock or trylock and its unlock, *)
(* whichever of the three ways of acquiring they came by and however many  *)
(* requests are being taken back at that moment.                           *)
MutualExclusion ==
    \A t, u \in Thread : pc[t] = "held" /\ pc[u] = "held" => t = u

(* "number of threads requesting this lock minus 1" (utils.h): the word    *)
(* counts exactly the owner and the threads about to take a request back,  *)
(* so it neither drifts after contention nor stays above free.             *)
Requesting == {t \in Thread : pc[t] \in {"held", "undo"}}
RequestsCounted == lock_requests = Cardinality(Requesting) - 1

Trying(t) == pc[t] \in {"try", "spin", "inc", "undo", "wait"}

(* While threads keep asking, somebody keeps getting the lock: requests    *)
(* that are taken back never hide a free lock from everybody for good.     *)
LockIsGranted ==
    (\E t \in Thread : Trying(t)) ~> (\E t \in Thread : pc[t] = "held")

Owner == IF \E t \in Thread : pc[t] = "held"
           THEN CHOOSE t \in Thread : pc[t] = "held"
           ELSE NoThread

(* The abstract lock: each acquisition and release of the word-level code  *)
(* is one step of Mutex.                                                   *)
Abstract == INSTANCE Mutex WITH owner <- Owner
ImplementsMutex == Abstract!Spec
=============================================================================
