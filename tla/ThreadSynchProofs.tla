-------------------------- MODULE ThreadSynchProofs --------------------------
(***************************************************************************)
(* Suspending and ending the threads of a group is safe for any number of  *)
(* threads, any of which may do it at once, and any number of signals of   *)
(* the application.                                                        *)
(***************************************************************************)
EXTENDS ThreadSynch, FiniteSetTheorems, TLAPS

-----------------------------------------------------------------------------
(* The inductive invariant *)

(* thread_initexit_lock is held from the loop's head to where it is let go *)
(* to yield, and synch_lock while a thread's own permission changes.       *)
Locked == {"next", "notify", "suspend", "await", "check", "resume", "resuming",
           "unsafe", "settle", "terminate", "await_end", "clean", "reclaim"}

LocksOK == \A t \in Thread :
              /\ pc[t] \in Locked <=> thread_initexit_lock = t
              /\ synch_lock[t] <=> pc[t] \in {"give", "take"}
              /\ synch_perm[t] = "VALID_MCONTEXT" <=> pc[t] \in {"safe", "regain", "take"}

(* A thread's target is another thread. *)
Idle == {"cache", "dr", "lock", "next", "exit"}
TargetsOK == \A t \in Thread :
                /\ t \notin todo[t]
                /\ pc[t] \notin Idle => tgt[t] \in Thread \ {t}

(* What the flags of a thread say of where it is in its handler: the four  *)
(* turns of a suspension, each seen by both sides in the same order.       *)
SuspensionOK(u) ==
    /\ suspended[u] <=> handler[u] = "spin"
    /\ resumed[u] => wakeup[u] /\ handler[u] = "none"
    /\ handler[u] = "awake" => wakeup[u]
    /\ wakeup[u] =>
          /\ suspend_count[u] = 0
          /\ handler[u] = "none" => resumed[u]
          /\ \E t \in Thread : pc[t] = "resuming" /\ tgt[t] = u
    /\ suspend_count[u] = 0 /\ ~ wakeup[u] => handler[u] = "none"

(* What a thread that has suspended its target knows of it. *)
StageOK(t) ==
    /\ pc[t] = "await" => suspend_count[tgt[t]] > 0
    /\ pc[t] \in {"check", "resume", "settle", "terminate", "await_end"} =>
          suspended[tgt[t]] /\ suspend_count[tgt[t]] > 0
    /\ pc[t] \in {"settle", "terminate", "await_end"} =>
          pc[tgt[t]] \in {"cache", "safe", "regain"}
    /\ pc[t] = "clean" => tgt[t] \in dead

(* Whose signal is due: that of a suspension, of a termination, or one     *)
(* that the application has not been passed yet.                           *)
SignalsOK(u) ==
    /\ passed[u] <= sent[u]
    /\ pending_signal[u] =>
          \/ terminate[u]
          \/ suspend_count[u] > 0 /\ handler[u] = "none"
          \/ passed[u] < sent[u]
    /\ terminated[u] => u \in dead

(* A thread in its loop has ended and cleaned up those it has passed. *)
Passed(u) == (u \in dead /\ linking_lock[u]) \/ abandoned[u] > 0
DoneOK == \A t \in Thread : \A u \in Thread \ {t} :
             \/ pc[t] \in {"cache", "dr", "lock"}
             \/ pc[t] # "exit" /\ u \in todo[t]
             \/ pc[t] \notin Idle /\ u = tgt[t]
             \/ Passed(u)

(* Those that have a claim on a thread. *)
Claims(u) == {t \in Thread : pc[t] \in Claiming /\ tgt[t] = u}

ControlOK == LocksOK /\ TargetsOK /\ \A t \in Thread : StageOK(t)
SynchIInv == /\ TypeOK
             /\ PendingExact
             /\ ControlOK
             /\ \A u \in Thread : SuspensionOK(u)
             /\ \A u \in Thread : SignalsOK(u)
             /\ DoneOK

-----------------------------------------------------------------------------
LEMMA SynchInitIInv == Init => SynchIInv
<1> SUFFICES ASSUME Init PROVE SynchIInv
  OBVIOUS
<1>1. TypeOK
  BY DEF Init, TypeOK, Location, Zero, AllFalse
<1>2. PendingExact
  <2> SUFFICES ASSUME NEW u \in Thread
               PROVE  pending_synch_count[u] = abandoned[u]
                        + Cardinality({t \in Thread : pc[t] \in Claiming /\ tgt[t] = u})
    BY DEF PendingExact
  <2>1. {t \in Thread : pc[t] \in Claiming /\ tgt[t] = u} = {}
    BY DEF Init, Claiming
  <2> QED
    BY <2>1, FS_EmptySet DEF Init, Zero
<1>3. ControlOK
  BY ThreadAssumption
     DEF Init, ControlOK, LocksOK, TargetsOK, StageOK, Locked, Idle, AllFalse
<1>4. \A u \in Thread : SuspensionOK(u) /\ SignalsOK(u)
  BY DEF Init, SuspensionOK, SignalsOK, AllFalse, Zero
<1>5. DoneOK
  BY DEF Init, DoneOK
<1> QED
  BY <1>1, <1>2, <1>3, <1>4, <1>5 DEF SynchIInv

(* A claim counts: what is claimed can be given up. *)
LEMMA ClaimCounted ==
  ASSUME TypeOK, PendingExact, NEW t \in Thread, NEW u \in Thread,
         pc[t] \in Claiming, tgt[t] = u
  PROVE  pending_synch_count[u] - 1 \in Nat
<1>1. IsFiniteSet(Claims(u))
  BY ThreadAssumption, FS_Subset DEF Claims
<1>2. Claims(u) # {}
  BY DEF Claims
<1>3. Cardinality(Claims(u)) \in Nat /\ Cardinality(Claims(u)) # 0
  BY <1>1, <1>2, FS_EmptySet, FS_CardinalityType
<1>4. pending_synch_count[u] = abandoned[u] + Cardinality(Claims(u)) /\ abandoned[u] \in Nat
  BY DEF PendingExact, TypeOK, Claims
<1> QED
  BY <1>3, <1>4

(* Every step keeps the variables in their sets: no count goes below zero. *)
LEMMA TypeStep == TypeOK /\ PendingExact /\ ControlOK /\ [Next]_vars => TypeOK'
<1> SUFFICES ASSUME TypeOK, PendingExact, ControlOK, [Next]_vars PROVE TypeOK'
  OBVIOUS
<1>0. \A t \in Thread : pc[t] \in Claiming /\ tgt[t] \in Thread =>
         pending_synch_count[tgt[t]] - 1 \in Nat
  BY ClaimCounted
<1> USE DEF TypeOK, Location, Set, Reset, From, ControlOK, TargetsOK, Idle,
            locals, kernel, ostd, tsd, locks, history
<1>1. CASE UNCHANGED vars
  BY <1>1 DEF vars
<1>2. ASSUME NEW t \in Thread, Synch(t) PROVE TypeOK'
  <2>1. CASE LockInitexit(t)
    BY <2>1 DEF LockInitexit
  <2>2. CASE NextThread(t)
    BY <2>2 DEF NextThread
  <2>3. CASE AllDone(t)
    BY <2>3 DEF AllDone
  <2>4. CASE EndGroup(t)
    BY <2>4 DEF EndGroup
  <2>5. CASE Notify(t)
    BY <2>5 DEF Notify, Adjust
  <2>6. CASE Suspend(t)
    <3>1. suspend_count' = [suspend_count EXCEPT ![tgt[t]] = suspend_count[tgt[t]] + 1]
      BY <2>6 DEF Suspend
    <3>2. tgt[t] \in Thread
      BY <2>6 DEF Suspend
    <3>3. suspend_count' \in [Thread -> Nat]
      BY <3>1, <3>2
    <3> QED
      BY <2>6, <3>3 DEF Suspend, Signal
  <2>7. CASE SuspendFails(t)
    BY <1>0, <2>7 DEF SuspendFails, Adjust, Claiming
  <2>8. CASE Await(t)
    BY <2>8 DEF Await
  <2>9. CASE Check(t)
    BY <2>9 DEF Check, AtSafeSpot, WaitingAtSafeSpot
  <2>10. CASE Resume(t)
    <3>1. tgt[t] \in Thread /\ suspend_count[tgt[t]] - 1 \in Nat
      BY <2>10 DEF Resume, StageOK
    <3>2. suspend_count' = [suspend_count EXCEPT ![tgt[t]] = suspend_count[tgt[t]] - 1]
      BY <2>10 DEF Resume
    <3>3. suspend_count' \in [Thread -> Nat]
      BY <3>1, <3>2
    <3>4. pc' \in [Thread -> Location] /\ wakeup' \in [Thread -> BOOLEAN]
      BY <2>10 DEF Resume
    <3> QED
      BY <2>10, <3>3, <3>4 DEF Resume
  <2>11. CASE Resumed(t)
    BY <2>11 DEF Resumed
  <2>12. CASE Yield(t)
    BY <2>12 DEF Yield
  <2>13. CASE GiveWay(t)
    BY <1>0, <2>13 DEF GiveWay, Adjust, Claiming
  <2>14. CASE Relock(t)
    BY <2>14 DEF Relock
  <2>15. CASE Settle(t)
    BY <1>0, <2>15 DEF Settle, Adjust, Claiming
  <2>16. CASE Terminate(t)
    BY <2>16 DEF Terminate, Signal
  <2>17. CASE AwaitEnd(t)
    BY <2>17 DEF AwaitEnd
  <2>18. CASE Clean(t)
    BY <2>18 DEF Clean
  <2>19. CASE CheckWait(t)
    <3>1. CASE pending_synch_count[t] = 0
      BY <2>19, <3>1 DEF CheckWait
    <3>2. CASE pending_synch_count[t] # 0
      BY <2>19, <3>2 DEF CheckWait
    <3> QED
      BY <3>1, <3>2
  <2>20. CASE Give(t)
    BY <2>20 DEF Give
  <2>21. CASE LeaveSafeSpot(t)
    BY <2>21 DEF LeaveSafeSpot
  <2>22. CASE Regain(t)
    BY <2>22 DEF Regain
  <2>23. CASE Take(t)
    BY <2>23 DEF Take
  <2>24. CASE RelockSafe(t)
    BY <2>24 DEF RelockSafe
  <2>25. CASE Reclaim(t)
    BY <2>25 DEF Reclaim, Adjust
  <2> QED
    BY <1>2, <2>1, <2>2, <2>3, <2>4, <2>5, <2>6, <2>7, <2>8, <2>9, <2>10,
       <2>11, <2>12, <2>13, <2>14, <2>15, <2>16, <2>17, <2>18, <2>19, <2>20,
       <2>21, <2>22, <2>23, <2>24, <2>25 DEF Synch
<1>3. ASSUME NEW t \in Thread, Handle(t) PROVE TypeOK'
  <2>1. CASE Deliver(t)
    <3>1. passed' = passed \/ passed' = [passed EXCEPT ![t] = passed[t] + 1]
      BY <2>1 DEF Deliver
    <3>2. passed' \in [Thread -> Nat]
      BY <3>1
    <3>3. handler' = handler \/ handler' = [handler EXCEPT ![t] = "spin"]
      BY <2>1 DEF Deliver
    <3>4. dead' = dead \/ dead' = dead \cup {t}
      BY <2>1 DEF Deliver
    <3>5. /\ suspended' \in {suspended, [suspended EXCEPT ![t] = TRUE]}
          /\ terminated' \in {terminated, [terminated EXCEPT ![t] = TRUE]}
      BY <2>1 DEF Deliver
    <3>6. pending_signal' = [pending_signal EXCEPT ![t] = FALSE]
      BY <2>1 DEF Deliver
    <3>7. UNCHANGED <<pc, locals, suspend_count, wakeup, resumed, terminate, tsd,
                      locks, sent, abandoned>>
      BY <2>1 DEF Deliver
    <3>8. handler' \in [Thread -> {"none", "spin", "awake"}] /\ dead' \in SUBSET Thread
      BY <3>3, <3>4
    <3>9. /\ suspended' \in [Thread -> BOOLEAN] /\ terminated' \in [Thread -> BOOLEAN]
          /\ pending_signal' \in [Thread -> BOOLEAN]
      BY <3>5, <3>6
    <3> QED
      BY <3>2, <3>7, <3>8, <3>9
  <2>2. CASE Wake(t)
    BY <2>2 DEF Wake
  <2>3. CASE Return(t)
    BY <2>3 DEF Return
  <2> QED
    BY <1>3, <2>1, <2>2, <2>3 DEF Handle
<1>4. ASSUME NEW t \in Thread, Decide(t) PROVE TypeOK'
  <2>1. CASE EnterCache(t)
    BY <2>1 DEF EnterCache
  <2>2. CASE LeaveCache(t)
    BY <2>2 DEF LeaveCache
  <2>3. CASE Exit(t)
    BY <2>3 DEF Exit
  <2>4. CASE AppSignal(t)
    BY <2>4 DEF AppSignal, Signal
  <2>5. CASE ExitGroup(t)
    BY <2>5 DEF ExitGroup
  <2>6. CASE Abandon(t)
    BY <2>6 DEF Abandon
  <2> QED
    BY <1>4, <2>1, <2>2, <2>3, <2>4, <2>5, <2>6 DEF Decide
<1> QED
  BY <1>1, <1>2, <1>3, <1>4 DEF Next

(* At most one thread holds thread_initexit_lock, and so one at a time     *)
(* suspends, resumes or ends another one.                                  *)
LEMMA OneAtATime ==
  ASSUME ControlOK, NEW t \in Thread, pc[t] \in Locked,
         NEW v \in Thread, pc[v] \in Locked
  PROVE  v = t
BY DEF ControlOK, LocksOK

LEMMA LocksStep == TypeOK /\ ControlOK /\ [Next]_vars => LocksOK'
<1> SUFFICES ASSUME TypeOK, ControlOK, [Next]_vars PROVE LocksOK'
  OBVIOUS
<1> USE ThreadAssumption
    DEF TypeOK, Locked, Set, Reset, From, ControlOK, LocksOK, TargetsOK, Idle,
            locals, kernel, ostd, tsd, locks, history
<1>1. CASE UNCHANGED vars
  BY <1>1 DEF vars
<1>2. ASSUME NEW t \in Thread, Synch(t) PROVE LocksOK'
  <2>1. CASE LockInitexit(t)
    BY <2>1 DEF LockInitexit
  <2>2. CASE NextThread(t)
    BY <2>2 DEF NextThread
  <2>3. CASE AllDone(t)
    BY <2>3 DEF AllDone
  <2>4. CASE EndGroup(t)
    BY <2>4 DEF EndGroup
  <2>5. CASE Notify(t)
    BY <2>5 DEF Notify, Adjust
  <2>6. CASE Suspend(t)
    BY <2>6 DEF Suspend, Signal
  <2>7. CASE SuspendFails(t)
    BY <2>7 DEF SuspendFails, Adjust
  <2>8. CASE Await(t)
    BY <2>8 DEF Await
  <2>9. CASE Check(t)
    BY <2>9 DEF Check, AtSafeSpot, WaitingAtSafeSpot
  <2>10. CASE Resume(t)
    BY <2>10 DEF Resume
  <2>11. CASE Resumed(t)
    BY <2>11 DEF Resumed
  <2>12. CASE Yield(t)
    BY <2>12 DEF Yield
  <2>13. CASE GiveWay(t)
    BY <2>13 DEF GiveWay, Adjust
  <2>14. CASE Relock(t)
    BY <2>14 DEF Relock
  <2>15. CASE Settle(t)
    BY <2>15 DEF Settle, Adjust
  <2>16. CASE Terminate(t)
    BY <2>16 DEF Terminate, Signal
  <2>17. CASE AwaitEnd(t)
    BY <2>17 DEF AwaitEnd
  <2>18. CASE Clean(t)
    BY <2>18 DEF Clean
  <2>19. CASE CheckWait(t)
    BY <2>19 DEF CheckWait
  <2>20. CASE Give(t)
    BY <2>20 DEF Give
  <2>21. CASE LeaveSafeSpot(t)
    BY <2>21 DEF LeaveSafeSpot
  <2>22. CASE Regain(t)
    BY <2>22 DEF Regain
  <2>23. CASE Take(t)
    BY <2>23 DEF Take
  <2>24. CASE RelockSafe(t)
    BY <2>24 DEF RelockSafe
  <2>25. CASE Reclaim(t)
    BY <2>25 DEF Reclaim, Adjust
  <2> QED
    BY <1>2, <2>1, <2>2, <2>3, <2>4, <2>5, <2>6, <2>7, <2>8, <2>9, <2>10,
       <2>11, <2>12, <2>13, <2>14, <2>15, <2>16, <2>17, <2>18, <2>19, <2>20,
       <2>21, <2>22, <2>23, <2>24, <2>25 DEF Synch
<1>3. ASSUME NEW t \in Thread, Handle(t) PROVE LocksOK'
  <2>1. CASE Deliver(t)
    BY <2>1 DEF Deliver
  <2>2. CASE Wake(t)
    BY <2>2 DEF Wake
  <2>3. CASE Return(t)
    BY <2>3 DEF Return
  <2> QED
    BY <1>3, <2>1, <2>2, <2>3 DEF Handle
<1>4. ASSUME NEW t \in Thread, Decide(t) PROVE LocksOK'
  <2>1. CASE EnterCache(t)
    BY <2>1 DEF EnterCache
  <2>2. CASE LeaveCache(t)
    BY <2>2 DEF LeaveCache
  <2>3. CASE Exit(t)
    BY <2>3 DEF Exit
  <2>4. CASE AppSignal(t)
    BY <2>4 DEF AppSignal, Signal
  <2>5. CASE ExitGroup(t)
    BY <2>5 DEF ExitGroup
  <2>6. CASE Abandon(t)
    BY <2>6 DEF Abandon
  <2> QED
    BY <1>4, <2>1, <2>2, <2>3, <2>4, <2>5, <2>6 DEF Decide
<1> QED
  BY <1>1, <1>2, <1>3, <1>4 DEF Next

LEMMA TargetsStep == TypeOK /\ ControlOK /\ [Next]_vars => TargetsOK'
<1> SUFFICES ASSUME TypeOK, ControlOK, [Next]_vars PROVE TargetsOK'
  OBVIOUS
<1> USE DEF TypeOK, Set, Reset, From, ControlOK, TargetsOK, Idle,
            locals, kernel, ostd, tsd, locks, history
<1>1. CASE UNCHANGED vars
  BY <1>1 DEF vars
<1>2. ASSUME NEW t \in Thread, Synch(t) PROVE TargetsOK'
  <2>1. CASE LockInitexit(t)
    BY <2>1 DEF LockInitexit
  <2>2. CASE NextThread(t)
    BY <2>2 DEF NextThread
  <2>3. CASE AllDone(t)
    BY <2>3 DEF AllDone
  <2>4. CASE EndGroup(t)
    BY <2>4 DEF EndGroup
  <2>5. CASE Notify(t)
    BY <2>5 DEF Notify, Adjust
  <2>6. CASE Suspend(t)
    BY <2>6 DEF Suspend, Signal
  <2>7. CASE SuspendFails(t)
    BY <2>7 DEF SuspendFails, Adjust
  <2>8. CASE Await(t)
    BY <2>8 DEF Await
  <2>9. CASE Check(t)
    BY <2>9 DEF Check, AtSafeSpot, WaitingAtSafeSpot
  <2>10. CASE Resume(t)
    BY <2>10 DEF Resume
  <2>11. CASE Resumed(t)
    BY <2>11 DEF Resumed
  <2>12. CASE Yield(t)
    BY <2>12 DEF Yield
  <2>13. CASE GiveWay(t)
    BY <2>13 DEF GiveWay, Adjust
  <2>14. CASE Relock(t)
    BY <2>14 DEF Relock
  <2>15. CASE Settle(t)
    BY <2>15 DEF Settle, Adjust
  <2>16. CASE Terminate(t)
    BY <2>16 DEF Terminate, Signal
  <2>17. CASE AwaitEnd(t)
    BY <2>17 DEF AwaitEnd
  <2>18. CASE Clean(t)
    BY <2>18 DEF Clean
  <2>19. CASE CheckWait(t)
    BY <2>19 DEF CheckWait
  <2>20. CASE Give(t)
    BY <2>20 DEF Give
  <2>21. CASE LeaveSafeSpot(t)
    BY <2>21 DEF LeaveSafeSpot
  <2>22. CASE Regain(t)
    BY <2>22 DEF Regain
  <2>23. CASE Take(t)
    BY <2>23 DEF Take
  <2>24. CASE RelockSafe(t)
    BY <2>24 DEF RelockSafe
  <2>25. CASE Reclaim(t)
    BY <2>25 DEF Reclaim, Adjust
  <2> QED
    BY <1>2, <2>1, <2>2, <2>3, <2>4, <2>5, <2>6, <2>7, <2>8, <2>9, <2>10,
       <2>11, <2>12, <2>13, <2>14, <2>15, <2>16, <2>17, <2>18, <2>19, <2>20,
       <2>21, <2>22, <2>23, <2>24, <2>25 DEF Synch
<1>3. ASSUME NEW t \in Thread, Handle(t) PROVE TargetsOK'
  <2>1. CASE Deliver(t)
    BY <2>1 DEF Deliver
  <2>2. CASE Wake(t)
    BY <2>2 DEF Wake
  <2>3. CASE Return(t)
    BY <2>3 DEF Return
  <2> QED
    BY <1>3, <2>1, <2>2, <2>3 DEF Handle
<1>4. ASSUME NEW t \in Thread, Decide(t) PROVE TargetsOK'
  <2>1. CASE EnterCache(t)
    BY <2>1 DEF EnterCache
  <2>2. CASE LeaveCache(t)
    BY <2>2 DEF LeaveCache
  <2>3. CASE Exit(t)
    BY <2>3 DEF Exit
  <2>4. CASE AppSignal(t)
    BY <2>4 DEF AppSignal, Signal
  <2>5. CASE ExitGroup(t)
    BY <2>5 DEF ExitGroup
  <2>6. CASE Abandon(t)
    BY <2>6 DEF Abandon
  <2> QED
    BY <1>4, <2>1, <2>2, <2>3, <2>4, <2>5, <2>6 DEF Decide
<1> QED
  BY <1>1, <1>2, <1>3, <1>4 DEF Next

LEMMA StageStep ==
  ASSUME TypeOK, ControlOK, \A u \in Thread : SuspensionOK(u),
         \A u \in Thread : SignalsOK(u), [Next]_vars
  PROVE  \A w \in Thread : StageOK(w)'
<1> USE DEF TypeOK, Locked, Set, Reset, From, ControlOK, LocksOK, TargetsOK, Idle,
            StageOK, SuspensionOK, SignalsOK, Running,
            locals, kernel, ostd, tsd, locks, history
<1>1. CASE UNCHANGED vars
  BY <1>1 DEF vars
<1>2. ASSUME NEW t \in Thread, Synch(t) PROVE \A w \in Thread : StageOK(w)'
  <2>1. CASE LockInitexit(t)
    BY <2>1 DEF LockInitexit
  <2>2. CASE NextThread(t)
    BY <2>2 DEF NextThread
  <2>3. CASE AllDone(t)
    BY <2>3 DEF AllDone
  <2>4. CASE EndGroup(t)
    BY <2>4 DEF EndGroup
  <2>5. CASE Notify(t)
    BY <2>5 DEF Notify, Adjust
  <2>6. CASE Suspend(t)
    BY <2>6 DEF Suspend, Signal
  <2>7. CASE SuspendFails(t)
    BY <2>7 DEF SuspendFails, Adjust
  <2>8. CASE Await(t)
    BY <2>8 DEF Await
  <2>9. CASE Check(t)
    BY <2>9 DEF Check, AtSafeSpot, WaitingAtSafeSpot
  <2>10. CASE Resume(t)
    BY <2>10 DEF Resume
  <2>11. CASE Resumed(t)
    BY <2>11 DEF Resumed
  <2>12. CASE Yield(t)
    BY <2>12 DEF Yield
  <2>13. CASE GiveWay(t)
    BY <2>13 DEF GiveWay, Adjust
  <2>14. CASE Relock(t)
    BY <2>14 DEF Relock
  <2>15. CASE Settle(t)
    BY <2>15 DEF Settle, Adjust
  <2>16. CASE Terminate(t)
    BY <2>16 DEF Terminate, Signal
  <2>17. CASE AwaitEnd(t)
    BY <2>17 DEF AwaitEnd
  <2>18. CASE Clean(t)
    BY <2>18 DEF Clean
  <2>19. CASE CheckWait(t)
    BY <2>19 DEF CheckWait
  <2>20. CASE Give(t)
    BY <2>20 DEF Give
  <2>21. CASE LeaveSafeSpot(t)
    BY <2>21 DEF LeaveSafeSpot
  <2>22. CASE Regain(t)
    BY <2>22 DEF Regain
  <2>23. CASE Take(t)
    BY <2>23 DEF Take
  <2>24. CASE RelockSafe(t)
    BY <2>24 DEF RelockSafe
  <2>25. CASE Reclaim(t)
    BY <2>25 DEF Reclaim, Adjust
  <2> QED
    BY <1>2, <2>1, <2>2, <2>3, <2>4, <2>5, <2>6, <2>7, <2>8, <2>9, <2>10,
       <2>11, <2>12, <2>13, <2>14, <2>15, <2>16, <2>17, <2>18, <2>19, <2>20,
       <2>21, <2>22, <2>23, <2>24, <2>25 DEF Synch
<1>3. ASSUME NEW t \in Thread, Handle(t) PROVE \A w \in Thread : StageOK(w)'
  <2>1. CASE Deliver(t)
    BY <2>1 DEF Deliver
  <2>2. CASE Wake(t)
    BY <2>2 DEF Wake
  <2>3. CASE Return(t)
    BY <2>3 DEF Return
  <2> QED
    BY <1>3, <2>1, <2>2, <2>3 DEF Handle
<1>4. ASSUME NEW t \in Thread, Decide(t) PROVE \A w \in Thread : StageOK(w)'
  <2>1. CASE EnterCache(t)
    BY <2>1 DEF EnterCache
  <2>2. CASE LeaveCache(t)
    BY <2>2 DEF LeaveCache
  <2>3. CASE Exit(t)
    BY <2>3 DEF Exit
  <2>4. CASE AppSignal(t)
    BY <2>4 DEF AppSignal, Signal
  <2>5. CASE ExitGroup(t)
    BY <2>5 DEF ExitGroup
  <2>6. CASE Abandon(t)
    BY <2>6 DEF Abandon
  <2> QED
    BY <1>4, <2>1, <2>2, <2>3, <2>4, <2>5, <2>6 DEF Decide
<1> QED
  BY <1>1, <1>2, <1>3, <1>4 DEF Next

LEMMA SuspensionStep ==
  ASSUME TypeOK, ControlOK, \A u \in Thread : SuspensionOK(u), [Next]_vars
  PROVE  \A w \in Thread : SuspensionOK(w)'
<1> USE DEF TypeOK, Locked, Set, Reset, From, ControlOK, LocksOK, TargetsOK, Idle,
            StageOK, SuspensionOK, Running,
            locals, kernel, ostd, tsd, locks, history
<1>1. CASE UNCHANGED vars
  BY <1>1 DEF vars
<1>2. ASSUME NEW t \in Thread, Synch(t) PROVE \A w \in Thread : SuspensionOK(w)'
  <2>1. CASE LockInitexit(t)
    BY <2>1 DEF LockInitexit
  <2>2. CASE NextThread(t)
    BY <2>2 DEF NextThread
  <2>3. CASE AllDone(t)
    BY <2>3 DEF AllDone
  <2>4. CASE EndGroup(t)
    BY <2>4 DEF EndGroup
  <2>5. CASE Notify(t)
    BY <2>5 DEF Notify, Adjust
  <2>6. CASE Suspend(t)
    BY <2>6 DEF Suspend, Signal
  <2>7. CASE SuspendFails(t)
    BY <2>7 DEF SuspendFails, Adjust
  <2>8. CASE Await(t)
    BY <2>8 DEF Await
  <2>9. CASE Check(t)
    BY <2>9 DEF Check, AtSafeSpot, WaitingAtSafeSpot
  <2>10. CASE Resume(t)
    BY <2>10 DEF Resume
  <2>11. CASE Resumed(t)
    BY <2>11 DEF Resumed
  <2>12. CASE Yield(t)
    BY <2>12 DEF Yield
  <2>13. CASE GiveWay(t)
    BY <2>13 DEF GiveWay, Adjust
  <2>14. CASE Relock(t)
    BY <2>14 DEF Relock
  <2>15. CASE Settle(t)
    BY <2>15 DEF Settle, Adjust
  <2>16. CASE Terminate(t)
    BY <2>16 DEF Terminate, Signal
  <2>17. CASE AwaitEnd(t)
    BY <2>17 DEF AwaitEnd
  <2>18. CASE Clean(t)
    BY <2>18 DEF Clean
  <2>19. CASE CheckWait(t)
    BY <2>19 DEF CheckWait
  <2>20. CASE Give(t)
    BY <2>20 DEF Give
  <2>21. CASE LeaveSafeSpot(t)
    BY <2>21 DEF LeaveSafeSpot
  <2>22. CASE Regain(t)
    BY <2>22 DEF Regain
  <2>23. CASE Take(t)
    BY <2>23 DEF Take
  <2>24. CASE RelockSafe(t)
    BY <2>24 DEF RelockSafe
  <2>25. CASE Reclaim(t)
    BY <2>25 DEF Reclaim, Adjust
  <2> QED
    BY <1>2, <2>1, <2>2, <2>3, <2>4, <2>5, <2>6, <2>7, <2>8, <2>9, <2>10,
       <2>11, <2>12, <2>13, <2>14, <2>15, <2>16, <2>17, <2>18, <2>19, <2>20,
       <2>21, <2>22, <2>23, <2>24, <2>25 DEF Synch
<1>3. ASSUME NEW t \in Thread, Handle(t) PROVE \A w \in Thread : SuspensionOK(w)'
  <2>1. CASE Deliver(t)
    BY <2>1 DEF Deliver
  <2>2. CASE Wake(t)
    BY <2>2 DEF Wake
  <2>3. CASE Return(t)
    BY <2>3 DEF Return
  <2> QED
    BY <1>3, <2>1, <2>2, <2>3 DEF Handle
<1>4. ASSUME NEW t \in Thread, Decide(t) PROVE \A w \in Thread : SuspensionOK(w)'
  <2>1. CASE EnterCache(t)
    BY <2>1 DEF EnterCache
  <2>2. CASE LeaveCache(t)
    BY <2>2 DEF LeaveCache
  <2>3. CASE Exit(t)
    BY <2>3 DEF Exit
  <2>4. CASE AppSignal(t)
    BY <2>4 DEF AppSignal, Signal
  <2>5. CASE ExitGroup(t)
    BY <2>5 DEF ExitGroup
  <2>6. CASE Abandon(t)
    BY <2>6 DEF Abandon
  <2> QED
    BY <1>4, <2>1, <2>2, <2>3, <2>4, <2>5, <2>6 DEF Decide
<1> QED
  BY <1>1, <1>2, <1>3, <1>4 DEF Next

LEMMA SignalsStep ==
  ASSUME TypeOK, ControlOK, \A u \in Thread : SuspensionOK(u),
         \A u \in Thread : SignalsOK(u), [Next]_vars
  PROVE  \A w \in Thread : SignalsOK(w)'
<1> USE DEF TypeOK, Locked, Set, Reset, From, ControlOK, LocksOK, TargetsOK, Idle,
            StageOK, SuspensionOK, SignalsOK, Running,
            locals, kernel, ostd, tsd, locks, history
<1>1. CASE UNCHANGED vars
  BY <1>1 DEF vars
<1>2. ASSUME NEW t \in Thread, Synch(t) PROVE \A w \in Thread : SignalsOK(w)'
  <2>1. CASE LockInitexit(t)
    BY <2>1 DEF LockInitexit
  <2>2. CASE NextThread(t)
    BY <2>2 DEF NextThread
  <2>3. CASE AllDone(t)
    BY <2>3 DEF AllDone
  <2>4. CASE EndGroup(t)
    BY <2>4 DEF EndGroup
  <2>5. CASE Notify(t)
    BY <2>5 DEF Notify, Adjust
  <2>6. CASE Suspend(t)
    BY <2>6 DEF Suspend, Signal
  <2>7. CASE SuspendFails(t)
    BY <2>7 DEF SuspendFails, Adjust
  <2>8. CASE Await(t)
    BY <2>8 DEF Await
  <2>9. CASE Check(t)
    BY <2>9 DEF Check, AtSafeSpot, WaitingAtSafeSpot
  <2>10. CASE Resume(t)
    BY <2>10 DEF Resume
  <2>11. CASE Resumed(t)
    BY <2>11 DEF Resumed
  <2>12. CASE Yield(t)
    BY <2>12 DEF Yield
  <2>13. CASE GiveWay(t)
    BY <2>13 DEF GiveWay, Adjust
  <2>14. CASE Relock(t)
    BY <2>14 DEF Relock
  <2>15. CASE Settle(t)
    BY <2>15 DEF Settle, Adjust
  <2>16. CASE Terminate(t)
    BY <2>16 DEF Terminate, Signal
  <2>17. CASE AwaitEnd(t)
    BY <2>17 DEF AwaitEnd
  <2>18. CASE Clean(t)
    BY <2>18 DEF Clean
  <2>19. CASE CheckWait(t)
    BY <2>19 DEF CheckWait
  <2>20. CASE Give(t)
    BY <2>20 DEF Give
  <2>21. CASE LeaveSafeSpot(t)
    BY <2>21 DEF LeaveSafeSpot
  <2>22. CASE Regain(t)
    BY <2>22 DEF Regain
  <2>23. CASE Take(t)
    BY <2>23 DEF Take
  <2>24. CASE RelockSafe(t)
    BY <2>24 DEF RelockSafe
  <2>25. CASE Reclaim(t)
    BY <2>25 DEF Reclaim, Adjust
  <2> QED
    BY <1>2, <2>1, <2>2, <2>3, <2>4, <2>5, <2>6, <2>7, <2>8, <2>9, <2>10,
       <2>11, <2>12, <2>13, <2>14, <2>15, <2>16, <2>17, <2>18, <2>19, <2>20,
       <2>21, <2>22, <2>23, <2>24, <2>25 DEF Synch
<1>3. ASSUME NEW t \in Thread, Handle(t) PROVE \A w \in Thread : SignalsOK(w)'
  <2>1. CASE Deliver(t)
    BY <2>1 DEF Deliver
  <2>2. CASE Wake(t)
    BY <2>2 DEF Wake
  <2>3. CASE Return(t)
    BY <2>3 DEF Return
  <2> QED
    BY <1>3, <2>1, <2>2, <2>3 DEF Handle
<1>4. ASSUME NEW t \in Thread, Decide(t) PROVE \A w \in Thread : SignalsOK(w)'
  <2>1. CASE EnterCache(t)
    BY <2>1 DEF EnterCache
  <2>2. CASE LeaveCache(t)
    BY <2>2 DEF LeaveCache
  <2>3. CASE Exit(t)
    BY <2>3 DEF Exit
  <2>4. CASE AppSignal(t)
    BY <2>4 DEF AppSignal, Signal
  <2>5. CASE ExitGroup(t)
    BY <2>5 DEF ExitGroup
  <2>6. CASE Abandon(t)
    BY <2>6 DEF Abandon
  <2> QED
    BY <1>4, <2>1, <2>2, <2>3, <2>4, <2>5, <2>6 DEF Decide
<1> QED
  BY <1>1, <1>2, <1>3, <1>4 DEF Next

LEMMA DoneStep ==
  ASSUME TypeOK, ControlOK, DoneOK, [Next]_vars
  PROVE  DoneOK'
<1> USE DEF TypeOK, Set, Reset, From, ControlOK, TargetsOK, Idle, Running,
            StageOK, DoneOK, Passed, locals, kernel, ostd, tsd, locks, history
<1>1. CASE UNCHANGED vars
  BY <1>1 DEF vars
<1>2. ASSUME NEW t \in Thread, Synch(t) PROVE DoneOK'
  <2>1. CASE LockInitexit(t)
    BY <2>1 DEF LockInitexit
  <2>2. CASE NextThread(t)
    BY <2>2 DEF NextThread
  <2>3. CASE AllDone(t)
    BY <2>3 DEF AllDone
  <2>4. CASE EndGroup(t)
    BY <2>4 DEF EndGroup
  <2>5. CASE Notify(t)
    BY <2>5 DEF Notify, Adjust
  <2>6. CASE Suspend(t)
    BY <2>6 DEF Suspend, Signal
  <2>7. CASE SuspendFails(t)
    BY <2>7 DEF SuspendFails, Adjust
  <2>8. CASE Await(t)
    BY <2>8 DEF Await
  <2>9. CASE Check(t)
    BY <2>9 DEF Check, AtSafeSpot, WaitingAtSafeSpot
  <2>10. CASE Resume(t)
    BY <2>10 DEF Resume
  <2>11. CASE Resumed(t)
    BY <2>11 DEF Resumed
  <2>12. CASE Yield(t)
    BY <2>12 DEF Yield
  <2>13. CASE GiveWay(t)
    BY <2>13 DEF GiveWay, Adjust
  <2>14. CASE Relock(t)
    BY <2>14 DEF Relock
  <2>15. CASE Settle(t)
    BY <2>15 DEF Settle, Adjust
  <2>16. CASE Terminate(t)
    BY <2>16 DEF Terminate, Signal
  <2>17. CASE AwaitEnd(t)
    BY <2>17 DEF AwaitEnd
  <2>18. CASE Clean(t)
    BY <2>18 DEF Clean
  <2>19. CASE CheckWait(t)
    BY <2>19 DEF CheckWait
  <2>20. CASE Give(t)
    BY <2>20 DEF Give
  <2>21. CASE LeaveSafeSpot(t)
    BY <2>21 DEF LeaveSafeSpot
  <2>22. CASE Regain(t)
    BY <2>22 DEF Regain
  <2>23. CASE Take(t)
    BY <2>23 DEF Take
  <2>24. CASE RelockSafe(t)
    BY <2>24 DEF RelockSafe
  <2>25. CASE Reclaim(t)
    BY <2>25 DEF Reclaim, Adjust
  <2> QED
    BY <1>2, <2>1, <2>2, <2>3, <2>4, <2>5, <2>6, <2>7, <2>8, <2>9, <2>10,
       <2>11, <2>12, <2>13, <2>14, <2>15, <2>16, <2>17, <2>18, <2>19, <2>20,
       <2>21, <2>22, <2>23, <2>24, <2>25 DEF Synch
<1>3. ASSUME NEW t \in Thread, Handle(t) PROVE DoneOK'
  <2>1. CASE Deliver(t)
    BY <2>1 DEF Deliver
  <2>2. CASE Wake(t)
    BY <2>2 DEF Wake
  <2>3. CASE Return(t)
    BY <2>3 DEF Return
  <2> QED
    BY <1>3, <2>1, <2>2, <2>3 DEF Handle
<1>4. ASSUME NEW t \in Thread, Decide(t) PROVE DoneOK'
  <2>1. CASE EnterCache(t)
    BY <2>1 DEF EnterCache
  <2>2. CASE LeaveCache(t)
    BY <2>2 DEF LeaveCache
  <2>3. CASE Exit(t)
    BY <2>3 DEF Exit
  <2>4. CASE AppSignal(t)
    BY <2>4 DEF AppSignal, Signal
  <2>5. CASE ExitGroup(t)
    BY <2>5 DEF ExitGroup
  <2>6. CASE Abandon(t)
    BY <2>6 DEF Abandon
  <2> QED
    BY <1>4, <2>1, <2>2, <2>3, <2>4, <2>5, <2>6 DEF Decide
<1> QED
  BY <1>1, <1>2, <1>3, <1>4 DEF Next

(* A thread claims another one ... *)
LEMMA Claimed ==
  ASSUME TypeOK, PendingExact, NEW t \in Thread, tgt[t] \in Thread,
         pc[t] \notin Claiming, pc'[t] \in Claiming,
         \A v \in Thread \ {t} : pc'[v] = pc[v],
         UNCHANGED <<tgt, abandoned>>,
         pending_synch_count' =
            [pending_synch_count EXCEPT ![tgt[t]] = pending_synch_count[tgt[t]] + 1]
  PROVE  PendingExact'
<1> SUFFICES ASSUME NEW u \in Thread
             PROVE  pending_synch_count'[u] = abandoned[u] + Cardinality(Claims(u)')
  BY DEF PendingExact, Claims
<1>1. IsFiniteSet(Claims(u)) /\ Cardinality(Claims(u)) \in Nat
  BY ThreadAssumption, FS_Subset, FS_CardinalityType DEF Claims
<1>2. /\ pending_synch_count[u] = abandoned[u] + Cardinality(Claims(u))
      /\ abandoned[u] \in Nat
  BY DEF PendingExact, Claims, TypeOK
<1>3. CASE u = tgt[t]
  <2>1. Claims(u)' = Claims(u) \cup {t} /\ t \notin Claims(u)
    BY <1>3 DEF Claims
  <2>2. Cardinality(Claims(u) \cup {t}) = Cardinality(Claims(u)) + 1
    BY <1>1, <2>1, FS_AddElement
  <2>3. pending_synch_count'[u] = pending_synch_count[u] + 1
    BY <1>3 DEF TypeOK
  <2> QED
    BY <1>1, <1>2, <2>1, <2>2, <2>3
<1>4. CASE u # tgt[t]
  <2>1. Claims(u)' = Claims(u)
    BY <1>4 DEF Claims
  <2>2. pending_synch_count'[u] = pending_synch_count[u]
    BY <1>4 DEF TypeOK
  <2> QED
    BY <1>2, <2>1, <2>2
<1> QED
  BY <1>3, <1>4

(* ... and gives its claim up, or takes it with it. *)
LEMMA Unclaimed ==
  ASSUME TypeOK, PendingExact, NEW t \in Thread, tgt[t] \in Thread,
         pc[t] \in Claiming, pc'[t] \notin Claiming,
         \A v \in Thread \ {t} : pc'[v] = pc[v],
         UNCHANGED tgt,
         \/ /\ pending_synch_count' =
                 [pending_synch_count EXCEPT ![tgt[t]] = pending_synch_count[tgt[t]] + -1]
            /\ UNCHANGED abandoned
         \/ /\ abandoned' = [abandoned EXCEPT ![tgt[t]] = abandoned[tgt[t]] + 1]
            /\ UNCHANGED pending_synch_count
  PROVE  PendingExact'
<1> SUFFICES ASSUME NEW u \in Thread
             PROVE  pending_synch_count'[u] = abandoned'[u] + Cardinality(Claims(u)')
  BY DEF PendingExact, Claims
<1>1. IsFiniteSet(Claims(u)) /\ Cardinality(Claims(u)) \in Nat
  BY ThreadAssumption, FS_Subset, FS_CardinalityType DEF Claims
<1>2. /\ pending_synch_count[u] = abandoned[u] + Cardinality(Claims(u))
      /\ abandoned[u] \in Nat
  BY DEF PendingExact, Claims, TypeOK
<1>3. CASE u = tgt[t]
  <2>1. Claims(u)' = Claims(u) \ {t} /\ t \in Claims(u)
    BY <1>3 DEF Claims
  <2>2. Cardinality(Claims(u) \ {t}) = Cardinality(Claims(u)) - 1
    BY <1>1, <2>1, FS_RemoveElement
  <2>3. \/ /\ pending_synch_count'[u] = pending_synch_count[u] + -1
           /\ abandoned'[u] = abandoned[u]
        \/ /\ pending_synch_count'[u] = pending_synch_count[u]
           /\ abandoned'[u] = abandoned[u] + 1
    BY <1>3 DEF TypeOK
  <2> QED
    BY <1>1, <1>2, <2>1, <2>2, <2>3
<1>4. CASE u # tgt[t]
  <2>1. Claims(u)' = Claims(u)
    BY <1>4 DEF Claims
  <2>2. pending_synch_count'[u] = pending_synch_count[u] /\ abandoned'[u] = abandoned[u]
    BY <1>4 DEF TypeOK
  <2> QED
    BY <1>2, <2>1, <2>2
<1> QED
  BY <1>3, <1>4

(* The other steps change no claim. *)
LEMMA ClaimsKept ==
  ASSUME PendingExact, UNCHANGED <<pending_synch_count, abandoned>>,
         \A v \in Thread : /\ pc'[v] \in Claiming <=> pc[v] \in Claiming
                           /\ pc[v] \in Claiming => tgt'[v] = tgt[v]
  PROVE  PendingExact'
<1>1. \A u \in Thread : Claims(u)' = Claims(u)
  BY DEF Claims
<1> QED
  BY <1>1 DEF PendingExact, Claims

LEMMA PendingStep ==
  ASSUME TypeOK, PendingExact, ControlOK, [Next]_vars
  PROVE  PendingExact'
<1> USE DEF TypeOK, Set, Reset, From, ControlOK, TargetsOK, Idle,
            Claiming, locals, kernel, ostd, tsd, locks, history
<1>1. CASE UNCHANGED vars
  BY <1>1, ClaimsKept DEF vars
<1>2. ASSUME NEW t \in Thread, Synch(t) PROVE PendingExact'
  <2>1. CASE LockInitexit(t)
    BY <2>1, ClaimsKept DEF LockInitexit
  <2>2. CASE NextThread(t)
    BY <2>2, ClaimsKept DEF NextThread
  <2>3. CASE AllDone(t)
    BY <2>3, ClaimsKept DEF AllDone
  <2>4. CASE EndGroup(t)
    BY <2>4, ClaimsKept DEF EndGroup
  <2>5. CASE Notify(t)
    <3>1. /\ pending_synch_count' =
                [pending_synch_count EXCEPT ![tgt[t]] = pending_synch_count[tgt[t]] + 1]
          /\ UNCHANGED <<tgt, abandoned>>
      BY <2>5 DEF Notify, Adjust
    <3>2. /\ pc[t] \notin Claiming /\ pc'[t] \in Claiming
          /\ \A v \in Thread \ {t} : pc'[v] = pc[v]
      BY <2>5 DEF Notify, Claiming
    <3>3. tgt[t] \in Thread
      BY <2>5 DEF Notify
    <3> QED
      BY <3>1, <3>2, <3>3, Claimed
  <2>6. CASE Suspend(t)
    BY <2>6, ClaimsKept DEF Suspend, Signal
  <2>7. CASE SuspendFails(t)
    <3>1. /\ pending_synch_count' =
                [pending_synch_count EXCEPT ![tgt[t]] = pending_synch_count[tgt[t]] + -1]
          /\ UNCHANGED <<tgt, abandoned>>
      BY <2>7 DEF SuspendFails, Adjust
    <3>2. /\ pc[t] \in Claiming /\ pc'[t] \notin Claiming
          /\ \A v \in Thread \ {t} : pc'[v] = pc[v]
      BY <2>7 DEF SuspendFails, Claiming
    <3>3. tgt[t] \in Thread
      BY <2>7 DEF SuspendFails
    <3> QED
      BY <3>1, <3>2, <3>3, Unclaimed
  <2>8. CASE Await(t)
    BY <2>8, ClaimsKept DEF Await
  <2>9. CASE Check(t)
    BY <2>9, ClaimsKept DEF Check, AtSafeSpot, WaitingAtSafeSpot
  <2>10. CASE Resume(t)
    BY <2>10, ClaimsKept DEF Resume
  <2>11. CASE Resumed(t)
    BY <2>11, ClaimsKept DEF Resumed
  <2>12. CASE Yield(t)
    BY <2>12, ClaimsKept DEF Yield
  <2>13. CASE GiveWay(t)
    <3>1. /\ pending_synch_count' =
                [pending_synch_count EXCEPT ![tgt[t]] = pending_synch_count[tgt[t]] + -1]
          /\ UNCHANGED <<tgt, abandoned>>
      BY <2>13 DEF GiveWay, Adjust
    <3>2. /\ pc[t] \in Claiming /\ pc'[t] \notin Claiming
          /\ \A v \in Thread \ {t} : pc'[v] = pc[v]
      BY <2>13 DEF GiveWay, Claiming
    <3>3. tgt[t] \in Thread
      BY <2>13 DEF GiveWay
    <3> QED
      BY <3>1, <3>2, <3>3, Unclaimed
  <2>14. CASE Relock(t)
    BY <2>14, ClaimsKept DEF Relock
  <2>15. CASE Settle(t)
    <3>1. /\ pending_synch_count' =
                [pending_synch_count EXCEPT ![tgt[t]] = pending_synch_count[tgt[t]] + -1]
          /\ UNCHANGED <<tgt, abandoned>>
      BY <2>15 DEF Settle, Adjust
    <3>2. /\ pc[t] \in Claiming /\ pc'[t] \notin Claiming
          /\ \A v \in Thread \ {t} : pc'[v] = pc[v]
      BY <2>15 DEF Settle, Claiming
    <3>3. tgt[t] \in Thread
      BY <2>15 DEF Settle
    <3> QED
      BY <3>1, <3>2, <3>3, Unclaimed
  <2>16. CASE Terminate(t)
    BY <2>16, ClaimsKept DEF Terminate, Signal
  <2>17. CASE AwaitEnd(t)
    BY <2>17, ClaimsKept DEF AwaitEnd
  <2>18. CASE Clean(t)
    BY <2>18, ClaimsKept DEF Clean
  <2>19. CASE CheckWait(t)
    BY <2>19, ClaimsKept DEF CheckWait
  <2>20. CASE Give(t)
    BY <2>20, ClaimsKept DEF Give
  <2>21. CASE LeaveSafeSpot(t)
    BY <2>21, ClaimsKept DEF LeaveSafeSpot
  <2>22. CASE Regain(t)
    BY <2>22, ClaimsKept DEF Regain
  <2>23. CASE Take(t)
    BY <2>23, ClaimsKept DEF Take
  <2>24. CASE RelockSafe(t)
    BY <2>24, ClaimsKept DEF RelockSafe
  <2>25. CASE Reclaim(t)
    <3>1. /\ pending_synch_count' =
                [pending_synch_count EXCEPT ![tgt[t]] = pending_synch_count[tgt[t]] + 1]
          /\ UNCHANGED <<tgt, abandoned>>
      BY <2>25 DEF Reclaim, Adjust
    <3>2. /\ pc[t] \notin Claiming /\ pc'[t] \in Claiming
          /\ \A v \in Thread \ {t} : pc'[v] = pc[v]
      BY <2>25 DEF Reclaim, Claiming
    <3>3. tgt[t] \in Thread
      BY <2>25 DEF Reclaim
    <3> QED
      BY <3>1, <3>2, <3>3, Claimed
  <2> QED
    BY <1>2, <2>1, <2>2, <2>3, <2>4, <2>5, <2>6, <2>7, <2>8, <2>9, <2>10,
       <2>11, <2>12, <2>13, <2>14, <2>15, <2>16, <2>17, <2>18, <2>19, <2>20,
       <2>21, <2>22, <2>23, <2>24, <2>25 DEF Synch
<1>3. ASSUME NEW t \in Thread, Handle(t) PROVE PendingExact'
  <2>1. CASE Deliver(t)
    BY <2>1, ClaimsKept DEF Deliver
  <2>2. CASE Wake(t)
    BY <2>2, ClaimsKept DEF Wake
  <2>3. CASE Return(t)
    BY <2>3, ClaimsKept DEF Return
  <2> QED
    BY <1>3, <2>1, <2>2, <2>3 DEF Handle
<1>4. ASSUME NEW t \in Thread, Decide(t) PROVE PendingExact'
  <2>1. CASE EnterCache(t)
    BY <2>1, ClaimsKept DEF EnterCache
  <2>2. CASE LeaveCache(t)
    BY <2>2, ClaimsKept DEF LeaveCache
  <2>3. CASE Exit(t)
    BY <2>3, ClaimsKept DEF Exit
  <2>4. CASE AppSignal(t)
    BY <2>4, ClaimsKept DEF AppSignal, Signal
  <2>5. CASE ExitGroup(t)
    BY <2>5, ClaimsKept DEF ExitGroup
  <2>6. CASE Abandon(t)
    <3>1. /\ abandoned' = [abandoned EXCEPT ![tgt[t]] = abandoned[tgt[t]] + 1]
          /\ UNCHANGED <<tgt, pending_synch_count>>
      BY <2>6 DEF Abandon
    <3>2. /\ pc[t] \in Claiming /\ pc'[t] \notin Claiming
          /\ \A v \in Thread \ {t} : pc'[v] = pc[v]
      BY <2>6 DEF Abandon, Claiming
    <3>3. tgt[t] \in Thread
      BY <2>6 DEF Abandon
    <3> QED
      BY <3>1, <3>2, <3>3, Unclaimed
  <2> QED
    BY <1>4, <2>1, <2>2, <2>3, <2>4, <2>5, <2>6 DEF Decide
<1> QED
  BY <1>1, <1>2, <1>3, <1>4 DEF Next

-----------------------------------------------------------------------------
(* Theorems *)

LEMMA SynchNextIInv == SynchIInv /\ [Next]_vars => SynchIInv'
<1> SUFFICES ASSUME SynchIInv, [Next]_vars PROVE SynchIInv'
  OBVIOUS
<1>0. /\ TypeOK /\ PendingExact /\ ControlOK /\ DoneOK
      /\ \A u \in Thread : SuspensionOK(u) /\ SignalsOK(u)
  BY DEF SynchIInv
<1>1. TypeOK' /\ PendingExact'
  BY <1>0, TypeStep, PendingStep
<1>2. ControlOK'
  BY <1>0, LocksStep, TargetsStep, StageStep DEF ControlOK
<1>3. \A u \in Thread : SuspensionOK(u)' /\ SignalsOK(u)'
  BY <1>0, SuspensionStep, SignalsStep
<1>4. DoneOK'
  BY <1>0, DoneStep
<1> QED
  BY <1>1, <1>2, <1>3, <1>4 DEF SynchIInv

(* The two sides of every suspension agree, in every reachable state.      *)
THEOREM SynchInvariance == Spec => []SynchIInv
<1>1. Init => SynchIInv
  BY SynchInitIInv
<1>2. SynchIInv /\ [Next]_vars => SynchIInv'
  BY SynchNextIInv
<1> QED
  BY <1>1, <1>2, PTL DEF Spec

(* TypeOK: no count goes below zero, so thread_resume never lets go of     *)
(* what was not suspended, nor adjust_wait_at_safe_spot of what was not    *)
(* claimed.                                                                *)
THEOREM SynchTypeCorrect == Spec => []TypeOK
<1>1. SynchIInv => TypeOK
  BY DEF SynchIInv
<1> QED
  BY <1>1, SynchInvariance, PTL

(* PendingExact: adjust_wait_at_safe_spot is called as often with 1 as     *)
(* with -1, but for the goto of a synch_with_thread that gives up.         *)
THEOREM ClaimsCounted == Spec => []PendingExact
<1>1. SynchIInv => PendingExact
  BY DEF SynchIInv
<1> QED
  BY <1>1, SynchInvariance, PTL

(* EndedWhenSafe: what thread_terminate is called for has stopped where it *)
(* holds no lock, and stays there.                                         *)
THEOREM EndedSafely == Spec => []EndedWhenSafe
<1>1. SynchIInv => EndedWhenSafe
  <2> SUFFICES ASSUME SynchIInv, NEW t \in Thread,
                      pc[t] \in {"settle", "terminate", "await_end"}
               PROVE  /\ suspended[tgt[t]] /\ handler[tgt[t]] = "spin"
                      /\ pc[tgt[t]] \in {"cache", "safe", "regain"}
                      /\ thread_initexit_lock # tgt[t] /\ ~ synch_lock[tgt[t]]
    BY DEF EndedWhenSafe
  <2>1. tgt[t] \in Thread
    BY DEF SynchIInv, ControlOK, TargetsOK, Idle
  <2>2. suspended[tgt[t]] /\ pc[tgt[t]] \in {"cache", "safe", "regain"}
    BY DEF SynchIInv, ControlOK, StageOK
  <2>3. handler[tgt[t]] = "spin"
    BY <2>1, <2>2 DEF SynchIInv, SuspensionOK
  <2>4. thread_initexit_lock # tgt[t] /\ ~ synch_lock[tgt[t]]
    BY <2>1, <2>2 DEF SynchIInv, ControlOK, LocksOK, Locked
  <2> QED
    BY <2>2, <2>3, <2>4
<1> QED
  BY <1>1, SynchInvariance, PTL

(* SuspendedAfresh: thread_suspend finds no flag of an earlier suspension, *)
(* so it cannot take one for the answer to its signal.                     *)
THEOREM AfreshSuspended == Spec => []SuspendedAfresh
<1>1. SynchIInv => SuspendedAfresh
  <2> SUFFICES ASSUME SynchIInv, NEW t \in Thread, pc[t] = "suspend",
                      suspend_count[tgt[t]] = 0
               PROVE  /\ ~ suspended[tgt[t]] /\ ~ wakeup[tgt[t]] /\ ~ resumed[tgt[t]]
                      /\ handler[tgt[t]] = "none"
    BY DEF SuspendedAfresh
  <2>1. tgt[t] \in Thread /\ ControlOK
    BY DEF SynchIInv, ControlOK, TargetsOK, Idle
  <2>2. ~ wakeup[tgt[t]]
    <3>1. ASSUME NEW v \in Thread, pc[v] = "resuming" PROVE FALSE
      BY <2>1, <3>1, OneAtATime DEF Locked
    <3> QED
      BY <2>1, <3>1 DEF SynchIInv, SuspensionOK
  <2> QED
    BY <2>1, <2>2 DEF SynchIInv, SuspensionOK
<1> QED
  BY <1>1, SynchInvariance, PTL

(* AppSignalsOnly: handle_suspend_signal passes on to the application no   *)
(* signal that was sent to suspend or to end the thread.                   *)
THEOREM OwnSignalsOnly == Spec => []AppSignalsOnly
<1>1. SynchIInv => AppSignalsOnly
  BY DEF SynchIInv, SignalsOK, AppSignalsOnly
<1> QED
  BY <1>1, SynchInvariance, PTL

(* ExitsAlone: handle_exit reaches the system call with every other thread *)
(* ended and cleaned up, but for those that synch_with_thread gave up.     *)
THEOREM LastOneExits == Spec => []ExitsAlone
<1>1. SynchIInv => ExitsAlone
  BY DEF SynchIInv, DoneOK, Passed, Idle, ExitsAlone
<1> QED
  BY <1>1, SynchInvariance, PTL

-----------------------------------------------------------------------------
(* The abstract suspension *)

(* A thread that goes on with its own code, and holds or lets go of        *)
(* nothing, moves.                                                         *)
LEMMA Moves ==
  ASSUME TypeOK, NEW t \in Thread, NEW l, NEW m, From(t, l, m),
         UNCHANGED <<suspend_count, handler>>
  PROVE  Abstract!Next
<1>1. Abstract!Move(t)
  BY DEF From, Running, TypeOK, Abstract!Move, Abstract!Holder
<1> QED
  BY <1>1 DEF Abstract!Next

LEMMA SuspensionRefined ==
  ASSUME TypeOK, ControlOK, \A u \in Thread : SuspensionOK(u), [Next]_vars
  PROVE  [Abstract!Next]_Abstract!suspension
<1> USE DEF ostd
<1>1. CASE UNCHANGED vars
  BY <1>1 DEF vars, Abstract!suspension
<1>2. ASSUME NEW t \in Thread, Synch(t) PROVE [Abstract!Next]_Abstract!suspension
  <2>1. CASE LockInitexit(t)
    BY <2>1, Moves DEF LockInitexit
  <2>2. CASE NextThread(t)
    BY <2>2, Moves DEF NextThread
  <2>3. CASE AllDone(t)
    BY <2>3, Moves DEF AllDone
  <2>4. CASE EndGroup(t)
    BY <2>4 DEF EndGroup, Abstract!suspension
  <2>5. CASE Notify(t)
    BY <2>5, Moves DEF Notify
  <2>6. CASE Suspend(t)
    <3>1. tgt[t] \in Thread \ {t}
      BY <2>6 DEF Suspend, From, ControlOK, TargetsOK, Idle
    <3>2. /\ Running(t) /\ \A v \in Thread \ {t} : pc'[v] = pc[v]
          /\ suspend_count' = [suspend_count EXCEPT ![tgt[t]] = suspend_count[tgt[t]] + 1]
          /\ UNCHANGED handler
      BY <2>6 DEF Suspend, From, TypeOK
    <3>3. Abstract!Hold(t, tgt[t])
      BY <3>1, <3>2 DEF Running, TypeOK, Abstract!Hold, Abstract!Holder
    <3> QED
      BY <3>1, <3>3 DEF Abstract!Next
  <2>7. CASE SuspendFails(t)
    BY <2>7, Moves DEF SuspendFails
  <2>8. CASE Await(t)
    BY <2>8, Moves DEF Await
  <2>9. CASE Check(t)
    BY <2>9, Moves DEF Check
  <2>10. CASE Resume(t)
    <3>1. /\ tgt[t] \in Thread \ {t} /\ suspend_count[tgt[t]] > 0
      BY <2>10 DEF Resume, From, ControlOK, TargetsOK, StageOK, Idle
    <3>2. /\ Running(t) /\ \A v \in Thread \ {t} : pc'[v] = pc[v]
          /\ suspend_count' = [suspend_count EXCEPT ![tgt[t]] = suspend_count[tgt[t]] - 1]
          /\ UNCHANGED handler
      BY <2>10 DEF Resume, From, TypeOK
    <3>3. Abstract!Release(t, tgt[t])
      BY <3>1, <3>2 DEF Running, TypeOK, Abstract!Release, Abstract!Holder
    <3> QED
      BY <3>1, <3>3 DEF Abstract!Next
  <2>11. CASE Resumed(t)
    BY <2>11, Moves DEF Resumed
  <2>12. CASE Yield(t)
    BY <2>12, Moves DEF Yield
  <2>13. CASE GiveWay(t)
    BY <2>13, Moves DEF GiveWay
  <2>14. CASE Relock(t)
    BY <2>14, Moves DEF Relock
  <2>15. CASE Settle(t)
    BY <2>15, Moves DEF Settle
  <2>16. CASE Terminate(t)
    BY <2>16, Moves DEF Terminate
  <2>17. CASE AwaitEnd(t)
    BY <2>17, Moves DEF AwaitEnd
  <2>18. CASE Clean(t)
    BY <2>18, Moves DEF Clean
  <2>19. CASE CheckWait(t)
    BY <2>19, Moves DEF CheckWait
  <2>20. CASE Give(t)
    BY <2>20, Moves DEF Give
  <2>21. CASE LeaveSafeSpot(t)
    BY <2>21, Moves DEF LeaveSafeSpot
  <2>22. CASE Regain(t)
    BY <2>22, Moves DEF Regain
  <2>23. CASE Take(t)
    BY <2>23, Moves DEF Take
  <2>24. CASE RelockSafe(t)
    BY <2>24, Moves DEF RelockSafe
  <2>25. CASE Reclaim(t)
    BY <2>25, Moves DEF Reclaim
  <2> QED
    BY <1>2, <2>1, <2>2, <2>3, <2>4, <2>5, <2>6, <2>7, <2>8, <2>9, <2>10,
       <2>11, <2>12, <2>13, <2>14, <2>15, <2>16, <2>17, <2>18, <2>19, <2>20,
       <2>21, <2>22, <2>23, <2>24, <2>25 DEF Synch
<1>3. ASSUME NEW t \in Thread, Handle(t) PROVE [Abstract!Next]_Abstract!suspension
  <2>1. CASE Deliver(t)
    <3>1. UNCHANGED <<suspend_count, pc>>
      BY <2>1 DEF Deliver
    <3>2. CASE handler' = handler
      BY <3>1, <3>2 DEF Abstract!suspension
    <3>3. CASE handler' = [handler EXCEPT ![t] = "spin"] /\ suspend_count[t] > 0
      <4>1. Abstract!Freeze(t)
        BY <3>1, <3>3 DEF TypeOK, Abstract!Freeze
      <4> QED
        BY <4>1 DEF Abstract!Next
    <3>4. suspend_count[t] # 0 => suspend_count[t] > 0
      BY DEF TypeOK
    <3> QED
      BY <2>1, <3>2, <3>3, <3>4 DEF Deliver
  <2>2. CASE Wake(t)
    <3>1. /\ suspend_count[t] = 0
          /\ handler[t] = "spin" /\ handler' = [handler EXCEPT ![t] = "awake"]
          /\ UNCHANGED <<suspend_count, pc>>
      BY <2>2 DEF Wake, SuspensionOK
    <3>2. Abstract!Thaw(t)
      BY <3>1 DEF TypeOK, Abstract!Thaw
    <3> QED
      BY <3>2 DEF Abstract!Next
  <2>3. CASE Return(t)
    BY <2>3 DEF Return, Abstract!suspension
  <2> QED
    BY <1>3, <2>1, <2>2, <2>3 DEF Handle
<1>4. ASSUME NEW t \in Thread, Decide(t) PROVE [Abstract!Next]_Abstract!suspension
  <2>1. CASE EnterCache(t)
    BY <2>1, Moves DEF EnterCache
  <2>2. CASE LeaveCache(t)
    BY <2>2, Moves DEF LeaveCache
  <2>3. CASE Exit(t)
    BY <2>3 DEF Exit, Abstract!suspension
  <2>4. CASE AppSignal(t)
    BY <2>4 DEF AppSignal, Abstract!suspension
  <2>5. CASE ExitGroup(t)
    BY <2>5, Moves DEF ExitGroup
  <2>6. CASE Abandon(t)
    BY <2>6, Moves DEF Abandon
  <2> QED
    BY <1>4, <2>1, <2>2, <2>3, <2>4, <2>5, <2>6 DEF Decide
<1> QED
  BY <1>1, <1>2, <1>3, <1>4 DEF Next

(* Every step of the code is a step of the abstract suspension, or none:   *)
(* whatever the signals do, a thread is frozen only while it is held.      *)
THEOREM SuspensionImplemented == Spec => ImplementsSuspension
<1>1. Init => Abstract!Init
  BY DEF Init, Zero, Abstract!Init
<1>2. SynchIInv /\ [Next]_vars => [Abstract!Next]_Abstract!suspension
  BY SuspensionRefined DEF SynchIInv
<1> QED
  BY <1>1, <1>2, SynchInvariance, PTL DEF Spec, ImplementsSuspension, Abstract!Spec
=============================================================================
