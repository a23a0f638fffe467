-------------------------- MODULE FlushSynchProofs --------------------------
(***************************************************************************)
(* The flushing protocol is correct for any set of threads and any number  *)
(* of flushes.  The inductive invariant is FlushSynch's HandshakeInv.      *)
(***************************************************************************)
EXTENDS FlushSynch, TLAPS

IInv == TypeOK /\ HandshakeInv

-----------------------------------------------------------------------------
LEMMA InitIInv == Init => IInv
<1> SUFFICES ASSUME Init PROVE IInv
  OBVIOUS
<1>1. TypeOK
  BY DEF Init, TypeOK, Location, AllFalse
<1>2. FlusherOK
  BY NoThreadAssumption
     DEF Init, FlusherOK, Listed, WaitedFor, Flushing
<1>3. ASSUME NEW u \in Thread PROVE ThreadOK(u)
  BY DEF Init, ThreadOK, AllFalse, MayLink, WaitedFor, Held
<1> QED
  BY <1>1, <1>2, <1>3 DEF IInv, HandshakeInv

(* Every step keeps the variables in their sets. *)
LEMMA TypeStep == TypeOK /\ [Next]_vars => TypeOK'
<1> SUFFICES ASSUME TypeOK, [Next]_vars PROVE TypeOK'
  OBVIOUS
<1> USE DEF TypeOK, Location, Goto, Raise, Clear, perThread, events, flush
<1>1. CASE UNCHANGED vars
  BY <1>1 DEF vars
<1>2. ASSUME NEW t \in Thread, Decide(t) PROVE TypeOK'
  <2>1. CASE ThreadInit(t)
    BY <2>1 DEF ThreadInit
  <2>2. CASE StartSyscall(t)
    BY <2>2 DEF StartSyscall
  <2>3. CASE EndSyscall(t)
    BY <2>3 DEF EndSyscall
  <2>4. CASE ExitSyscall(t)
    BY <2>4 DEF ExitSyscall
  <2>5. CASE EnterCouldBeLinking(t)
    BY <2>5 DEF EnterCouldBeLinking, TryCouldBeLinking
  <2>6. CASE StartFlush(t)
    BY <2>6 DEF StartFlush, Listed
  <2>7. ASSUME NEW u \in Thread, OtherThreadExit(t, u) PROVE TypeOK'
    BY <2>7 DEF OtherThreadExit
  <2> QED
    BY <1>2, <2>1, <2>2, <2>3, <2>4, <2>5, <2>6, <2>7 DEF Decide
<1>3. ASSUME NEW t \in Thread, Linking(t) PROVE TypeOK'
  <2>1. CASE RecheckCouldBeLinking(t)
    BY <2>1 DEF RecheckCouldBeLinking, TryCouldBeLinking
  <2>2. CASE WakeAllUnlink(t)
    BY <2>2 DEF WakeAllUnlink
  <2>3. CASE EnterNoLinking(t)
    BY <2>3 DEF EnterNoLinking, TryNoLinking
  <2>4. CASE RecheckNoLinking(t)
    BY <2>4 DEF RecheckNoLinking, TryNoLinking
  <2>5. CASE SignalFlusher(t)
    BY <2>5 DEF SignalFlusher
  <2>6. CASE WakeWithUnlink(t)
    BY <2>6 DEF WakeWithUnlink
  <2> QED
    BY <1>3, <2>1, <2>2, <2>3, <2>4, <2>5, <2>6 DEF Linking
<1>4. ASSUME NEW t \in Thread, Flush(t) PROVE TypeOK'
  <2>1. ASSUME NEW u \in Thread, SynchThread(t, u) PROVE TypeOK'
    BY <2>1 DEF SynchThread, Stage1Body
  <2>2. ASSUME NEW u \in Thread, WaitForThread(t, u) PROVE TypeOK'
    BY <2>2 DEF WaitForThread
  <2>3. ASSUME NEW u \in Thread, EndSynch(t, u) PROVE TypeOK'
    BY <2>3 DEF EndSynch
  <2>4. CASE WakeUnlink(t)
    BY <2>4 DEF WakeUnlink
  <2>5. CASE SynchedThread(t)
    BY <2>5 DEF SynchedThread, Stage1Body
  <2>6. CASE UnlinkShared(t)
    BY <2>6 DEF UnlinkShared, Listed
  <2>7. CASE FinishFlush(t)
    BY <2>7 DEF FinishFlush
  <2> QED
    BY <1>4, <2>1, <2>2, <2>3, <2>4, <2>5, <2>6, <2>7 DEF Flush
<1> QED
  BY <1>1, <1>2, <1>3, <1>4 DEF Next

(* Every step keeps the handshake in step. *)
LEMMA HandshakeStep == IInv /\ [Next]_vars => HandshakeInv'
<1> SUFFICES ASSUME IInv, [Next]_vars PROVE HandshakeInv'
  OBVIOUS
<1> USE NoThreadAssumption
    DEF IInv, TypeOK, HandshakeInv, FlusherOK, ThreadOK, MayLink, Flushing,
        WaitedFor, Held, Listed, Goto, Raise, Clear, perThread, events, flush
<1>1. CASE UNCHANGED vars
  BY <1>1 DEF vars
<1>2. ASSUME NEW t \in Thread, Decide(t) PROVE HandshakeInv'
  <2>1. CASE ThreadInit(t)
    BY <2>1 DEF ThreadInit
  <2>2. CASE StartSyscall(t)
    BY <2>2 DEF StartSyscall
  <2>3. CASE EndSyscall(t)
    BY <2>3 DEF EndSyscall
  <2>4. CASE ExitSyscall(t)
    BY <2>4 DEF ExitSyscall
  <2>5. CASE EnterCouldBeLinking(t)
    BY <2>5 DEF EnterCouldBeLinking, TryCouldBeLinking
  <2>6. CASE StartFlush(t)
    BY <2>6 DEF StartFlush
  <2>7. ASSUME NEW v \in Thread, OtherThreadExit(t, v) PROVE HandshakeInv'
    BY <2>7 DEF OtherThreadExit
  <2> QED
    BY <1>2, <2>1, <2>2, <2>3, <2>4, <2>5, <2>6, <2>7 DEF Decide
<1>3. ASSUME NEW t \in Thread, Linking(t) PROVE HandshakeInv'
  <2>1. CASE RecheckCouldBeLinking(t)
    BY <2>1 DEF RecheckCouldBeLinking, TryCouldBeLinking
  <2>2. CASE WakeAllUnlink(t)
    BY <2>2 DEF WakeAllUnlink
  <2>3. CASE EnterNoLinking(t)
    BY <2>3 DEF EnterNoLinking, TryNoLinking
  <2>4. CASE RecheckNoLinking(t)
    BY <2>4 DEF RecheckNoLinking, TryNoLinking
  <2>5. CASE SignalFlusher(t)
    BY <2>5 DEF SignalFlusher
  <2>6. CASE WakeWithUnlink(t)
    BY <2>6 DEF WakeWithUnlink
  <2> QED
    BY <1>3, <2>1, <2>2, <2>3, <2>4, <2>5, <2>6 DEF Linking
<1>4. ASSUME NEW t \in Thread, Flush(t) PROVE HandshakeInv'
  <2>1. ASSUME NEW v \in Thread, SynchThread(t, v) PROVE HandshakeInv'
    BY <2>1 DEF SynchThread, Stage1Body
  <2>2. ASSUME NEW v \in Thread, WaitForThread(t, v) PROVE HandshakeInv'
    BY <2>2 DEF WaitForThread
  <2>3. ASSUME NEW v \in Thread, EndSynch(t, v) PROVE HandshakeInv'
    BY <2>3 DEF EndSynch
  <2>4. CASE WakeUnlink(t)
    BY <2>4 DEF WakeUnlink
  <2>5. CASE SynchedThread(t)
    BY <2>5 DEF SynchedThread, Stage1Body
  <2>6. CASE UnlinkShared(t)
    BY <2>6 DEF UnlinkShared
  <2>7. CASE FinishFlush(t)
    BY <2>7 DEF FinishFlush
  <2> QED
    BY <1>4, <2>1, <2>2, <2>3, <2>4, <2>5, <2>6, <2>7 DEF Flush
<1> QED
  BY <1>1, <1>2, <1>3, <1>4 DEF Next

-----------------------------------------------------------------------------
(* The inductive invariant holds of every behaviour. *)
THEOREM Invariance == Spec => []IInv
<1>1. IInv /\ [Next]_vars => IInv'
  BY TypeStep, HandshakeStep DEF IInv
<1> QED
  BY <1>1, InitIInv, PTL DEF Spec

(* The variables of the protocol stay in their sets. *)
THEOREM TypeCorrect == Spec => []TypeOK
<1>1. IInv => TypeOK
  BY DEF IInv
<1> QED
  BY <1>1, Invariance, PTL

(* The three booleans, the events and the places of the threads and of the *)
(* flusher agree at every step of the handshake.                           *)
THEOREM Handshake == Spec => []HandshakeInv
<1>1. IInv => HandshakeInv
  BY DEF IInv
<1> QED
  BY <1>1, Invariance, PTL

(* "After stage 1 no thread is couldbelinking() until the synchronization  *)
(* release in stage 3."                                                    *)
THEOREM Frozen == Spec => []FrozenDuringFlush
<1>1. IInv => FrozenDuringFlush
  <2> SUFFICES ASSUME IInv, NEW u \in Held PROVE pc[u] # "linking"
    BY DEF FrozenDuringFlush
  <2>1. u \in Thread /\ ThreadOK(u)
    BY DEF IInv, HandshakeInv, Held
  <2>2. CASE could_be_linking[u]
    BY <2>1, <2>2 DEF ThreadOK
  <2>3. CASE ~ could_be_linking[u]
    BY <2>1, <2>3 DEF ThreadOK, MayLink
  <2> QED
    BY <2>2, <2>3
<1> QED
  BY <1>1, Invariance, PTL

(* No answer to an earlier flush is left for a later one to take for its   *)
(* own.                                                                    *)
THEOREM Fresh == Spec => []NoStaleAnswer
<1>1. IInv => NoStaleAnswer
  BY DEF IInv, HandshakeInv, ThreadOK, WaitedFor, NoStaleAnswer
<1> QED
  BY <1>1, Invariance, PTL

-----------------------------------------------------------------------------
(* A thread that moves between two places that are neither DynamoRIO's     *)
(* linking code nor the flusher's is nobody's business.                    *)
LEMMA Elsewhere ==
  ASSUME IInv, NEW t \in Thread, NEW l, pc' = [pc EXCEPT ![t] = l],
         pc[t] \notin Flushing \cup {"unborn", "linking"},
         l \notin Flushing \cup {"unborn", "linking"},
         UNCHANGED flush
  PROVE  UNCHANGED <<Inside, Held, flusher, flushtime_global>>
<1> USE DEF IInv, TypeOK, HandshakeInv, FlusherOK
<1>1. \A u \in Thread : pc'[u] = IF u = t THEN l ELSE pc[u]
  OBVIOUS
<1>2. Inside' = Inside
  BY <1>1 DEF Inside
<1>3. Listed' = Listed
  BY <1>1 DEF Listed
<1>4. Held' = Held
  <2>1. CASE flusher = NoThread
    BY <2>1 DEF Held, flush
  <2>2. CASE flusher # NoThread
    <3>1. flusher \in Thread /\ flusher # t /\ pc'[flusher] = pc[flusher]
      BY <2>2, <1>1 DEF Flushing
    <3> QED
      BY <3>1, <1>3 DEF Held, flush
  <2> QED
    BY <2>1, <2>2
<1> QED
  BY <1>2, <1>4 DEF flush

(* What a thread enters the linking code with: it was outside, and neither *)
(* the flusher nor held by it.                                             *)
LEMMA Entering ==
  ASSUME IInv, NEW t \in Thread, pc[t] \in {"nolinking", "woken_all"},
         ~ wait_for_unlink[t], pc' = [pc EXCEPT ![t] = "linking"],
         UNCHANGED flush
  PROVE  Gate!Enter(t)
<1> USE DEF IInv, TypeOK, HandshakeInv
<1>1. \A u \in Thread : pc'[u] = IF u = t THEN "linking" ELSE pc[u]
  OBVIOUS
<1>2. Inside' = Inside \cup {t} /\ t \notin Inside
  BY <1>1 DEF Inside
<1>3. ~ could_be_linking[t] /\ t \notin Held
  BY DEF ThreadOK, MayLink
<1>4. flusher # t
  BY DEF FlusherOK, Flushing
<1>5. Listed' = Listed
  BY <1>1 DEF Listed
<1>6. Held' = Held
  BY <1>1, <1>4, <1>5 DEF Held, flush
<1> QED
  BY <1>2, <1>3, <1>6 DEF Gate!Enter, flush

(* Every step of the protocol is a step of the gate or changes none of its *)
(* variables.                                                              *)
LEMMA GateStep ==
  IInv /\ [Next]_vars =>
     Gate!Next \/ UNCHANGED <<Inside, Held, flusher, flushtime_global>>
<1> DEFINE Same == UNCHANGED <<Inside, Held, flusher, flushtime_global>>
<1> SUFFICES ASSUME IInv, [Next]_vars PROVE Gate!Next \/ Same
  OBVIOUS
<1> USE NoThreadAssumption DEF Goto
<1>0. /\ TypeOK /\ FlusherOK
      /\ \A u \in Thread : ThreadOK(u)
  BY DEF IInv, HandshakeInv
<1>1. CASE UNCHANGED vars
  BY <1>1 DEF vars, flush, Inside, Held, Listed
<1>2. ASSUME NEW t \in Thread, Decide(t) PROVE Gate!Next \/ Same
  <2>1. CASE ThreadInit(t)
    <3>1. flusher = NoThread /\ pc' = [pc EXCEPT ![t] = "nolinking"]
          /\ UNCHANGED flush /\ pc[t] = "unborn"
      BY <2>1 DEF ThreadInit
    <3>2. Inside' = Inside
      BY <3>1, <1>0 DEF Inside, TypeOK
    <3> QED
      BY <3>1, <3>2 DEF Held, flush
  <2>2. CASE StartSyscall(t)
    BY <2>2, Elsewhere DEF StartSyscall, Flushing
  <2>3. CASE EndSyscall(t)
    BY <2>3, Elsewhere DEF EndSyscall, Flushing
  <2>4. CASE ExitSyscall(t)
    BY <2>4, Elsewhere DEF ExitSyscall, Flushing
  <2>5. CASE EnterCouldBeLinking(t)
    <3>1. CASE wait_for_unlink[t]
      BY <2>5, <3>1, Elsewhere DEF EnterCouldBeLinking, TryCouldBeLinking, Flushing
    <3>2. CASE ~ wait_for_unlink[t]
      <4>1. Gate!Enter(t)
        BY <2>5, <3>2, Entering DEF EnterCouldBeLinking, TryCouldBeLinking
      <4> QED
        BY <4>1 DEF Gate!Next
    <3> QED
      BY <3>1, <3>2
  <2>6. CASE StartFlush(t)
    <3>1. /\ pc[t] = "nolinking" /\ flusher = NoThread
          /\ pc' = [pc EXCEPT ![t] = "stage1"]
          /\ flusher' = t /\ flush_threads' = Listed
          /\ UNCHANGED flushtime_global
      BY <2>6 DEF StartFlush
    <3>2. \A u \in Thread : pc'[u] = IF u = t THEN "stage1" ELSE pc[u]
      BY <3>1, <1>0 DEF TypeOK
    <3>3. Inside' = Inside /\ t \notin Inside
      BY <3>1, <3>2 DEF Inside
    <3>4. Held = {} /\ Held' = {}
      BY <3>1, <3>2 DEF Held, Listed
    <3>5. Gate!Begin(t)
      BY <3>1, <3>3, <3>4 DEF Gate!Begin
    <3> QED
      BY <3>5 DEF Gate!Next
  <2>7. ASSUME NEW u \in Thread, OtherThreadExit(t, u) PROVE Gate!Next \/ Same
    BY <2>7, Elsewhere DEF OtherThreadExit, Flushing
  <2> QED
    BY <1>2, <2>1, <2>2, <2>3, <2>4, <2>5, <2>6, <2>7 DEF Decide
<1>3. ASSUME NEW t \in Thread, Linking(t) PROVE Gate!Next \/ Same
  <2>1. CASE RecheckCouldBeLinking(t)
    <3>1. CASE wait_for_unlink[t]
      BY <2>1, <3>1, Elsewhere DEF RecheckCouldBeLinking, TryCouldBeLinking, Flushing
    <3>2. CASE ~ wait_for_unlink[t]
      <4>1. Gate!Enter(t)
        BY <2>1, <3>2, Entering DEF RecheckCouldBeLinking, TryCouldBeLinking
      <4> QED
        BY <4>1 DEF Gate!Next
    <3> QED
      BY <3>1, <3>2
  <2>2. CASE WakeAllUnlink(t)
    BY <2>2, Elsewhere DEF WakeAllUnlink, Flushing
  <2>3. CASE EnterNoLinking(t)
    <3>1. PICK l \in {"signal", "nolinking"} : pc' = [pc EXCEPT ![t] = l]
      BY <2>3 DEF EnterNoLinking, TryNoLinking
    <3>2. pc[t] = "linking" /\ UNCHANGED flush
      BY <2>3 DEF EnterNoLinking, TryNoLinking
    <3>3. \A u \in Thread : pc'[u] = IF u = t THEN l ELSE pc[u]
      BY <3>1, <1>0 DEF TypeOK
    <3>4. Inside' = Inside \ {t} /\ t \in Inside
      BY <3>2, <3>3 DEF Inside
    <3>5. flusher # t /\ Listed' = Listed
      BY <1>0, <3>2, <3>3 DEF FlusherOK, Flushing, Listed
    <3>6. Held' = Held
      BY <1>0, <3>2, <3>3, <3>5 DEF Held, flush, TypeOK
    <3>7. Gate!Leave(t)
      BY <3>2, <3>4, <3>6 DEF Gate!Leave, flush
    <3> QED
      BY <3>7 DEF Gate!Next
  <2>4. CASE RecheckNoLinking(t)
    <3>1. PICK l \in {"signal", "nolinking"} : pc' = [pc EXCEPT ![t] = l]
      BY <2>4 DEF RecheckNoLinking, TryNoLinking
    <3> QED
      BY <2>4, <3>1, Elsewhere DEF RecheckNoLinking, TryNoLinking, Flushing
  <2>5. CASE SignalFlusher(t)
    BY <2>5, Elsewhere DEF SignalFlusher, Flushing
  <2>6. CASE WakeWithUnlink(t)
    BY <2>6, Elsewhere DEF WakeWithUnlink, Flushing
  <2> QED
    BY <1>3, <2>1, <2>2, <2>3, <2>4, <2>5, <2>6 DEF Linking
<1>4. ASSUME NEW t \in Thread, Flush(t) PROVE Gate!Next \/ Same
  <2>1. ASSUME NEW u \in Thread, SynchThread(t, u) PROVE Gate!Next \/ Same
    <3>1. /\ pc[t] = "stage1" /\ u \in flush_threads /\ t = flusher
          /\ u = t \/ ~ could_be_linking[u]
          /\ flush_threads' = flush_threads \ {u}
          /\ pc' = pc /\ UNCHANGED <<flusher, flushtime_global>>
      BY <2>1, <1>0 DEF SynchThread, Stage1Body, TypeOK, FlusherOK, Flushing
    <3>2. Inside' = Inside /\ Listed' = Listed
      BY <3>1 DEF Inside, Listed
    <3>3. CASE u = t
      <4>1. Held' = Held
        BY <3>1, <3>2, <3>3 DEF Held
      <4> QED
        BY <3>1, <3>2, <4>1
    <3>4. CASE u # t
      <4>1. Held' = Held \cup {u}
        BY <1>0, <3>1, <3>2, <3>4 DEF Held, FlusherOK
      <4>2. u \notin Inside
        BY <1>0, <3>1, <3>4 DEF Inside, ThreadOK, MayLink
      <4>3. Gate!Close(u)
        BY <3>1, <3>2, <4>1, <4>2 DEF Gate!Close
      <4> QED
        BY <4>3 DEF Gate!Next
    <3> QED
      BY <3>3, <3>4
  <2>2. ASSUME NEW u \in Thread, WaitForThread(t, u) PROVE Gate!Next \/ Same
    <3>1. /\ pc[t] = "stage1" /\ t = flusher
          /\ pc' = [pc EXCEPT ![t] = "wait_unlink"]
          /\ UNCHANGED <<flusher, flush_threads, flushtime_global>>
      BY <2>2, <1>0 DEF WaitForThread, FlusherOK, Flushing
    <3>2. Inside' = Inside /\ Listed' = Listed
      BY <3>1, <1>0 DEF Inside, Listed, TypeOK
    <3>3. Held' = Held
      BY <1>0, <3>1, <3>2 DEF Held, TypeOK
    <3> QED
      BY <3>1, <3>2, <3>3
  <2>3. ASSUME NEW u \in Thread, EndSynch(t, u) PROVE Gate!Next \/ Same
    <3>1. /\ pc[t] = "stage3" /\ u \in flush_threads /\ t = flusher
          /\ flush_threads' = flush_threads \ {u}
          /\ UNCHANGED <<pc, flusher, flushtime_global>>
      BY <2>3, <1>0 DEF EndSynch, FlusherOK, Flushing
    <3>2. Inside' = Inside
      BY <3>1 DEF Inside
    <3>3. CASE u = t
      <4>1. Held' = Held
        BY <3>1, <3>3 DEF Held
      <4> QED
        BY <3>1, <3>2, <4>1
    <3>4. CASE u # t
      <4>1. Held' = Held \ {u} /\ u \in Held
        BY <3>1, <3>4 DEF Held
      <4>2. Gate!Open(u)
        BY <3>1, <3>2, <4>1 DEF Gate!Open
      <4> QED
        BY <4>2 DEF Gate!Next
    <3> QED
      BY <3>3, <3>4
  <2>4. CASE WakeUnlink(t)
    <3>1. /\ pc[t] = "wait_unlink" /\ t = flusher
          /\ pc' = [pc EXCEPT ![t] = "woken_unlink"]
          /\ UNCHANGED flush
      BY <2>4, <1>0 DEF WakeUnlink, FlusherOK, Flushing
    <3>2. Inside' = Inside /\ Listed' = Listed
      BY <3>1, <1>0 DEF Inside, Listed, TypeOK
    <3>3. Held' = Held
      BY <1>0, <3>1, <3>2 DEF Held, TypeOK, flush
    <3> QED
      BY <3>1, <3>2, <3>3 DEF flush
  <2>5. CASE SynchedThread(t)
    <3>1. t = flusher /\ pc[t] = "woken_unlink"
      BY <2>5, <1>0 DEF SynchedThread, FlusherOK, Flushing
    <3>2. PICK u \in Thread \ {t} : u = flushee /\ u \in flush_threads
      BY <1>0, <3>1 DEF FlusherOK, TypeOK
    <3>3. /\ pc' = [pc EXCEPT ![t] = "stage1"]
          /\ flush_threads' = flush_threads \ {u}
          /\ UNCHANGED <<flusher, flushtime_global>>
      BY <2>5, <3>2 DEF SynchedThread, Stage1Body
    <3>4. Inside' = Inside /\ Listed' = Listed
      BY <1>0, <3>1, <3>3 DEF Inside, Listed, TypeOK
    <3>5. Held' = Held \cup {u}
      BY <1>0, <3>1, <3>2, <3>3, <3>4 DEF Held, FlusherOK, TypeOK
    <3>6. u \notin Inside
      BY <1>0, <3>1, <3>2 DEF Inside, ThreadOK, WaitedFor
    <3>7. Gate!Close(u)
      BY <3>1, <3>3, <3>4, <3>5, <3>6 DEF Gate!Close
    <3> QED
      BY <3>7 DEF Gate!Next
  <2>6. CASE UnlinkShared(t)
    <3>1. /\ t = flusher /\ pc[t] = "stage1" /\ flush_threads = {}
          /\ pc' = [pc EXCEPT ![t] = "stage3"]
          /\ flush_threads' = Listed
          /\ flushtime_global' = flushtime_global + 1
          /\ flusher' = flusher
      BY <2>6, <1>0 DEF UnlinkShared, FlusherOK, Flushing
    <3>2. Held = Listed \ {t}
      BY <3>1 DEF Held, Listed
    <3>3. ASSUME NEW u \in Thread PROVE pc[u] # "linking"
      <4>1. CASE u = t
        BY <4>1, <3>1
      <4>2. CASE u # t
        BY <4>2, <1>0, <3>2 DEF Listed, ThreadOK, MayLink
      <4> QED
        BY <4>1, <4>2
    <3>4. \A u \in Thread : pc'[u] = IF u = t THEN "stage3" ELSE pc[u]
      BY <3>1, <1>0 DEF TypeOK
    <3>5. Inside = {} /\ Inside' = {}
      BY <3>3, <3>4 DEF Inside
    <3>6. Held' = Held
      BY <3>1, <3>2, <3>4 DEF Held, Listed
    <3>7. Gate!Unlink
      BY <3>1, <3>5, <3>6 DEF Gate!Unlink
    <3> QED
      BY <3>7 DEF Gate!Next
  <2>7. CASE FinishFlush(t)
    <3>1. /\ t = flusher /\ pc[t] = "stage3" /\ flush_threads = {}
          /\ pc' = [pc EXCEPT ![t] = "nolinking"]
          /\ flusher' = NoThread
          /\ UNCHANGED flushtime_global
      BY <2>7, <1>0 DEF FinishFlush, FlusherOK, Flushing
    <3>2. Inside' = Inside
      BY <3>1, <1>0 DEF Inside, TypeOK
    <3>3. Held = {} /\ Held' = {}
      BY <3>1 DEF Held
    <3>4. Gate!Finish
      BY <3>1, <3>2, <3>3 DEF Gate!Finish
    <3> QED
      BY <3>4 DEF Gate!Next
  <2> QED
    BY <1>4, <2>1, <2>2, <2>3, <2>4, <2>5, <2>6, <2>7 DEF Flush
<1> QED
  BY <1>1, <1>2, <1>3, <1>4 DEF Next

(* The protocol of booleans and events implements the gate. *)
THEOREM Refinement == Spec => ImplementsGate
<1>1. Init => Gate!Init
  BY DEF Init, Gate!Init, Inside, Held
<1>2. IInv /\ [Next]_vars => [Gate!Next]_<<Inside, Held, flusher, flushtime_global>>
  BY GateStep
<1> QED
  BY <1>1, <1>2, Invariance, PTL DEF Spec, ImplementsGate, Gate!Spec, Gate!gate
=============================================================================
