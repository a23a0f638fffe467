-------------------------- MODULE MutexLockProofs --------------------------
(***************************************************************************)
(* What holds of mutex_t for every number of threads and every spin count, *)
(* when atomic_compare_exchange_int keeps its contract (Build = "X86").    *)
(***************************************************************************)
EXTENDS MutexLock, FiniteSetTheorems, TLAPS

(* The word is the number of requesters minus one, and an owner leaves no  *)
(* room for another: mutual exclusion alone is not inductive, because the  *)
(* steps that acquire look at the word and not at the other threads.       *)
IInv == /\ TypeOK
        /\ RequestsCounted
        /\ MutualExclusion

-----------------------------------------------------------------------------
(* How the requesters, and so their number, change with one thread's move. *)

(* The requesters are finitely many, and there are none exactly when the   *)
(* word is free: the test mutex_trylock makes on the word is a test on all *)
(* the threads.                                                            *)
LEMMA FreeMeansNoRequest ==
  ASSUME RequestsCounted
  PROVE  /\ IsFiniteSet(Requesting)
         /\ lock_requests \in Int
         /\ lock_requests >= LOCK_FREE_STATE
         /\ lock_requests = LOCK_FREE_STATE <=> Requesting = {}
<1>1. IsFiniteSet(Requesting)
  BY ThreadAssumption, FS_Subset DEF Requesting
<1>2. Cardinality(Requesting) \in Nat
  BY <1>1, FS_CardinalityType
<1>3. Cardinality(Requesting) = 0 <=> Requesting = {}
  BY <1>1, FS_EmptySet
<1> QED
  BY <1>1, <1>2, <1>3 DEF RequestsCounted, LOCK_FREE_STATE

(* A thread that moves between two places that make no request leaves the  *)
(* accounting alone, and one that stays a requester too.                   *)
LEMMA SameRequests ==
  ASSUME TypeOK, RequestsCounted, NEW t \in Thread, NEW l,
         pc' = [pc EXCEPT ![t] = l],
         pc[t] \in {"held", "undo"} <=> l \in {"held", "undo"},
         lock_requests' = lock_requests
  PROVE  RequestsCounted'
<1>1. Requesting' = Requesting
  BY DEF Requesting, TypeOK
<1> QED
  BY <1>1 DEF RequestsCounted

(* One more request raises the word by one. *)
LEMMA OneMoreRequest ==
  ASSUME TypeOK, RequestsCounted, NEW t \in Thread, NEW l,
         pc' = [pc EXCEPT ![t] = l],
         pc[t] \notin {"held", "undo"}, l \in {"held", "undo"},
         lock_requests' = lock_requests + 1
  PROVE  RequestsCounted'
<1>1. Requesting' = Requesting \cup {t} /\ t \notin Requesting
  BY DEF Requesting, TypeOK
<1>2. Cardinality(Requesting') = Cardinality(Requesting) + 1
  BY <1>1, FreeMeansNoRequest, FS_AddElement
<1>3. Cardinality(Requesting) \in Nat
  BY FreeMeansNoRequest, FS_CardinalityType
<1> QED
  BY <1>2, <1>3 DEF RequestsCounted

(* One request less lowers it by one. *)
LEMMA OneLessRequest ==
  ASSUME TypeOK, RequestsCounted, NEW t \in Thread, NEW l,
         pc' = [pc EXCEPT ![t] = l],
         pc[t] \in {"held", "undo"}, l \notin {"held", "undo"},
         lock_requests' = lock_requests - 1
  PROVE  RequestsCounted'
<1>1. Requesting' = Requesting \ {t} /\ t \in Requesting
  BY DEF Requesting, TypeOK
<1>2. Cardinality(Requesting') = Cardinality(Requesting) - 1
  BY <1>1, FreeMeansNoRequest, FS_RemoveElement
<1>3. Cardinality(Requesting) \in Nat
  BY FreeMeansNoRequest, FS_CardinalityType
<1> QED
  BY <1>2, <1>3 DEF RequestsCounted

-----------------------------------------------------------------------------
(* The word and its users start in step. *)
LEMMA InitIInv == Init => IInv
<1> SUFFICES ASSUME Init PROVE IInv
  OBVIOUS
<1>1. TypeOK
  BY SpinCountAssumption DEF Init, TypeOK, Location, LOCK_FREE_STATE
<1>2. Requesting = {}
  BY DEF Init, Requesting
<1>3. RequestsCounted
  BY <1>2, FS_EmptySet DEF Init, RequestsCounted, LOCK_FREE_STATE
<1>4. MutualExclusion
  BY DEF Init, MutualExclusion
<1> QED
  BY <1>1, <1>3, <1>4 DEF IInv

(* Every step keeps the variables in their sets. *)
LEMMA TypeStep == TypeOK /\ [Next]_vars => TypeOK'
<1> SUFFICES ASSUME TypeOK, [Next]_vars PROVE TypeOK'
  OBVIOUS
<1> USE DEF TypeOK, Location, Goto, LOCK_FREE_STATE, LOCK_SET_STATE
<1>1. CASE UNCHANGED vars
  BY <1>1 DEF vars
<1>2. ASSUME NEW t \in Thread, Step(t) PROVE TypeOK'
  <2>1. CASE StartLock(t)
    BY <2>1, SpinCountAssumption DEF StartLock
  <2>2. CASE LockTry(t)
    BY <2>2 DEF LockTry, CompareExchange
  <2>3. CASE LockSpin(t)
    BY <2>3, SpinCountAssumption DEF LockSpin
  <2>4. CASE LockInc(t)
    BY <2>4 DEF LockInc
  <2>5. CASE WaitUndo(t)
    BY <2>5 DEF WaitUndo
  <2>6. CASE WaitTry(t)
    BY <2>6 DEF WaitTry, CompareExchange
  <2>7. CASE StartTrylock(t)
    BY <2>7 DEF StartTrylock
  <2>8. CASE Trylock(t)
    BY <2>8 DEF Trylock, CompareExchange
  <2>9. CASE Unlock(t)
    BY <2>9 DEF Unlock
  <2>10. CASE Notify(t)
    BY <2>10 DEF Notify
  <2> QED
    BY <1>2, <2>1, <2>2, <2>3, <2>4, <2>5, <2>6, <2>7, <2>8, <2>9, <2>10
       DEF Step, Proceed
<1> QED
  BY <1>1, <1>2 DEF Next

(* An exchange that answers truthfully makes its thread the only requester *)
(* or moves it to a place that makes no request.                           *)
LEMMA CompareExchangeStep ==
  ASSUME IInv, Build = "X86", NEW t \in Thread, NEW no,
         pc[t] \notin {"held", "undo"}, no \notin {"held", "undo"},
         CompareExchange(t, "held", no)
  PROVE  RequestsCounted' /\ MutualExclusion'
<1> USE DEF IInv
<1>1. CASE lock_requests = LOCK_FREE_STATE
  <2>1. pc' = [pc EXCEPT ![t] = "held"] /\ lock_requests' = lock_requests + 1
    BY <1>1 DEF CompareExchange, Goto, LOCK_FREE_STATE, LOCK_SET_STATE
  <2>2. RequestsCounted'
    BY <2>1, OneMoreRequest
  <2>3. \A u \in Thread : pc[u] # "held"
    BY <1>1, FreeMeansNoRequest DEF Requesting
  <2> QED
    BY <2>1, <2>2, <2>3 DEF MutualExclusion, TypeOK
<1>2. CASE lock_requests # LOCK_FREE_STATE
  <2>1. pc' = [pc EXCEPT ![t] = no] /\ lock_requests' = lock_requests
    BY <1>2 DEF CompareExchange, Goto
  <2>2. RequestsCounted'
    BY <2>1, SameRequests
  <2> QED
    BY <2>1, <2>2 DEF MutualExclusion, TypeOK
<1> QED
  BY <1>1, <1>2

(* Every step keeps the invariant. *)
LEMMA NextIInv == Build = "X86" /\ IInv /\ [Next]_vars => IInv'
<1> SUFFICES ASSUME Build = "X86", IInv, [Next]_vars
             PROVE  RequestsCounted' /\ MutualExclusion'
  BY TypeStep DEF IInv
<1> USE DEF IInv
<1>1. CASE UNCHANGED vars
  BY <1>1 DEF vars, RequestsCounted, Requesting, MutualExclusion
<1>2. ASSUME NEW t \in Thread, Step(t)
      PROVE  RequestsCounted' /\ MutualExclusion'
  (* Moves between two places that are not "held" acquire nothing. *)
  <2>a. ASSUME NEW l, pc' = [pc EXCEPT ![t] = l], l # "held"
        PROVE  MutualExclusion'
    BY <2>a DEF MutualExclusion, TypeOK
  <2>1. CASE StartLock(t)
    <3>1. PICK l \in {"try", "inc"} : pc' = [pc EXCEPT ![t] = l]
      BY <2>1 DEF StartLock, Goto
    <3> QED
      BY <2>1, <2>a, <3>1, SameRequests DEF StartLock
  <2>2. CASE LockTry(t)
    BY <2>2, CompareExchangeStep DEF LockTry
  <2>3. CASE LockSpin(t)
    <3>1. PICK l \in {"spin", "inc"} : pc' = [pc EXCEPT ![t] = l]
      BY <2>3 DEF LockSpin, Goto, TypeOK
    <3> QED
      BY <2>3, <2>a, <3>1, SameRequests DEF LockSpin
  <2>4. CASE LockInc(t)
    <3>1. CASE lock_requests = LOCK_FREE_STATE
      <4>1. pc' = [pc EXCEPT ![t] = "held"]
        BY <2>4, <3>1 DEF LockInc, Goto, LOCK_FREE_STATE
      <4>2. \A u \in Thread : pc[u] # "held"
        BY <3>1, FreeMeansNoRequest DEF Requesting
      <4>3. RequestsCounted'
        BY <2>4, <4>1, OneMoreRequest DEF LockInc
      <4> QED
        BY <4>1, <4>2, <4>3 DEF MutualExclusion, TypeOK
    <3>2. CASE lock_requests # LOCK_FREE_STATE
      <4>a. lock_requests' # 0
        BY <2>4, <3>2 DEF LockInc, LOCK_FREE_STATE, TypeOK
      <4>1. pc' = [pc EXCEPT ![t] = "undo"]
        BY <2>4, <4>a DEF LockInc, Goto
      <4> QED
        BY <2>4, <2>a, <4>1, OneMoreRequest DEF LockInc
    <3> QED
      BY <3>1, <3>2
  <2>5. CASE WaitUndo(t)
    BY <2>5, <2>a, OneLessRequest DEF WaitUndo, Goto
  <2>6. CASE WaitTry(t)
    BY <2>6, CompareExchangeStep DEF WaitTry
  <2>7. CASE StartTrylock(t)
    BY <2>7, <2>a, SameRequests DEF StartTrylock, Goto
  <2>8. CASE Trylock(t)
    BY <2>8, CompareExchangeStep DEF Trylock
  <2>9. CASE Unlock(t)
    <3>1. PICK l \in {"idle", "notify"} : pc' = [pc EXCEPT ![t] = l]
      BY <2>9 DEF Unlock, Goto
    <3> QED
      BY <2>9, <2>a, <3>1, OneLessRequest DEF Unlock
  <2>10. CASE Notify(t)
    BY <2>10, <2>a, SameRequests DEF Notify, Goto
  <2> QED
    BY <1>2, <2>1, <2>2, <2>3, <2>4, <2>5, <2>6, <2>7, <2>8, <2>9, <2>10
       DEF Step, Proceed
<1> QED
  BY <1>1, <1>2 DEF Next

-----------------------------------------------------------------------------
(* mutex_t keeps its variables in their sets whatever the build. *)
THEOREM TypeCorrect == Spec => []TypeOK
<1>1. Init => TypeOK
  BY InitIInv DEF IInv
<1> QED
  BY <1>1, TypeStep, PTL DEF Spec

(* The inductive invariant holds of every behaviour of a build whose       *)
(* compare-and-exchange tells the truth.                                   *)
THEOREM Invariance == Build = "X86" => (Spec => []IInv)
<1> SUFFICES ASSUME Build = "X86" PROVE Spec => []IInv
  OBVIOUS
<1>1. IInv /\ [Next]_vars => IInv'
  BY NextIInv
<1> QED
  BY <1>1, InitIInv, PTL DEF Spec

(* Two threads never own the mutex at once. *)
THEOREM Exclusion == Build = "X86" => (Spec => []MutualExclusion)
<1>1. IInv => MutualExclusion
  BY DEF IInv
<1> QED
  BY <1>1, Invariance, PTL

(* The word is exactly the number of requesters minus one (utils.h:199). *)
THEOREM Accounting == Build = "X86" => (Spec => []RequestsCounted)
<1>1. IInv => RequestsCounted
  BY DEF IInv
<1> QED
  BY <1>1, Invariance, PTL

-----------------------------------------------------------------------------
(* The owner is the one thread that is where an owner is. *)
LEMMA OwnerIs ==
  ASSUME MutualExclusion
  PROVE  /\ \A t \in Thread : Owner = t <=> pc[t] = "held"
         /\ Owner = NoThread <=> \A t \in Thread : pc[t] # "held"
<1>1. CASE \E t \in Thread : pc[t] = "held"
  <2>1. Owner \in Thread /\ pc[Owner] = "held"
    BY <1>1 DEF Owner
  <2> QED
    BY <2>1, <1>1, NoThreadAssumption DEF MutualExclusion
<1>2. CASE ~ \E t \in Thread : pc[t] = "held"
  BY <1>2, NoThreadAssumption DEF Owner
<1> QED
  BY <1>1, <1>2

(* A step moves one thread, and from the places of one routine to those of *)
(* the same routine, or to where it returns.                               *)
Locking == {"try", "spin", "inc", "undo", "wait"}

LEMMA StepMoves ==
  ASSUME Build = "X86", TypeOK, NEW t \in Thread, Step(t)
  PROVE  \E l \in Location :
            /\ pc' = [pc EXCEPT ![t] = l]
            /\ pc[t] = "idle" => l \in Locking \cup {"trylock"}
            /\ pc[t] \in Locking => l \in Locking \cup {"held"}
            /\ pc[t] = "trylock" => l \in {"held", "idle"}
            /\ pc[t] = "held" => l \in {"idle", "notify"}
            /\ pc[t] = "notify" => l = "idle"
<1> USE DEF Goto, Location, Locking
<1>1. CASE StartLock(t)
  BY <1>1 DEF StartLock
<1>2. CASE StartTrylock(t)
  BY <1>2 DEF StartTrylock
<1>3. CASE LockTry(t)
  BY <1>3 DEF LockTry, CompareExchange
<1>4. CASE LockSpin(t)
  BY <1>4 DEF LockSpin, TypeOK
<1>5. CASE LockInc(t)
  BY <1>5 DEF LockInc
<1>6. CASE WaitUndo(t)
  BY <1>6 DEF WaitUndo
<1>7. CASE WaitTry(t)
  BY <1>7 DEF WaitTry, CompareExchange
<1>8. CASE Trylock(t)
  BY <1>8 DEF Trylock, CompareExchange
<1>9. CASE Unlock(t)
  BY <1>9 DEF Unlock
<1>10. CASE Notify(t)
  BY <1>10 DEF Notify
<1> QED
  BY <1>1, <1>2, <1>3, <1>4, <1>5, <1>6, <1>7, <1>8, <1>9, <1>10
     DEF Step, Proceed

(* A step that moves one thread acquires, releases or leaves the ownership *)
(* alone, by where the thread goes.                                        *)
LEMMA OwnerStep ==
  ASSUME TypeOK, MutualExclusion, MutualExclusion', NEW t \in Thread, NEW l,
         pc' = [pc EXCEPT ![t] = l]
  PROVE  Abstract!Next \/ UNCHANGED Owner
<1>1. \A u \in Thread : pc'[u] = IF u = t THEN l ELSE pc[u]
  BY DEF TypeOK
<1>2. /\ \A u \in Thread : Owner' = u <=> pc'[u] = "held"
      /\ Owner' = NoThread <=> \A u \in Thread : pc'[u] # "held"
  <2>1. CASE \E u \in Thread : pc'[u] = "held"
    <3>1. Owner' \in Thread /\ pc'[Owner'] = "held"
      BY <2>1 DEF Owner
    <3> QED
      BY <3>1, <2>1, NoThreadAssumption DEF MutualExclusion
  <2>2. CASE ~ \E u \in Thread : pc'[u] = "held"
    BY <2>2, NoThreadAssumption DEF Owner
  <2> QED
    BY <2>1, <2>2
<1>3. CASE l = "held" /\ pc[t] # "held"
  <2>1. Owner' = t
    BY <1>1, <1>2, <1>3
  <2>2. \A u \in Thread : pc[u] # "held"
    BY <1>1, <1>3 DEF MutualExclusion
  <2> QED
    BY <2>1, <2>2, OwnerIs DEF Abstract!Next, Abstract!Acquire
<1>4. CASE l # "held" /\ pc[t] = "held"
  <2>1. Owner = t
    BY <1>4, OwnerIs
  <2>2. \A u \in Thread : pc'[u] # "held"
    BY <1>1, <1>4 DEF MutualExclusion
  <2> QED
    BY <2>1, <2>2, <1>2 DEF Abstract!Next, Abstract!Release
<1>5. CASE l = "held" <=> pc[t] = "held"
  <2>1. \A u \in Thread : pc'[u] = "held" <=> pc[u] = "held"
    BY <1>1, <1>5
  <2>2. CASE \E u \in Thread : pc[u] = "held"
    BY <2>1, <2>2, <1>2, OwnerIs
  <2>3. CASE \A u \in Thread : pc[u] # "held"
    BY <2>1, <2>3, <1>2, OwnerIs
  <2> QED
    BY <2>2, <2>3
<1> QED
  BY <1>3, <1>4, <1>5

(* The word-level mutex implements the abstract one: every step is an      *)
(* acquisition, a release or none of the caller's business.                *)
THEOREM Refinement == Build = "X86" => (Spec => ImplementsMutex)
<1> SUFFICES ASSUME Build = "X86" PROVE Spec => ImplementsMutex
  OBVIOUS
<1>1. Init => Abstract!Init
  BY DEF Init, Abstract!Init, Owner
<1>2. IInv /\ IInv' /\ [Next]_vars => [Abstract!Next]_Owner
  <2> SUFFICES ASSUME IInv, IInv', [Next]_vars
               PROVE  Abstract!Next \/ UNCHANGED Owner
    OBVIOUS
  <2>1. CASE UNCHANGED vars
    BY <2>1 DEF vars, Owner
  <2>2. ASSUME NEW t \in Thread, Step(t)
        PROVE  Abstract!Next \/ UNCHANGED Owner
    <3>1. \E l \in Location : pc' = [pc EXCEPT ![t] = l]
      BY <2>2, StepMoves DEF IInv
    <3> QED
      BY <3>1, OwnerStep DEF IInv
  <2> QED
    BY <2>1, <2>2 DEF Next
<1>3. Spec => []IInv
  BY Invariance
<1> QED
  BY <1>1, <1>2, <1>3, PTL DEF Spec, ImplementsMutex, Abstract!Spec
=============================================================================
