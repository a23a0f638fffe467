------------------------------ MODULE LockProofs ------------------------------
(***************************************************************************)
(* read_write_lock_t excludes and counts as it should, and recursive_lock_t*)
(* is a lock for every nesting, for every number of threads, when the      *)
(* compare-and-exchange under their mutex keeps its contract               *)
(* (Build = "X86").  What the word-level mutex guarantees is taken from    *)
(* MutexLockProofs.                                                        *)
(***************************************************************************)
EXTENDS RWLock, RecursiveLock, FiniteSetTheorems, TLAPS

Mx == INSTANCE MutexLockProofs

-----------------------------------------------------------------------------
(***************************************************************************)
(* The mutex inside a lock                                                 *)
(***************************************************************************)
(* The steps of the mutex inside are steps of MutexLock. *)
LEMMA MutexStep ==
  ASSUME NEW t \in Thread,
         \/ Lock!StartLock(t) \/ Lock!StartTrylock(t)
         \/ Lock!Proceed(t) \/ Lock!Trylock(t)
         \/ Lock!Unlock(t) \/ Lock!Notify(t)
  PROVE  Mx!Step(t)
<1> USE DEF Lock!Goto, Mx!Goto, Lock!LOCK_FREE_STATE, Mx!LOCK_FREE_STATE,
            Lock!LOCK_SET_STATE, Mx!LOCK_SET_STATE
<1>1. CASE Lock!StartLock(t)
  BY <1>1 DEF Lock!StartLock, Mx!StartLock, Mx!Step
<1>2. CASE Lock!StartTrylock(t)
  BY <1>2 DEF Lock!StartTrylock, Mx!StartTrylock, Mx!Step
<1>3. CASE Lock!Proceed(t) \/ Lock!Trylock(t)
  BY <1>3
     DEF Lock!Proceed, Lock!LockTry, Lock!LockSpin, Lock!LockInc, Lock!WaitUndo,
         Lock!WaitTry, Lock!Trylock, Lock!Notify, Lock!CompareExchange,
         Mx!Step, Mx!Proceed, Mx!LockTry, Mx!LockSpin, Mx!LockInc, Mx!WaitUndo,
         Mx!WaitTry, Mx!Trylock, Mx!Notify, Mx!CompareExchange
<1>4. CASE Lock!Unlock(t)
  BY <1>4 DEF Lock!Unlock, Mx!Unlock, Mx!Step
<1>5. CASE Lock!Notify(t)
  BY <1>5 DEF Lock!Notify, Mx!Notify, Mx!Step, Mx!Proceed
<1> QED
  BY <1>1, <1>2, <1>3, <1>4, <1>5

(* What is proved of every mutex, for this one. *)
LEMMA MutexAssumptions ==
  /\ Mx!ThreadAssumption /\ Mx!NoThreadAssumption
  /\ Mx!SpinCountAssumption /\ Mx!BuildAssumption
BY ThreadAssumption, BuildAssumption
   DEF Mx!ThreadAssumption, Mx!NoThreadAssumption, Mx!SpinCountAssumption,
       Mx!BuildAssumption, Mx!IsFiniteSet, IsFiniteSet

LEMMA MutexKept ==
  ASSUME Build = "X86", Mx!IInv, Mx!Next \/ UNCHANGED lockVars
  PROVE  Mx!IInv'
BY Mx!NextIInv, MutexAssumptions DEF lockVars, Mx!vars

LEMMA MutexMoves ==
  ASSUME Build = "X86", Mx!IInv, NEW t \in Thread, Mx!Step(t)
  PROVE  \E l \in Mx!Location :
            /\ pc' = [pc EXCEPT ![t] = l]
            /\ pc[t] = "idle" => l \in Mx!Locking \cup {"trylock"}
            /\ pc[t] \in Mx!Locking => l \in Mx!Locking \cup {"held"}
            /\ pc[t] = "trylock" => l \in {"held", "idle"}
            /\ pc[t] = "held" => l \in {"idle", "notify"}
            /\ pc[t] = "notify" => l = "idle"
BY Mx!StepMoves, MutexAssumptions DEF Mx!IInv

-----------------------------------------------------------------------------
(***************************************************************************)
(* read_write_lock_t                                                       *)
(***************************************************************************)
(* Where a thread is while writer names it: in its write section, or in a  *)
(* read section nested in it, which its own mutex keeps off the fast path. *)
WriterPlaces == {"writing", "test", "contended", "reading"}

(* The mutex's own place of a thread that is at l in the rwlock, and       *)
(* whether writer may name it there.                                       *)
PlaceIn(t) ==
    /\ writer = t => at[t] \in WriterPlaces /\ pc[t] = "held"
    /\ at[t] = "writing" => writer = t
    /\ at[t] \in {"out", "test", "contended", "retest", "unpend", "announce",
                  "check", "withdraw", "reading"}
          => writer = t \/ pc[t] = "idle"
    /\ at[t] = "mutex" => pc[t] \in Mx!Locking
    /\ at[t] = "trylock" => pc[t] = "trylock"
    /\ at[t] \in {"drain", "empty", "claim"} => pc[t] = "held"
    /\ at[t] = "unlock" => pc[t] \in {"held", "notify"}

(* num_readers may be too large, by what Contend leaks on the default      *)
(* path, but it never misses a reader that a writer has to wait for.       *)
Counted == /\ num_readers >= Cardinality(Announced)
           /\ spin_yield_rwlock => num_readers = Cardinality(Announced)

(* The exclusion begins when a writer has seen no reader, one step before  *)
(* the assignment of writer.                                               *)
Alone(t) == at[t] = "claim" \/ writer = t =>
               \A u \in Thread : at[u] = "reading" => u = t

IInv == /\ TypeOK
        /\ Mx!IInv
        /\ \A t \in Thread : PlaceIn(t)
        /\ Counted
        /\ \A t \in Thread : Alone(t)

(* A reader that finds the mutex free knows that nobody has it. *)
LEMMA HeldMeansLocked ==
  ASSUME Mx!IInv, NEW t \in Thread, pc[t] = "held"
  PROVE  Locked
<1>1. Mx!Requesting # {}
  BY DEF Mx!Requesting
<1> QED
  BY <1>1, Mx!FreeMeansNoRequest, MutexAssumptions
     DEF Mx!IInv, Locked, Lock!LOCK_FREE_STATE, Mx!LOCK_FREE_STATE

-----------------------------------------------------------------------------
(* The number of announced readers follows one thread's move. *)
Weight(l) == IF l \in {"check", "withdraw", "reading"} THEN 1 ELSE 0

LEMMA AnnouncedMoves ==
  ASSUME at \in [Thread -> Location], NEW t \in Thread, NEW l,
         at' = [at EXCEPT ![t] = l]
  PROVE  /\ Cardinality(Announced) \in Nat
         /\ Cardinality(Announced') =
               Cardinality(Announced) + Weight(l) - Weight(at[t])
<1>1. IsFiniteSet(Announced) /\ Cardinality(Announced) \in Nat
  BY ThreadAssumption, FS_Subset, FS_CardinalityType DEF Announced
<1>2. CASE Weight(l) = Weight(at[t])
  <2>1. Announced' = Announced
    BY <1>2 DEF Announced, Weight
  <2> QED
    BY <1>1, <1>2, <2>1 DEF Weight
<1>3. CASE Weight(l) = 1 /\ Weight(at[t]) = 0
  <2>1. Announced' = Announced \cup {t} /\ t \notin Announced
    BY <1>3 DEF Announced, Weight
  <2> QED
    BY <1>1, <1>3, <2>1, FS_AddElement
<1>4. CASE Weight(l) = 0 /\ Weight(at[t]) = 1
  <2>1. Announced' = Announced \ {t} /\ t \in Announced
    BY <1>4 DEF Announced, Weight
  <2>2. Cardinality(Announced') = Cardinality(Announced) - 1
    BY <1>1, <2>1, FS_RemoveElement
  <2> QED
    BY <1>1, <1>4, <2>2
<1> QED
  BY <1>2, <1>3, <1>4 DEF Weight

(* A thread that changes num_readers by what its move changes the number   *)
(* of announced readers keeps the count.                                   *)
LEMMA CountKept ==
  ASSUME TypeOK, Counted, NEW t \in Thread, NEW l,
         at' = [at EXCEPT ![t] = l],
         num_readers' = num_readers + Weight(l) - Weight(at[t]),
         UNCHANGED spin_yield_rwlock
  PROVE  Counted' /\ num_readers' \in Nat
<1>1. /\ Cardinality(Announced) \in Nat
      /\ Cardinality(Announced') =
            Cardinality(Announced) + Weight(l) - Weight(at[t])
  BY AnnouncedMoves DEF TypeOK
<1>2. Cardinality(Announced') \in Nat
  <2>1. IsFiniteSet(Announced')
    BY ThreadAssumption, FS_Subset DEF Announced
  <2> QED
    BY <2>1, FS_CardinalityType
<1> QED
  BY <1>1, <1>2 DEF Counted, TypeOK, Weight
-----------------------------------------------------------------------------
LEMMA InitIInv == Init => IInv
<1> SUFFICES ASSUME Init PROVE IInv
  OBVIOUS
<1>1. Lock!TypeOK
  BY BuildAssumption
     DEF Init, Lock!Init, Lock!TypeOK, Lock!Location, Lock!LOCK_FREE_STATE
<1>2. TypeOK
  BY <1>1 DEF Init, TypeOK, Location
<1>3. Mx!Init
  BY DEF Init, Lock!Init, Mx!Init, Lock!LOCK_FREE_STATE, Mx!LOCK_FREE_STATE
<1>4. Mx!IInv
  BY <1>3, Mx!InitIInv, MutexAssumptions
<1>5. \A t \in Thread : PlaceIn(t) /\ Alone(t)
  BY ThreadAssumption DEF Init, Lock!Init, PlaceIn, Alone
<1>6. Counted
  <2>1. Announced = {}
    BY DEF Init, Announced
  <2> QED
    BY <2>1, FS_EmptySet DEF Init, Counted
<1> QED
  BY <1>2, <1>4, <1>5, <1>6 DEF IInv

(* The steps that only move the mutex inside: no reader and no writer      *)
(* comes or goes, and the thread's two places keep together.               *)
LockStep(t) == \/ StartWrite(t) \/ LockMutex(t) \/ StartWriteTrylock(t)
               \/ TrylockMutex(t) \/ UnlockMutex(t)

LEMMA LockStepPlace ==
  ASSUME Build = "X86", IInv, NEW t \in Thread, LockStep(t)
  PROVE  /\ Mx!Step(t)
         /\ UNCHANGED <<countVars, writerVars>>
         /\ writer # t
         /\ \E l \in Mx!Location, m \in Location :
               /\ pc' = [pc EXCEPT ![t] = l]
               /\ at' = [at EXCEPT ![t] = m]
               /\ Weight(m) = Weight(at[t])
               /\ m # "claim" /\ m # "reading"
         /\ PlaceIn(t)'
<1>0. /\ PlaceIn(t) /\ Mx!IInv
      /\ at \in [Thread -> Location] /\ pc \in [Thread -> Mx!Location]
  BY DEF IInv, TypeOK, Mx!IInv, Mx!TypeOK
<1>1. Mx!Step(t) /\ UNCHANGED <<countVars, writerVars>>
  BY MutexStep
     DEF LockStep, StartWrite, LockMutex, StartWriteTrylock, TrylockMutex, UnlockMutex
<1>2. PICK l \in Mx!Location :
         /\ pc' = [pc EXCEPT ![t] = l]
         /\ pc[t] = "idle" => l \in Mx!Locking \cup {"trylock"}
         /\ pc[t] \in Mx!Locking => l \in Mx!Locking \cup {"held"}
         /\ pc[t] = "trylock" => l \in {"held", "idle"}
         /\ pc[t] = "held" => l \in {"idle", "notify"}
         /\ pc[t] = "notify" => l = "idle"
  BY <1>0, <1>1, MutexMoves
<1>3. pc'[t] = l
  BY <1>0, <1>2
<1>4. at[t] \in {"out", "mutex", "trylock", "unlock"} /\ writer # t /\ writer' # t
  BY <1>0, <1>1
     DEF LockStep, StartWrite, LockMutex, StartWriteTrylock, TrylockMutex,
         UnlockMutex, From, PlaceIn, WriterPlaces, writerVars
<1>5. \E m \in {"out", "mutex", "trylock", "unlock", "drain", "empty"} :
         at' = [at EXCEPT ![t] = m] /\ PlaceIn(t)'
  <2>1. CASE StartWrite(t)
    <3>1. at' = [at EXCEPT ![t] = "mutex"] /\ l \in Mx!Locking
      BY <2>1, <1>0, <1>2, <1>3
         DEF StartWrite, From, Goto, Lock!StartLock, Lock!Goto, Mx!Locking
    <3> QED
      BY <3>1, <1>0, <1>3, <1>4 DEF PlaceIn
  <2>2. CASE LockMutex(t)
    <3>1. /\ at[t] = "mutex" /\ l \in Mx!Locking \cup {"held"}
          /\ at' = [at EXCEPT ![t] = IF l = "held" THEN "drain" ELSE "mutex"]
      BY <2>2, <1>0, <1>2, <1>3 DEF LockMutex, Goto, PlaceIn
    <3> QED
      BY <3>1, <1>0, <1>3, <1>4 DEF PlaceIn, Mx!Locking
  <2>3. CASE StartWriteTrylock(t)
    <3>1. at' = [at EXCEPT ![t] = "trylock"] /\ l = "trylock"
      BY <2>3, <1>0, <1>2, <1>3
         DEF StartWriteTrylock, From, Goto, Lock!StartTrylock, Lock!Goto
    <3> QED
      BY <3>1, <1>0, <1>3, <1>4 DEF PlaceIn
  <2>4. CASE TrylockMutex(t)
    <3>1. /\ at[t] = "trylock" /\ l \in {"held", "idle"}
          /\ at' = [at EXCEPT ![t] = CASE l = "held" -> "empty"
                                        [] l = "idle" -> "out"
                                        [] OTHER -> "trylock"]
      BY <2>4, <1>0, <1>2, <1>3 DEF TrylockMutex, Goto, PlaceIn
    <3>2. CASE l = "held"
      BY <3>1, <3>2, <1>0, <1>3, <1>4 DEF PlaceIn
    <3>3. CASE l = "idle"
      BY <3>1, <3>3, <1>0, <1>3, <1>4 DEF PlaceIn
    <3> QED
      BY <3>1, <3>2, <3>3
  <2>5. CASE UnlockMutex(t)
    <3>1. /\ at[t] = "unlock" /\ l \in {"idle", "notify"}
          /\ at' = [at EXCEPT ![t] = IF l = "idle" THEN "out" ELSE "unlock"]
      BY <2>5, <1>0, <1>2, <1>3 DEF UnlockMutex, Goto, PlaceIn
    <3> QED
      BY <3>1, <1>0, <1>3, <1>4 DEF PlaceIn
  <2> QED
    BY <2>1, <2>2, <2>3, <2>4, <2>5 DEF LockStep
<1> QED
  BY <1>1, <1>2, <1>4, <1>5 DEF Weight, Location

(* The steps of a reader and of the writer that leave the mutex alone. *)
WordStep(t) == \/ StartRead(t) \/ TestLock(t) \/ WriterReads(t) \/ Contend(t)
               \/ Retest(t) \/ Unpend(t) \/ Announce(t) \/ Check(t)
               \/ Withdraw(t) \/ ReadUnlock(t) \/ Drain(t) \/ TestEmpty(t)
               \/ Claim(t) \/ WriteUnlock(t)

(* No reader is in its section when a writer finds the count at zero. *)
LEMMA EmptyMeansAlone ==
  ASSUME TypeOK, Counted, num_readers <= 0, NEW u \in Thread
  PROVE  at[u] # "reading"
<1>1. IsFiniteSet(Announced)
  BY ThreadAssumption, FS_Subset DEF Announced
<1>2. Cardinality(Announced) = 0
  BY <1>1, FS_CardinalityType DEF Counted, TypeOK
<1>3. Announced = {}
  BY <1>1, <1>2, FS_EmptySet
<1> QED
  BY <1>3 DEF Announced

LEMMA WordStepKept ==
  ASSUME Build = "X86", IInv, NEW t \in Thread, WordStep(t)
  PROVE  IInv'
<1> USE ThreadAssumption
<1>0. /\ TypeOK /\ Mx!IInv /\ Counted
      /\ \A u \in Thread : PlaceIn(u) /\ Alone(u)
      /\ \A u \in Thread : pc[u] = "held" /\ pc[t] = "held" => u = t
      /\ at \in [Thread -> Location]
      /\ num_readers \in Nat /\ num_pending_readers \in Int
      /\ writer \in Thread \cup {NoThread}
  BY DEF IInv, TypeOK, Mx!IInv, Mx!MutualExclusion
<1> USE DEF WordStep, StartRead, TestLock, WriterReads, Contend, Retest, Unpend,
            Announce, Check, Withdraw, ReadUnlock, Drain, TestEmpty, Claim,
            WriteUnlock, From, Goto
<1>1. UNCHANGED <<lockVars, spin_yield_rwlock>>
  BY DEF writerVars
<1>2. Mx!IInv' /\ Lock!TypeOK'
  BY <1>0, <1>1, MutexKept DEF Lock!TypeOK, TypeOK, lockVars
<1>3. pc' = pc
  BY <1>1 DEF lockVars
<1>4. at' = [at EXCEPT ![t] = at'[t]] /\ at'[t] \in Location
  BY <1>0 DEF Location
<1>5. Counted' /\ num_readers' \in Nat
  <2>1. CASE Contend(t)
    <3>1. Announced' = Announced
      BY <2>1, <1>0 DEF Announced
    <3>2. Cardinality(Announced) \in Nat
      BY <1>0, <1>4, AnnouncedMoves
    <3> QED
      BY <2>1, <3>1, <3>2, <1>0, <1>1 DEF Counted
  <2>2. CASE ~ Contend(t)
    <3>1. num_readers' = num_readers + Weight(at'[t]) - Weight(at[t])
      BY <2>2, <1>0 DEF Weight, countVars
    <3> QED
      BY <3>1, <1>0, <1>1, <1>4, CountKept
  <2> QED
    BY <2>1, <2>2
<1>6. writer' \in Thread \cup {NoThread} /\ num_pending_readers' \in Int
  BY <1>0 DEF writerVars, countVars
<1>7. TypeOK'
  BY <1>0, <1>1, <1>2, <1>4, <1>5, <1>6 DEF TypeOK
<1>8. \A u \in Thread : PlaceIn(u)'
  <2>1. PlaceIn(t)'
    <3>1. CASE StartRead(t) \/ TestLock(t) \/ Check(t)
      BY <3>1, <1>0, <1>3, <1>4, HeldMeansLocked DEF PlaceIn, WriterPlaces, writerVars
    <3>2. CASE WriterReads(t) \/ Contend(t) \/ Retest(t) \/ Unpend(t)
      BY <3>2, <1>0, <1>3, <1>4 DEF PlaceIn, WriterPlaces, writerVars
    <3>3. CASE Announce(t) \/ Withdraw(t) \/ ReadUnlock(t)
      BY <3>3, <1>0, <1>3, <1>4 DEF PlaceIn, WriterPlaces, writerVars
    <3>4. CASE Drain(t) \/ TestEmpty(t) \/ Claim(t) \/ WriteUnlock(t)
      BY <3>4, <1>0, <1>3, <1>4 DEF PlaceIn, WriterPlaces, writerVars
    <3> QED
      BY <3>1, <3>2, <3>3, <3>4
  <2>2. ASSUME NEW u \in Thread, u # t PROVE PlaceIn(u)'
    <3>1. at'[u] = at[u] /\ pc'[u] = pc[u] /\ (writer' = u <=> writer = u)
      <4>1. CASE Claim(t)
        <5>1. pc[t] = "held"
          BY <4>1, <1>0 DEF PlaceIn
        <5>2. writer # u
          BY <5>1, <2>2, <1>0 DEF PlaceIn
        <5> QED
          BY <4>1, <5>2, <2>2, <1>3, <1>4
      <4>2. CASE WriteUnlock(t)
        BY <4>2, <2>2, <1>0, <1>3, <1>4 DEF PlaceIn
      <4>3. CASE ~ Claim(t) /\ ~ WriteUnlock(t)
        <5>1. UNCHANGED writer
          BY <4>3 DEF writerVars
        <5>2. at'[u] = at[u]
          BY <2>2, <1>4, <1>0
        <5> QED
          BY <5>1, <5>2, <1>3
      <4> QED
        BY <4>1, <4>2, <4>3
    <3> QED
      BY <3>1, <1>0 DEF PlaceIn
  <2> QED
    BY <2>1, <2>2
<1>9. \A u \in Thread : Alone(u)'
  <2> SUFFICES ASSUME NEW u \in Thread, at'[u] = "claim" \/ writer' = u,
                      NEW v \in Thread, at'[v] = "reading"
               PROVE  v = u
    BY DEF Alone
  <2>1. pc[u] = "held"
    BY <1>3, <1>8 DEF PlaceIn
  <2>2. CASE at[v] # "reading"
    <3>1. v = t /\ (WriterReads(t) \/ Check(t))
      BY <2>2, <1>4, <1>0
    <3>2. ~ Check(t)
      BY <2>1, <2>2, <3>1, <1>0, HeldMeansLocked
    <3>3. writer = t
      BY <3>1, <3>2
    <3> QED
      BY <2>1, <3>1, <3>3, <1>0 DEF PlaceIn
  <2>3. CASE at[v] = "reading" /\ (at[u] = "claim" \/ writer = u)
    BY <2>3, <1>0 DEF Alone
  <2>4. CASE at[v] = "reading" /\ at[u] # "claim" /\ writer # u
    <3>1. u = t /\ (Drain(t) \/ TestEmpty(t))
      BY <2>4, <1>0, <1>4 DEF writerVars
    <3>2. at'[t] = "claim"
      BY <3>1, <2>4 DEF writerVars
    <3>3. num_readers <= 0
      BY <3>1, <3>2, <1>0
    <3> QED
      BY <3>3, <2>4, <1>0, EmptyMeansAlone
  <2> QED
    BY <2>2, <2>3, <2>4
<1> QED
  BY <1>2, <1>5, <1>7, <1>8, <1>9 DEF IInv

LEMMA NextIInv == Build = "X86" /\ IInv /\ [Next]_vars => IInv'
<1> SUFFICES ASSUME Build = "X86", IInv, [Next]_vars PROVE IInv'
  OBVIOUS
<1>0. /\ TypeOK /\ Mx!IInv /\ Counted
      /\ \A u \in Thread : PlaceIn(u) /\ Alone(u)
      /\ at \in [Thread -> Location]
      /\ num_readers \in Nat
  BY DEF IInv, TypeOK
<1>1. CASE UNCHANGED vars
  <2>1. Mx!IInv'
    BY <1>1, <1>0, MutexKept DEF vars
  <2> QED
    BY <1>1, <2>1, <1>0
       DEF vars, lockVars, countVars, writerVars, IInv, TypeOK, Lock!TypeOK,
           PlaceIn, Alone, Counted, Announced
<1>2. ASSUME NEW t \in Thread, LockStep(t) PROVE IInv'
  <2>1. PICK l \in Mx!Location, m \in Location :
           /\ pc' = [pc EXCEPT ![t] = l]
           /\ at' = [at EXCEPT ![t] = m]
           /\ Weight(m) = Weight(at[t])
           /\ m # "claim" /\ m # "reading"
    BY <1>2, LockStepPlace
  <2>2. /\ Mx!Step(t) /\ UNCHANGED <<countVars, writerVars>>
        /\ writer # t /\ PlaceIn(t)'
    BY <1>2, LockStepPlace
  <2>3. Mx!IInv'
    BY <1>0, <2>2, MutexKept DEF Mx!Next
  <2>4. TypeOK'
    BY <1>0, <2>1, <2>2, <2>3
       DEF TypeOK, Lock!TypeOK, Lock!Location, Mx!IInv, Mx!TypeOK, Mx!Location,
           countVars, writerVars
  <2>5. \A u \in Thread : PlaceIn(u)'
    BY <1>0, <2>1, <2>2 DEF PlaceIn, writerVars
  <2>6. Counted'
    <3>1. num_readers' = num_readers + Weight(m) - Weight(at[t])
      BY <1>0, <2>1, <2>2 DEF countVars, Weight
    <3> QED
      BY <1>0, <2>1, <2>2, <3>1, CountKept DEF writerVars
  <2>7. \A u \in Thread : Alone(u)'
    BY <1>0, <2>1, <2>2 DEF Alone, writerVars
  <2> QED
    BY <2>3, <2>4, <2>5, <2>6, <2>7 DEF IInv
<1> QED
  BY <1>1, <1>2, WordStepKept
     DEF Next, Start, Proceed, Leave, LockStep, WordStep

-----------------------------------------------------------------------------
(* The inductive invariant holds of every behaviour of a build whose       *)
(* compare-and-exchange tells the truth.                                   *)
THEOREM Invariance == Build = "X86" => (Spec => []IInv)
<1> SUFFICES ASSUME Build = "X86" PROVE Spec => []IInv
  OBVIOUS
<1>1. IInv /\ [Next]_vars => IInv'
  BY NextIInv
<1> QED
  BY <1>1, InitIInv, PTL DEF Spec

(* A writer in its section and a reader in its own are the same thread,    *)
(* whichever looked first and at which word.                               *)
THEOREM Exclusion == Build = "X86" => (Spec => []WriterExcludesReaders)
<1>1. IInv => WriterExcludesReaders
  BY DEF IInv, WriterExcludesReaders, Writing, PlaceIn, Alone
<1> QED
  BY <1>1, Invariance, PTL

(* writer is set exactly while there is a write section, and to the thread *)
(* in it: the comparison that lets a contended reader in admits nobody     *)
(* else.                                                                   *)
THEOREM KnownWriter == Build = "X86" => (Spec => []WriterIsKnown)
<1>1. IInv => WriterIsKnown
  BY DEF IInv, TypeOK, WriterIsKnown, Writing, PlaceIn
<1> QED
  BY <1>1, Invariance, PTL

(* With spin_yield_rwlock nothing is ever left in num_readers that no      *)
(* reader will take out again.                                             *)
THEOREM ExactCount == Build = "X86" => (Spec => []ReadersCounted)
<1>1. IInv => ReadersCounted
  BY DEF IInv, Counted, ReadersCounted
<1> QED
  BY <1>1, Invariance, PTL

(* The thread that the abstract lock has in its write section is the one   *)
(* that writer names.                                                      *)
LEMMA OwnerIsWriter == IInv => Owner = writer
<1> SUFFICES ASSUME IInv PROVE Owner = writer
  OBVIOUS
<1>1. \A t \in Thread : Writing(t) <=> writer = t
  BY DEF IInv, PlaceIn, Writing
<1>2. writer \in Thread \cup {NoThread} /\ NoThread \notin Thread
  BY ThreadAssumption DEF IInv, TypeOK
<1> QED
  BY <1>1, <1>2 DEF Owner

(* Seen by the sections it grants, the lock is ReadersWriter: each read    *)
(* and write section begins and ends in one step, and begins only when the *)
(* sections there are allow it.                                            *)
THEOREM Refinement == Build = "X86" => (Spec => ImplementsReadersWriter)
<1> SUFFICES ASSUME Build = "X86" PROVE Spec => ImplementsReadersWriter
  OBVIOUS
<1>1. Init => Abstract!Init
  <2> SUFFICES ASSUME Init PROVE Abstract!Init
    OBVIOUS
  <2>1. Readers = {}
    BY DEF Init, Readers
  <2>2. Owner = NoThread
    BY InitIInv, OwnerIsWriter DEF Init
  <2> QED
    BY <2>1, <2>2 DEF Abstract!Init
<1>2. (IInv => Owner = writer)'
  BY OwnerIsWriter, PTL
<1>3. IInv /\ IInv' /\ [Next]_vars => [Abstract!Next]_<<Readers, Owner>>
  <2> SUFFICES ASSUME IInv, IInv', [Next]_vars
               PROVE  Abstract!Next \/ UNCHANGED <<Readers, Owner>>
    OBVIOUS
  <2>0. /\ Owner = writer /\ Owner' = writer'
        /\ Mx!IInv /\ at \in [Thread -> Location]
        /\ writer \in Thread \cup {NoThread}
        /\ \A u \in Thread : PlaceIn(u) /\ Alone(u)
    BY OwnerIsWriter, <1>2 DEF IInv, TypeOK
  <2>1. CASE UNCHANGED vars
    BY <2>0, <2>1 DEF vars, writerVars, Readers
  <2>2. ASSUME NEW t \in Thread, WriterReads(t)
        PROVE  Abstract!EnterRead(t)
    BY <2>0, <2>2
       DEF WriterReads, From, Goto, writerVars, Readers, Abstract!EnterRead
  <2>3. ASSUME NEW t \in Thread, Check(t)
        PROVE  Abstract!EnterRead(t) \/ UNCHANGED <<Readers, Owner>>
    <3>1. CASE Locked
      BY <2>0, <2>3, <3>1 DEF Check, From, Goto, writerVars, Readers
    <3>2. CASE ~ Locked
      <4>1. writer = NoThread
        BY <2>0, <3>2, HeldMeansLocked DEF PlaceIn
      <4> QED
        BY <2>0, <2>3, <3>2, <4>1
           DEF Check, From, Goto, writerVars, Readers, Abstract!EnterRead
    <3> QED
      BY <3>1, <3>2
  <2>4. ASSUME NEW t \in Thread, ReadUnlock(t)
        PROVE  Abstract!LeaveRead(t)
    BY <2>0, <2>4
       DEF ReadUnlock, From, Goto, writerVars, Readers, Abstract!LeaveRead
  <2>5. ASSUME NEW t \in Thread, Claim(t)
        PROVE  Abstract!EnterWrite(t)
    <3>1. at[t] = "claim" /\ pc[t] = "held"
      BY <2>0, <2>5 DEF Claim, From, PlaceIn
    <3>2. Readers = {}
      BY <2>0, <3>1 DEF Alone, Readers
    <3>3. writer = NoThread
      BY <2>0, <3>1 DEF PlaceIn, WriterPlaces, Mx!IInv, Mx!MutualExclusion
    <3>4. Readers' = Readers
      BY <2>0, <2>5 DEF Claim, From, Goto, Readers
    <3> QED
      BY <2>0, <2>5, <3>2, <3>3, <3>4 DEF Claim, Abstract!EnterWrite
  <2>6. ASSUME NEW t \in Thread, WriteUnlock(t)
        PROVE  Abstract!LeaveWrite(t)
    BY <2>0, <2>6
       DEF WriteUnlock, From, Goto, Readers, PlaceIn, Abstract!LeaveWrite
  <2>7. ASSUME NEW t \in Thread,
               \/ StartRead(t) \/ TestLock(t) \/ Contend(t) \/ Retest(t)
               \/ Unpend(t) \/ Announce(t) \/ Withdraw(t) \/ Drain(t)
               \/ TestEmpty(t)
        PROVE  UNCHANGED <<Readers, Owner>>
    BY <2>0, <2>7
       DEF StartRead, TestLock, Contend, Retest, Unpend, Announce, Withdraw,
           Drain, TestEmpty, From, Goto, writerVars, Readers
  <2>8. ASSUME NEW t \in Thread, LockStep(t)
        PROVE  UNCHANGED <<Readers, Owner>>
    <3>1. UNCHANGED writer /\ at[t] # "reading"
      BY <2>0, <2>8, LockStepPlace
         DEF writerVars, LockStep, StartWrite, LockMutex, StartWriteTrylock,
             TrylockMutex, UnlockMutex, From
    <3>2. PICK m \in Location : at' = [at EXCEPT ![t] = m] /\ m # "reading"
      BY <2>8, LockStepPlace
    <3> QED
      BY <2>0, <3>1, <3>2 DEF Readers
  <2> QED
    BY <2>1, <2>2, <2>3, <2>4, <2>5, <2>6, <2>7, <2>8
       DEF Next, Start, Proceed, Leave, LockStep, Abstract!Next
<1>4. Spec => []IInv
  BY Invariance
<1> QED
  BY <1>1, <1>3, <1>4, PTL DEF Spec, ImplementsReadersWriter, Abstract!Spec

-----------------------------------------------------------------------------
(***************************************************************************)
(* recursive_lock_t                                                        *)
(***************************************************************************)
(* The mutex's own place of a thread that is at l in the recursive lock.   *)
RecursivePlaceIn(t) ==
    /\ at[t] = "out" => pc[t] = IF depth[t] > 0 THEN "held" ELSE "idle"
    /\ at[t] = "mutex" => pc[t] \in Mx!Locking
    /\ at[t] = "trylock" => pc[t] = "trylock"
    /\ at[t] = "own" => pc[t] = "held"
    /\ at[t] = "unlock" => pc[t] \in {"held", "notify"}
    /\ at[t] # "out" => depth[t] = 0

(* NestingIsExact says nothing of a thread that has the mutex and is about *)
(* to call itself the owner, nor of one that no longer does.               *)
RecursiveIInv == /\ RecursiveTypeOK
                 /\ Mx!IInv
                 /\ \A t \in Thread : RecursivePlaceIn(t)
                 /\ NestingIsExact
                 /\ owner = NoThread => count = 0

-----------------------------------------------------------------------------
LEMMA RecursiveInitIInv == RecursiveInit => RecursiveIInv
<1> SUFFICES ASSUME RecursiveInit PROVE RecursiveIInv
  OBVIOUS
<1>1. Lock!TypeOK
  BY BuildAssumption
     DEF RecursiveInit, Lock!Init, Lock!TypeOK, Lock!Location, Lock!LOCK_FREE_STATE
<1>2. RecursiveTypeOK
  BY <1>1, MaxDepthAssumption DEF RecursiveInit, RecursiveTypeOK, RecursiveLocation
<1>3. Mx!Init
  BY DEF RecursiveInit, Lock!Init, Mx!Init, Lock!LOCK_FREE_STATE, Mx!LOCK_FREE_STATE
<1>4. Mx!IInv
  BY <1>3, Mx!InitIInv, MutexAssumptions
<1>5. \A t \in Thread : RecursivePlaceIn(t)
  BY DEF RecursiveInit, Lock!Init, RecursivePlaceIn
<1>6. NestingIsExact
  BY ThreadAssumption DEF RecursiveInit, NestingIsExact
<1> QED
  BY <1>2, <1>4, <1>5, <1>6 DEF RecursiveIInv, RecursiveInit

(* Every step is at most one of the mutex inside. *)
LEMMA RecursiveNextIInv ==
  Build = "X86" /\ RecursiveIInv /\ [RecursiveNext]_recursiveVars => RecursiveIInv'
<1> SUFFICES ASSUME Build = "X86", RecursiveIInv, [RecursiveNext]_recursiveVars PROVE RecursiveIInv'
  OBVIOUS
<1> USE MaxDepthAssumption, ThreadAssumption
<1>0. /\ RecursiveTypeOK /\ Mx!IInv /\ NestingIsExact
      /\ \A t \in Thread : RecursivePlaceIn(t)
      /\ owner = NoThread => count = 0
      /\ \A t, u \in Thread : pc[t] = "held" /\ pc[u] = "held" => t = u
      /\ pc \in [Thread -> Mx!Location]
      /\ at \in [Thread -> RecursiveLocation] /\ depth \in [Thread -> 0 .. MaxDepth]
  BY DEF RecursiveIInv, Mx!IInv, Mx!MutualExclusion, RecursiveTypeOK, Lock!TypeOK,
         Lock!Location,
         Mx!Location
<1>1. CASE UNCHANGED recursiveVars
  BY <1>1, MutexKept
     DEF recursiveVars, lockVars, RecursiveIInv, RecursiveTypeOK, Lock!TypeOK,
         RecursivePlaceIn, NestingIsExact
<1>2. ASSUME NEW t \in Thread,
             \/ StartAcquire(t) \/ StartTry(t) \/ TakeMutex(t) \/ Unlock(t)
      PROVE  RecursiveIInv'
  <2>1. Mx!Step(t)
    BY <1>2, MutexStep DEF StartAcquire, StartTry, TakeMutex, Unlock
  <2>2. Mx!IInv'
    BY <2>1, <1>0, MutexKept DEF Mx!Next
  <2>3. Lock!TypeOK'
    BY <2>2 DEF Mx!IInv, Mx!TypeOK, Mx!Location, Lock!TypeOK, Lock!Location
  <2>4. UNCHANGED <<owner, count, depth>>
    BY <1>2 DEF StartAcquire, StartTry, TakeMutex, Unlock
  <2>5. PICK l : /\ pc' = [pc EXCEPT ![t] = l]
                 /\ pc[t] = "idle" => l \in Mx!Locking \cup {"trylock"}
                 /\ pc[t] \in Mx!Locking => l \in Mx!Locking \cup {"held"}
                 /\ pc[t] = "trylock" => l \in {"held", "idle"}
                 /\ pc[t] = "held" => l \in {"idle", "notify"}
                 /\ pc[t] = "notify" => l = "idle"
    BY <1>0, <2>1, MutexMoves
  <2>6. pc'[t] = l /\ at' = [at EXCEPT ![t] = at'[t]]
    BY <1>0, <1>2, <2>5 DEF StartAcquire, StartTry, TakeMutex, Unlock, Goto
  <2>7. at'[t] \in RecursiveLocation /\ RecursivePlaceIn(t)'
    <3>1. CASE StartAcquire(t)
      <4>1. /\ at'[t] = "mutex" /\ l \in Mx!Locking /\ depth'[t] = 0
        BY <3>1, <1>0, <2>4, <2>5, <2>6
           DEF StartAcquire, Goto, Lock!StartLock, Lock!Goto, Mx!Locking,
               NestingIsExact
      <4> QED
        BY <4>1, <2>6 DEF RecursivePlaceIn, RecursiveLocation
    <3>2. CASE StartTry(t)
      <4>1. /\ at'[t] = "trylock" /\ l = "trylock" /\ depth'[t] = 0
        BY <3>2, <1>0, <2>4, <2>5, <2>6
           DEF StartTry, Goto, Lock!StartTrylock, Lock!Goto, NestingIsExact
      <4> QED
        BY <4>1, <2>6 DEF RecursivePlaceIn, RecursiveLocation
    <3>3. CASE TakeMutex(t)
      <4>1. /\ at[t] \in {"mutex", "trylock"} /\ depth'[t] = 0
            /\ at'[t] = CASE l = "held" -> "own"
                          [] l = "idle" -> "out"
                          [] OTHER -> at[t]
        BY <3>3, <1>0, <2>4, <2>6 DEF TakeMutex, Goto, RecursivePlaceIn
      <4>2. CASE at[t] = "mutex"
        BY <4>1, <4>2, <1>0, <2>5, <2>6 DEF RecursivePlaceIn, RecursiveLocation,
                                            Mx!Locking
      <4>3. CASE at[t] = "trylock"
        BY <4>1, <4>3, <1>0, <2>5, <2>6 DEF RecursivePlaceIn, RecursiveLocation,
                                            Mx!Locking
      <4> QED
        BY <4>1, <4>2, <4>3
    <3>4. CASE Unlock(t)
      <4>1. /\ at[t] = "unlock" /\ depth'[t] = 0
            /\ at'[t] = IF l = "idle" THEN "out" ELSE "unlock"
        BY <3>4, <1>0, <2>4, <2>6 DEF Unlock, Goto, RecursivePlaceIn
      <4> QED
        BY <4>1, <1>0, <2>5, <2>6 DEF RecursivePlaceIn, RecursiveLocation
    <3> QED
      BY <1>2, <3>1, <3>2, <3>3, <3>4
  <2>8. RecursiveTypeOK'
    BY <2>3, <2>4, <2>6, <2>7, <1>0 DEF RecursiveTypeOK
  <2>9. \A u \in Thread : RecursivePlaceIn(u)'
    BY <1>0, <2>4, <2>5, <2>6, <2>7 DEF RecursivePlaceIn
  <2>10. NestingIsExact'
    BY <1>0, <1>2, <2>4, <2>5
       DEF NestingIsExact, RecursivePlaceIn, StartAcquire, StartTry, TakeMutex, Unlock
  <2> QED
    BY <1>0, <2>2, <2>4, <2>8, <2>9, <2>10 DEF RecursiveIInv
<1>3. ASSUME NEW t \in Thread, Reacquire(t) \/ Own(t) \/ Release(t)
      PROVE  RecursiveIInv'
  <2>1. UNCHANGED lockVars
    BY <1>3 DEF Reacquire, Own, Release
  <2>2. Mx!IInv'
    BY <2>1, <1>0, MutexKept
  <2>3. \A u \in Thread : pc'[u] = pc[u]
    BY <2>1 DEF lockVars
  <2>4. CASE Reacquire(t)
    <3>1. depth[t] > 0 /\ count = depth[t] /\ pc[t] = "held"
      BY <2>4, <1>0 DEF Reacquire, NestingIsExact
    <3>2. RecursiveTypeOK'
      BY <2>1, <2>4, <3>1, <1>0 DEF RecursiveTypeOK, Lock!TypeOK, lockVars, Reacquire
    <3>3. \A u \in Thread : RecursivePlaceIn(u)'
      BY <1>0, <2>3, <2>4, <3>1 DEF RecursivePlaceIn, Reacquire
    <3>4. NestingIsExact'
      BY <1>0, <2>3, <2>4, <3>1 DEF NestingIsExact, Reacquire
    <3> QED
      BY <2>2, <2>4, <3>2, <3>3, <3>4 DEF RecursiveIInv, Reacquire
  <2>5. CASE Own(t)
    <3>1. pc[t] = "held" /\ depth[t] = 0
      BY <2>5, <1>0 DEF Own, RecursivePlaceIn
    <3>2. \A u \in Thread : depth[u] = 0
      BY <1>0, <3>1 DEF NestingIsExact
    <3>3. RecursiveTypeOK'
      BY <2>1, <2>5, <3>1, <1>0 DEF RecursiveTypeOK, Lock!TypeOK, lockVars, Own, Goto,
                                    RecursiveLocation
    <3>4. \A u \in Thread : RecursivePlaceIn(u)'
      BY <1>0, <2>3, <2>5, <3>1 DEF RecursivePlaceIn, Own, Goto
    <3>5. NestingIsExact'
      BY <1>0, <2>3, <2>5, <3>1, <3>2 DEF NestingIsExact, Own
    <3> QED
      BY <2>2, <2>5, <3>3, <3>4, <3>5 DEF RecursiveIInv, Own
  <2>6. CASE Release(t)
    <3>1. owner = t /\ count = depth[t] /\ pc[t] = "held"
      BY <2>6, <1>0 DEF Release, NestingIsExact
    <3>2. \A u \in Thread : u # t => depth[u] = 0
      BY <1>0, <3>1 DEF NestingIsExact
    <3>3. count' = count - 1 /\ depth' = [depth EXCEPT ![t] = count']
      BY <2>6, <3>1, <1>0 DEF Release
    <3>4. CASE count' = 0
      <4>1. owner' = NoThread /\ at' = [at EXCEPT ![t] = "unlock"]
        BY <2>6, <3>4 DEF Release, Goto
      <4>2. RecursiveTypeOK'
        BY <2>1, <3>3, <3>4, <4>1, <1>0 DEF RecursiveTypeOK, Lock!TypeOK, lockVars,
                                            RecursiveLocation
      <4>3. \A u \in Thread : RecursivePlaceIn(u)'
        BY <1>0, <2>3, <3>1, <3>3, <3>4, <4>1 DEF RecursivePlaceIn
      <4>4. NestingIsExact'
        BY <1>0, <3>2, <3>3, <3>4, <4>1 DEF NestingIsExact
      <4> QED
        BY <2>2, <3>4, <4>2, <4>3, <4>4 DEF RecursiveIInv
    <3>5. CASE count' # 0
      <4>1. owner' = t /\ at' = at
        BY <2>6, <3>1, <3>5 DEF Release
      <4>2. count' \in 0 .. MaxDepth /\ count' > 0
        BY <1>0, <2>6, <3>1, <3>3, <3>5 DEF RecursiveTypeOK, Release
      <4>3. RecursiveTypeOK'
        BY <2>1, <3>3, <4>1, <4>2, <1>0 DEF RecursiveTypeOK, Lock!TypeOK, lockVars
      <4>4. \A u \in Thread : RecursivePlaceIn(u)'
        BY <1>0, <2>3, <2>6, <3>1, <3>3, <4>1, <4>2 DEF RecursivePlaceIn, Release
      <4>5. NestingIsExact'
        BY <1>0, <2>3, <3>1, <3>2, <3>3, <4>1, <4>2 DEF NestingIsExact
      <4> QED
        BY <2>2, <4>1, <4>3, <4>4, <4>5 DEF RecursiveIInv
    <3> QED
      BY <3>4, <3>5
  <2> QED
    BY <1>3, <2>4, <2>5, <2>6
<1> QED
  BY <1>1, <1>2, <1>3 DEF RecursiveNext

-----------------------------------------------------------------------------
(* The inductive invariant holds of every behaviour of a build whose       *)
(* compare-and-exchange tells the truth.                                   *)
THEOREM RecursiveInvariance == Build = "X86" => (RecursiveSpec => []RecursiveIInv)
<1> SUFFICES ASSUME Build = "X86" PROVE RecursiveSpec => []RecursiveIInv
  OBVIOUS
<1>1. RecursiveIInv /\ [RecursiveNext]_recursiveVars => RecursiveIInv'
  BY RecursiveNextIInv
<1> QED
  BY <1>1, RecursiveInitIInv, PTL DEF RecursiveSpec

(* The lock names the one thread that has acquisitions outstanding, and    *)
(* counts them, whatever comparison with owner races with what.            *)
THEOREM Nesting == Build = "X86" => (RecursiveSpec => []NestingIsExact)
<1>1. RecursiveIInv => NestingIsExact
  BY DEF RecursiveIInv
<1> QED
  BY <1>1, RecursiveInvariance, PTL

(* Seen by its outermost acquisitions and releases, recursive_lock_t is a  *)
(* mutex: the thread that calls itself the owner has the mutex inside.     *)
THEOREM RecursiveRefinement == Build = "X86" => (RecursiveSpec => ImplementsMutex)
<1> SUFFICES ASSUME Build = "X86" PROVE RecursiveSpec => ImplementsMutex
  OBVIOUS
<1>1. RecursiveInit => Outermost!Init
  BY DEF RecursiveInit, Outermost!Init
<1>2. RecursiveIInv /\ [RecursiveNext]_recursiveVars => [Outermost!Next]_owner
  <2> SUFFICES ASSUME RecursiveIInv, [RecursiveNext]_recursiveVars
               PROVE  Outermost!Next \/ UNCHANGED owner
    OBVIOUS
  <2>1. CASE UNCHANGED recursiveVars
    BY <2>1 DEF recursiveVars
  <2>2. ASSUME NEW t \in Thread, Own(t) PROVE Outermost!Next
    <3>1. pc[t] = "held" /\ depth[t] = 0
      BY <2>2 DEF RecursiveIInv, Own, RecursivePlaceIn
    <3>2. owner = NoThread
      BY <3>1 DEF RecursiveIInv, RecursiveTypeOK, NestingIsExact, Mx!IInv,
                  Mx!MutualExclusion
    <3> QED
      BY <2>2, <3>2 DEF Own, Outermost!Next, Outermost!Acquire
  <2>3. ASSUME NEW t \in Thread, Release(t)
        PROVE  Outermost!Next \/ UNCHANGED owner
    BY <2>3 DEF RecursiveIInv, NestingIsExact, Release, Outermost!Next, Outermost!Release
  <2>4. ASSUME NEW t \in Thread,
               \/ Reacquire(t) \/ StartAcquire(t) \/ StartTry(t)
               \/ TakeMutex(t) \/ Unlock(t)
        PROVE  UNCHANGED owner
    BY <2>4 DEF Reacquire, StartAcquire, StartTry, TakeMutex, Unlock
  <2> QED
    BY <2>1, <2>2, <2>3, <2>4 DEF RecursiveNext
<1>3. RecursiveSpec => []RecursiveIInv
  BY RecursiveInvariance
<1> QED
  BY <1>1, <1>2, <1>3, PTL DEF RecursiveSpec, ImplementsMutex, Outermost!Spec
=============================================================================
