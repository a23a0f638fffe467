------------------------------- MODULE RWLock -------------------------------
(***************************************************************************)
(* read_write_lock_t (core/utils.c), composed with the word-level mutex_t  *)
(* it contains: writers exclude each other by the mutex, readers announce  *)
(* themselves in num_readers and look at the mutex again.  One step is one *)
(* access to a shared word.  On Linux rwlock_notify_* do nothing and       *)
(* rwlock_wait_contended_* only yield, so a wait is one more turn of the   *)
(* loop it stands in.                                                      *)
(***************************************************************************)
EXTENDS InnerMutex

CONSTANT MaxReaders     \* bound on the leak of num_readers in Contend

ASSUME MaxReadersAssumption == MaxReaders \in Nat

VARIABLES num_readers,
          num_pending_readers,
          writer,
          spin_yield_rwlock     \* INTERNAL_OPTION, default FALSE

countVars == <<num_readers, num_pending_readers>>
writerVars == <<writer, spin_yield_rwlock>>
vars == <<lockVars, countVars, writerVars, at>>

(* Readers: "test" is while (mutex_testlock), "contended" the comparison   *)
(* with writer, "retest" and "unpend" the rest of the contended turn,      *)
(* "announce" the fast path's increment, "check" its test and "withdraw"   *)
(* its decrement.  Writers: "mutex" is mutex_lock, "drain" is while        *)
(* (num_readers > 0), "trylock" and "empty" are write_trylock, "claim" the *)
(* assignment of writer, "unlock" the mutex_unlock at the end.             *)
Location == {"out", "test", "contended", "retest", "unpend", "announce",
             "check", "withdraw", "reading", "mutex", "drain", "trylock",
             "empty", "claim", "writing", "unlock"}

Init == /\ Lock!Init
        /\ num_readers = 0
        /\ num_pending_readers = 0
        /\ writer = NoThread
        /\ spin_yield_rwlock \in BOOLEAN
        /\ at = [t \in Thread |-> "out"]

(* mutex_testlock(&rw->lock) *)
Locked == lock_requests > Lock!LOCK_FREE_STATE

-----------------------------------------------------------------------------
(* read_lock *)

(* The application of the lock nests a read section in a write section     *)
(* ("we store the writer so that writers can be readers").                 *)
StartRead(t) == /\ at[t] \in {"out", "writing"}
                /\ Goto(t, "test")
                /\ UNCHANGED <<lockVars, countVars, writerVars>>

TestLock(t) == /\ From(t, "test", IF Locked THEN "contended" ELSE "announce")
               /\ UNCHANGED <<lockVars, countVars, writerVars>>

(* A contended reader that is the writer itself is let in. *)
WriterReads(t) == /\ From(t, "contended", "reading")
                  /\ writer = t
                  /\ num_readers' = num_readers + 1
                  /\ UNCHANGED <<lockVars, num_pending_readers, writerVars>>

(* Any other yields and tests again; on the default path it first counts   *)
(* itself, in num_readers and not in num_pending_readers, turn after turn. *)
Contend(t) == /\ writer # t
              /\ IF spin_yield_rwlock
                   THEN From(t, "contended", "test") /\ UNCHANGED num_readers
                   ELSE /\ From(t, "contended", "retest")
                        /\ num_readers < MaxReaders
                        /\ num_readers' = num_readers + 1
              /\ UNCHANGED <<lockVars, num_pending_readers, writerVars>>

(* Whether the lock is still held only decides whether to yield. *)
Retest(t) == /\ From(t, "retest", "unpend")
             /\ UNCHANGED <<lockVars, countVars, writerVars>>

(* atomic_dec_becomes_zero(&num_pending_readers) *)
Unpend(t) == /\ From(t, "unpend", "test")
             /\ num_pending_readers' = num_pending_readers - 1
             /\ UNCHANGED <<lockVars, num_readers, writerVars>>

Announce(t) == /\ From(t, "announce", "check")
               /\ num_readers' = num_readers + 1
               /\ UNCHANGED <<lockVars, num_pending_readers, writerVars>>

(* Mutant of Check: the race with a writer is not looked for. *)
TakeForGranted(t) == /\ From(t, "check", "reading")
                     /\ UNCHANGED <<lockVars, countVars, writerVars>>

Check(t) == /\ From(t, "check", IF Locked THEN "withdraw" ELSE "reading")
            /\ UNCHANGED <<lockVars, countVars, writerVars>>

(* Mutant of Withdraw: a reader that backs out stays counted. *)
WithdrawUncounted(t) == /\ From(t, "withdraw", "test")
                        /\ UNCHANGED <<lockVars, countVars, writerVars>>

Withdraw(t) == /\ From(t, "withdraw", "test")
               /\ num_readers' = num_readers - 1
               /\ UNCHANGED <<lockVars, num_pending_readers, writerVars>>

(* read_unlock; a nested reader is back in its write section. *)
ReadUnlock(t) ==
    /\ From(t, "reading", IF writer = t THEN "writing" ELSE "out")
    /\ num_readers' = num_readers - 1
    /\ UNCHANGED <<lockVars, num_pending_readers, writerVars>>

-----------------------------------------------------------------------------
(* write_lock and write_trylock *)

StartWrite(t) == /\ From(t, "out", "mutex")
                 /\ Lock!StartLock(t)
                 /\ UNCHANGED <<countVars, writerVars>>

(* A step of mutex_lock, which goes on to drain the readers once it        *)
(* returns.                                                                *)
LockMutex(t) == /\ at[t] = "mutex"
                /\ Lock!Proceed(t)
                /\ Goto(t, IF pc'[t] = "held" THEN "drain" ELSE "mutex")
                /\ UNCHANGED <<countVars, writerVars>>

(* Mutant of Drain: the writer leaves the loop on the second reader only.  *)
DrainAllButOne(t) == /\ From(t, "drain", "claim")
                     /\ num_readers <= 1
                     /\ UNCHANGED <<lockVars, countVars, writerVars>>

(* while (num_readers > 0) yield: the turns that stay in the loop stutter. *)
Drain(t) == /\ From(t, "drain", "claim")
            /\ num_readers <= 0
            /\ UNCHANGED <<lockVars, countVars, writerVars>>

StartWriteTrylock(t) == /\ From(t, "out", "trylock")
                        /\ Lock!StartTrylock(t)
                        /\ UNCHANGED <<countVars, writerVars>>

TrylockMutex(t) == /\ at[t] = "trylock"
                   /\ Lock!Trylock(t)
                   /\ Goto(t, CASE pc'[t] = "held" -> "empty"
                                [] pc'[t] = "idle" -> "out"
                                [] OTHER -> "trylock")
                   /\ UNCHANGED <<countVars, writerVars>>

(* write_trylock gives the mutex back when there are readers. *)
TestEmpty(t) == /\ From(t, "empty", IF num_readers = 0 THEN "claim" ELSE "unlock")
                /\ UNCHANGED <<lockVars, countVars, writerVars>>

Claim(t) == /\ From(t, "claim", "writing")
            /\ writer' = t
            /\ UNCHANGED <<lockVars, countVars, spin_yield_rwlock>>

-----------------------------------------------------------------------------
(* write_unlock *)

(* Mutant of WriteUnlock: writer is left to the next writer to overwrite. *)
KeepWriter(t) == /\ From(t, "writing", "unlock")
                 /\ UNCHANGED <<lockVars, countVars, writerVars>>

WriteUnlock(t) == /\ From(t, "writing", "unlock")
                  /\ writer' = NoThread
                  /\ UNCHANGED <<lockVars, countVars, spin_yield_rwlock>>

(* mutex_unlock; what follows it notifies nobody on Linux. *)
UnlockMutex(t) == /\ at[t] = "unlock"
                  /\ Lock!Unlock(t) \/ Lock!Notify(t)
                  /\ Goto(t, IF pc'[t] = "idle" THEN "out" ELSE "unlock")
                  /\ UNCHANGED <<countVars, writerVars>>

-----------------------------------------------------------------------------
(* What a thread does once it is in a routine, to the end of it ... *)
Proceed(t) == \/ TestLock(t) \/ WriterReads(t) \/ Contend(t)
              \/ Retest(t) \/ Unpend(t)
              \/ Announce(t) \/ Check(t) \/ Withdraw(t)
              \/ LockMutex(t) \/ Drain(t) \/ TrylockMutex(t)
              \/ TestEmpty(t) \/ Claim(t) \/ UnlockMutex(t)

(* ... how it leaves a section ... *)
Leave(t) == ReadUnlock(t) \/ WriteUnlock(t)

(* ... and what it starts. *)
Start(t) == StartRead(t) \/ StartWrite(t) \/ StartWriteTrylock(t)

Next == \E t \in Thread : Start(t) \/ Proceed(t) \/ Leave(t)

Spec == Init /\ [][Next]_vars

(* Every runnable thread is scheduled, and a writer does not nest read     *)
(* sections for ever; a thread need not ask for the lock.                  *)
Fairness == \A t \in Thread : /\ WF_vars(Proceed(t))
                              /\ WF_vars(ReadUnlock(t))
                              /\ SF_vars(WriteUnlock(t))

FairSpec == Spec /\ Fairness

-----------------------------------------------------------------------------
TypeOK == /\ Lock!TypeOK
          /\ num_readers \in Nat
          /\ num_pending_readers \in Int
          /\ writer \in Thread \cup {NoThread}
          /\ spin_yield_rwlock \in BOOLEAN
          /\ at \in [Thread -> Location]

Readers == {t \in Thread : at[t] = "reading"}

(* The threads that num_readers counts: those in a read section and those  *)
(* that have announced themselves and have yet to look at the mutex.       *)
Announced == {t \in Thread : at[t] \in {"check", "withdraw", "reading"}}

(* The thread between the assignment of writer and its reset, in a read    *)
(* section of its own or not.                                              *)
Writing(t) == /\ pc[t] = "held"
              /\ \/ at[t] = "writing"
                 \/ writer = t

Owner == IF \E t \in Thread : Writing(t)
           THEN CHOOSE t \in Thread : Writing(t)
           ELSE NoThread

(* No reader but the writer itself is in its section while a writer is in  *)
(* its own, although the reader counts itself in one word and looks at     *)
(* another, and the writer does so in the opposite order.                  *)
WriterExcludesReaders ==
    \A t, u \in Thread : Writing(t) /\ at[u] = "reading" => t = u

(* writer names the thread in the write section, all through it and never  *)
(* longer: a stale value would let its former owner read past another      *)
(* writer.                                                                 *)
WriterIsKnown ==
    /\ \A t \in Thread : at[t] = "writing" => writer = t
    /\ writer # NoThread => Writing(writer)

(* On the spin-yield path num_readers counts exactly the announced         *)
(* readers: contention and backed out attempts leave nothing behind that a *)
(* writer would wait for.                                                  *)
ReadersCounted ==
    spin_yield_rwlock => num_readers = Cardinality(Announced)

(* "readers that have contended with a writer" (utils.h): what             *)
(* num_pending_readers is meant to count on the default path.              *)
PendingReadersCounted ==
    num_pending_readers =
        Cardinality({t \in Thread : at[t] \in {"retest", "unpend"}})

(* On the spin-yield path a writer that has the mutex gets its section     *)
(* once the readers leave: no stream of new readers keeps it out.          *)
WriterGetsIn ==
    \A t \in Thread :
        (spin_yield_rwlock /\ at[t] = "drain") ~> (at[t] = "writing")

Abstract == INSTANCE ReadersWriter WITH readers <- Readers, owner <- Owner

(* The lock is a readers-writer lock. *)
ImplementsReadersWriter == Abstract!Spec
=============================================================================
