----------------------------- MODULE FlushSynch -----------------------------
(***************************************************************************)
(* How DynamoRIO flushes code fragments while other threads run            *)
(* (core/fragment.c, core/dispatch.c).  Every thread is either nolinking   *)
(* (in the code cache, in a system call or in a handler) or couldbelinking *)
(* (in DynamoRIO proper, free to change links and tables).  A flusher      *)
(* synchronizes with the threads one at a time through their               *)
(* per_thread_t: two booleans under linking_lock and three events.         *)
(*                                                                         *)
(* What a thread does between mutex_lock(&pt->linking_lock) and the next   *)
(* unlock is one step: everything it reads and writes there belongs to pt  *)
(* and is written under that lock, except at_syscall, which is read once.  *)
(* linking_lock therefore only appears held when it is left held.          *)
(***************************************************************************)
EXTENDS Integers

CONSTANTS Thread,
          NoThread,
          MaxFlushtime,    \* bound: flushes of a behaviour
          Cleanup          \* may a thread clean up after another one?

ASSUME NoThreadAssumption == NoThread \notin Thread
ASSUME MaxFlushtimeAssumption == MaxFlushtime \in Nat
ASSUME CleanupAssumption == Cleanup \in BOOLEAN

VARIABLES pc,                    \* where each thread is
          \* per_thread_t
          could_be_linking, wait_for_unlink, soon_to_be_linking,
          at_syscall_at_flush,
          linking_lock,          \* is it held and never released?
          waiting_for_unlink, finished_with_unlink, finished_all_unlink,
          \* dcontext_t
          at_syscall,
          \* globals
          flusher,               \* also the holder of thread_initexit_lock
          flush_threads,         \* those the flusher's loop has yet to visit
          flushee,               \* tgt_dcontext while the flusher waits
          flushtime_global

perThread == <<could_be_linking, wait_for_unlink, soon_to_be_linking,
               at_syscall_at_flush, linking_lock>>
events == <<waiting_for_unlink, finished_with_unlink, finished_all_unlink>>
flush == <<flusher, flush_threads, flushee, flushtime_global>>
vars == <<pc, perThread, events, at_syscall, flush>>

Location == {"unborn", "nolinking", "syscall", "dead", "linking",
             \* wait_for_flusher_nolinking: in wait_for_event, and after it
             "wait_all", "woken_all",
             \* wait_for_flusher_linking: before, in and after wait_for_event
             "signal", "wait_with", "woken_with",
             \* the flusher's stage 1, its wait in it, and its stage 3
             "stage1", "wait_unlink", "woken_unlink", "stage3"}

AllFalse == [t \in Thread |-> FALSE]

Init == /\ pc \in [Thread -> {"unborn", "nolinking"}]
        /\ could_be_linking = AllFalse
        /\ wait_for_unlink = AllFalse
        /\ soon_to_be_linking = AllFalse
        /\ at_syscall_at_flush = AllFalse
        /\ linking_lock = AllFalse
        /\ waiting_for_unlink = AllFalse
        /\ finished_with_unlink = AllFalse
        /\ finished_all_unlink = AllFalse
        /\ at_syscall = AllFalse
        /\ flusher = NoThread
        /\ flush_threads = {}
        /\ flushee = NoThread
        /\ flushtime_global = 0

Goto(t, l) == pc' = [pc EXCEPT ![t] = l]
Raise(f, t) == f' = [f EXCEPT ![t] = TRUE]
Clear(f, t) == f' = [f EXCEPT ![t] = FALSE]

(* all_threads: a thread is listed from its initialization on, and in this *)
(* port nothing takes it off again.                                        *)
Listed == {t \in Thread : pc[t] # "unborn"}

-----------------------------------------------------------------------------
(* The life of a thread *)

(* dynamo_thread_init holds thread_initexit_lock. *)
ThreadInit(t) == /\ pc[t] = "unborn"
                 /\ flusher = NoThread
                 /\ Goto(t, "nolinking")
                 /\ UNCHANGED <<perThread, events, at_syscall, flush>>

(* handle_system_call marks the thread before the call, without a lock ... *)
StartSyscall(t) == /\ pc[t] = "nolinking"
                   /\ Goto(t, "syscall")
                   /\ Raise(at_syscall, t)
                   /\ UNCHANGED <<perThread, events, flush>>

(* ... and handle_post_system_call unmarks it. *)
EndSyscall(t) == /\ pc[t] = "syscall"
                 /\ Goto(t, "nolinking")
                 /\ Clear(at_syscall, t)
                 /\ UNCHANGED <<perThread, events, flush>>

(* SYS_exit: handle_exit no longer cleans up (os.c:3942), so the thread    *)
(* ends in the kernel and stays listed as one that is in a system call.    *)
ExitSyscall(t) == /\ pc[t] = "syscall"
                  /\ Goto(t, "dead")
                  /\ UNCHANGED <<perThread, events, at_syscall, flush>>

(* Thread t ends a thread u of its group that it has stopped at a safe     *)
(* spot, holding thread_initexit_lock.  dynamo_other_thread_exit calls     *)
(* enter_threadexit for u, which takes u's linking_lock and keeps it.      *)
OtherThreadExit(t, u) == /\ Cleanup
                         /\ pc[t] = "nolinking"
                         /\ u # t
                         /\ pc[u] \in {"nolinking", "syscall"}
                         /\ flusher = NoThread
                         /\ ~ linking_lock[u]
                         /\ Raise(linking_lock, u)
                         /\ Goto(u, "dead")
                         /\ UNCHANGED <<could_be_linking, wait_for_unlink,
                                        soon_to_be_linking, at_syscall_at_flush,
                                        events, at_syscall, flush>>

-----------------------------------------------------------------------------
(* enter_couldbelinking *)

(* Mutant of TryCouldBeLinking: it does not tell that it is about to link. *)
WaitUnannounced(t) ==
    /\ ~ linking_lock[t]
    /\ IF wait_for_unlink[t]
         THEN Goto(t, "wait_all") /\ UNCHANGED could_be_linking
         ELSE Goto(t, "linking") /\ Raise(could_be_linking, t)
    /\ UNCHANGED <<wait_for_unlink, soon_to_be_linking, at_syscall_at_flush,
                   linking_lock, events, at_syscall, flush>>

(* Take linking_lock and wait, or become couldbelinking. *)
TryCouldBeLinking(t) ==
    /\ ~ linking_lock[t]
    /\ IF wait_for_unlink[t]
         THEN /\ Raise(soon_to_be_linking, t)
              /\ Goto(t, "wait_all")
              /\ UNCHANGED could_be_linking
         ELSE /\ Clear(soon_to_be_linking, t)
              /\ Raise(could_be_linking, t)
              /\ Goto(t, "linking")
    /\ UNCHANGED <<wait_for_unlink, at_syscall_at_flush, linking_lock, events,
                   at_syscall, flush>>

EnterCouldBeLinking(t) == pc[t] = "nolinking" /\ TryCouldBeLinking(t)

(* Mutant of RecheckCouldBeLinking: an if in the place of the while. *)
LinkOnceWoken(t) == /\ pc[t] = "woken_all"
                    /\ ~ linking_lock[t]
                    /\ Clear(soon_to_be_linking, t)
                    /\ Raise(could_be_linking, t)
                    /\ Goto(t, "linking")
                    /\ UNCHANGED <<wait_for_unlink, at_syscall_at_flush,
                                   linking_lock, events, at_syscall, flush>>

RecheckCouldBeLinking(t) == pc[t] = "woken_all" /\ TryCouldBeLinking(t)

WakeAllUnlink(t) == /\ pc[t] = "wait_all"
                    /\ finished_all_unlink[t]
                    /\ Clear(finished_all_unlink, t)
                    /\ Goto(t, "woken_all")
                    /\ UNCHANGED <<perThread, waiting_for_unlink,
                                   finished_with_unlink, at_syscall, flush>>

-----------------------------------------------------------------------------
(* enter_nolinking *)

TryNoLinking(t) ==
    /\ ~ linking_lock[t]
    /\ IF wait_for_unlink[t]
         THEN Goto(t, "signal") /\ UNCHANGED could_be_linking
         ELSE Goto(t, "nolinking") /\ Clear(could_be_linking, t)
    /\ UNCHANGED <<wait_for_unlink, soon_to_be_linking, at_syscall_at_flush,
                   linking_lock, events, at_syscall, flush>>

EnterNoLinking(t) == pc[t] = "linking" /\ TryNoLinking(t)

RecheckNoLinking(t) == pc[t] = "woken_with" /\ TryNoLinking(t)

(* Mutant of SignalFlusher: the thread waits without an answer. *)
WaitSilently(t) == /\ pc[t] = "signal"
                   /\ Goto(t, "wait_with")
                   /\ UNCHANGED <<perThread, events, at_syscall, flush>>

(* signal_event(pt->waiting_for_unlink), after the unlock *)
SignalFlusher(t) == /\ pc[t] = "signal"
                    /\ Raise(waiting_for_unlink, t)
                    /\ Goto(t, "wait_with")
                    /\ UNCHANGED <<perThread, finished_with_unlink,
                                   finished_all_unlink, at_syscall, flush>>

WakeWithUnlink(t) == /\ pc[t] = "wait_with"
                     /\ finished_with_unlink[t]
                     /\ Clear(finished_with_unlink, t)
                     /\ Goto(t, "woken_with")
                     /\ UNCHANGED <<perThread, waiting_for_unlink,
                                    finished_all_unlink, at_syscall, flush>>

-----------------------------------------------------------------------------
(* The flusher: it is nolinking and takes thread_initexit_lock. *)

(* flush_fragments_synch_unlink_priv, up to its loop *)
StartFlush(t) == /\ pc[t] = "nolinking"
                 /\ flusher = NoThread
                 /\ flushtime_global < MaxFlushtime
                 /\ flusher' = t
                 /\ flush_threads' = Listed
                 /\ Goto(t, "stage1")
                 /\ UNCHANGED <<perThread, events, at_syscall, flushee,
                                flushtime_global>>

(* Mutant of Stage1Body: threads may leave the cache during the flush. *)
Stage1LetsGo(t, u, waits) ==
    /\ at_syscall_at_flush' = [at_syscall_at_flush EXCEPT ![u] = at_syscall[u]]
    /\ wait_for_unlink' = waits
    /\ flush_threads' = flush_threads \ {u}
    /\ Goto(t, "stage1")

(* The loop's body from "it is now safe" to next_thread: about_to_exit is  *)
(* never set in this port.  A thread that is not couldbelinking is stopped *)
(* when it next leaves the cache.                                          *)
Stage1Body(t, u, waits) ==
    /\ at_syscall_at_flush' = [at_syscall_at_flush EXCEPT ![u] = at_syscall[u]]
    /\ wait_for_unlink' =
          [waits EXCEPT ![u] = IF u # t /\ ~ could_be_linking[u] THEN TRUE ELSE @]
    /\ flush_threads' = flush_threads \ {u}
    /\ Goto(t, "stage1")

SynchThread(t, u) ==
    /\ pc[t] = "stage1"
    /\ u \in flush_threads
    /\ ~ linking_lock[u]
    /\ u = t \/ ~ could_be_linking[u]
    /\ Stage1Body(t, u, wait_for_unlink)
    /\ UNCHANGED <<could_be_linking, soon_to_be_linking, linking_lock, events,
                   at_syscall, flusher, flushee, flushtime_global>>

(* A couldbelinking thread is asked to stop, and is waited for ... *)
WaitForThread(t, u) ==
    /\ pc[t] = "stage1"
    /\ u \in flush_threads
    /\ ~ linking_lock[u]
    /\ u # t /\ could_be_linking[u]
    /\ Raise(wait_for_unlink, u)
    /\ flushee' = u
    /\ Goto(t, "wait_unlink")
    /\ UNCHANGED <<could_be_linking, soon_to_be_linking, at_syscall_at_flush,
                   linking_lock, events, at_syscall, flusher, flush_threads,
                   flushtime_global>>

WakeUnlink(t) == /\ pc[t] = "wait_unlink"
                 /\ waiting_for_unlink[flushee]
                 /\ Clear(waiting_for_unlink, flushee)
                 /\ Goto(t, "woken_unlink")
                 /\ UNCHANGED <<perThread, finished_with_unlink,
                                finished_all_unlink, at_syscall, flush>>

(* Mutant of SynchedThread: the request is not taken back. *)
SynchedStillWaits(t) ==
    /\ pc[t] = "woken_unlink"
    /\ ~ linking_lock[flushee]
    /\ Stage1Body(t, flushee, wait_for_unlink)
    /\ flushee' = NoThread
    /\ UNCHANGED <<could_be_linking, soon_to_be_linking, linking_lock, events,
                   at_syscall, flusher, flushtime_global>>

(* ... and stays couldbelinking, so it is not asked again at next_thread. *)
SynchedThread(t) ==
    /\ pc[t] = "woken_unlink"
    /\ ~ linking_lock[flushee]
    /\ Stage1Body(t, flushee, [wait_for_unlink EXCEPT ![flushee] = FALSE])
    /\ flushee' = NoThread
    /\ UNCHANGED <<could_be_linking, soon_to_be_linking, linking_lock, events,
                   at_syscall, flusher, flushtime_global>>

(* Mutant of UnlinkShared: the flush time runs backwards. *)
UnlinkBackwards(t) == /\ pc[t] = "stage1"
                      /\ flush_threads = {}
                      /\ flushtime_global' = flushtime_global - 1
                      /\ flush_threads' = Listed
                      /\ Goto(t, "stage3")
                      /\ UNCHANGED <<perThread, events, at_syscall, flusher,
                                     flushee>>

(* Stage 2, flush_fragments_unlink_shared: nobody else is linking now. *)
UnlinkShared(t) == /\ pc[t] = "stage1"
                   /\ flush_threads = {}
                   /\ flushtime_global' = flushtime_global + 1
                   /\ flush_threads' = Listed
                   /\ Goto(t, "stage3")
                   /\ UNCHANGED <<perThread, events, at_syscall, flusher, flushee>>

(* Mutant of EndSynch: every thread is let go as one that is linking. *)
EndSynchOneEvent(t, u) ==
    /\ pc[t] = "stage3"
    /\ u \in flush_threads
    /\ ~ linking_lock[u]
    /\ Clear(at_syscall_at_flush, u)
    /\ IF u = t THEN UNCHANGED <<wait_for_unlink, finished_with_unlink>>
                ELSE Clear(wait_for_unlink, u) /\ Raise(finished_with_unlink, u)
    /\ flush_threads' = flush_threads \ {u}
    /\ UNCHANGED <<pc, could_be_linking, soon_to_be_linking, linking_lock,
                   waiting_for_unlink, finished_all_unlink, at_syscall, flusher,
                   flushee, flushtime_global>>

(* Stage 3, one turn of flush_fragments_end_synch's loop *)
EndSynch(t, u) ==
    /\ pc[t] = "stage3"
    /\ u \in flush_threads
    /\ ~ linking_lock[u]
    /\ Clear(at_syscall_at_flush, u)
    /\ \/ u = t /\ UNCHANGED <<wait_for_unlink, events>>
       \/ /\ u # t /\ could_be_linking[u]
          /\ Raise(finished_with_unlink, u)
          /\ UNCHANGED <<wait_for_unlink, waiting_for_unlink, finished_all_unlink>>
       \/ /\ u # t /\ ~ could_be_linking[u]
          /\ Clear(wait_for_unlink, u)
          /\ IF soon_to_be_linking[u] THEN Raise(finished_all_unlink, u)
                                      ELSE UNCHANGED finished_all_unlink
          /\ UNCHANGED <<waiting_for_unlink, finished_with_unlink>>
    /\ flush_threads' = flush_threads \ {u}
    /\ UNCHANGED <<pc, could_be_linking, soon_to_be_linking, linking_lock,
                   at_syscall, flusher, flushee, flushtime_global>>

FinishFlush(t) == /\ pc[t] = "stage3"
                  /\ flush_threads = {}
                  /\ flusher' = NoThread
                  /\ Goto(t, "nolinking")
                  /\ UNCHANGED <<perThread, events, at_syscall, flush_threads,
                                 flushee, flushtime_global>>

-----------------------------------------------------------------------------
(* What a thread does of its own accord, and what it does once it has      *)
(* begun.  Code that is couldbelinking ends in enter_nolinking.            *)
Decide(t) == \/ ThreadInit(t)
             \/ StartSyscall(t)
             \/ EndSyscall(t)
             \/ ExitSyscall(t)
             \/ EnterCouldBeLinking(t)
             \/ StartFlush(t)
             \/ \E u \in Thread : OtherThreadExit(t, u)

Linking(t) == \/ RecheckCouldBeLinking(t)
              \/ WakeAllUnlink(t)
              \/ EnterNoLinking(t)
              \/ RecheckNoLinking(t)
              \/ SignalFlusher(t)
              \/ WakeWithUnlink(t)

Flush(t) == \/ \E u \in Thread : \/ SynchThread(t, u)
                                 \/ WaitForThread(t, u)
                                 \/ EndSynch(t, u)
            \/ WakeUnlink(t)
            \/ SynchedThread(t)
            \/ UnlinkShared(t)
            \/ FinishFlush(t)

Next == \E t \in Thread : Decide(t) \/ Linking(t) \/ Flush(t)

Spec == Init /\ [][Next]_vars

(* The system schedules every runnable thread, so a thread that is in      *)
(* DynamoRIO proceeds; it need not leave the cache or a system call.       *)
Fairness == \A t \in Thread : WF_vars(Linking(t)) /\ WF_vars(Flush(t))

FairSpec == Spec /\ Fairness

-----------------------------------------------------------------------------
TypeOK == /\ pc \in [Thread -> Location]
          /\ could_be_linking \in [Thread -> BOOLEAN]
          /\ wait_for_unlink \in [Thread -> BOOLEAN]
          /\ soon_to_be_linking \in [Thread -> BOOLEAN]
          /\ at_syscall_at_flush \in [Thread -> BOOLEAN]
          /\ linking_lock \in [Thread -> BOOLEAN]
          /\ waiting_for_unlink \in [Thread -> BOOLEAN]
          /\ finished_with_unlink \in [Thread -> BOOLEAN]
          /\ finished_all_unlink \in [Thread -> BOOLEAN]
          /\ at_syscall \in [Thread -> BOOLEAN]
          /\ flusher \in Thread \cup {NoThread}
          /\ flush_threads \in SUBSET Thread
          /\ flushee \in Thread \cup {NoThread}
          /\ flushtime_global \in Nat

(* The threads that the flusher has synchronized with and not yet let go.  *)
Held == IF flusher = NoThread
          THEN {}
          ELSE {u \in Thread \ {flusher} :
                  IF pc[flusher] = "stage3" THEN u \in flush_threads
                                            ELSE u \in Listed \ flush_threads}

(* "After stage 1 no thread is couldbelinking() until the synchronization  *)
(* release in stage 3": from the moment the flusher is done with a thread  *)
(* in its first loop until it comes back to it in its last, that thread is *)
(* not in DynamoRIO's linking code, whatever it was doing when it was      *)
(* asked and whichever event woke it.                                      *)
FrozenDuringFlush == \A u \in Held : pc[u] # "linking"

(* The flusher is never woken by a signal an earlier flush left behind: a  *)
(* raised waiting_for_unlink is the answer of a thread that is stopped, to *)
(* the flusher that is waiting for it now.                                 *)
NoStaleAnswer ==
    \A u \in Thread : waiting_for_unlink[u] =>
        /\ pc[u] = "wait_with"
        /\ flusher # NoThread /\ pc[flusher] = "wait_unlink" /\ flushee = u

(* A flush that has begun ends: no thread keeps the flusher waiting.       *)
FlushCompletes == \A t \in Thread : pc[t] = "stage1" ~> pc[t] = "nolinking"

(* A flush that has begun ends, unless some thread was cleaned up by       *)
(* another one and left its linking_lock held: no live thread keeps the    *)
(* flusher waiting.                                                        *)
Abandoned == \E u \in Thread : linking_lock[u]
LiveFlushCompletes ==
    \A t \in Thread : pc[t] = "stage1" ~> pc[t] = "nolinking" \/ Abandoned

(* A thread stopped for a flush goes on afterwards, with the same proviso: *)
(* no wake-up is lost, even when the next flush begins before the thread   *)
(* has looked again.                                                       *)
StoppedThreadsResume ==
    \A t \in Thread :
        /\ pc[t] = "wait_all" ~> pc[t] = "linking" \/ Abandoned
        /\ pc[t] = "wait_with" ~> pc[t] = "nolinking" \/ Abandoned

(* The inductive invariant: what links the three booleans, the events and  *)
(* the places of a thread and its flusher at every step of the handshake.  *)
MayLink == {"linking", "signal", "wait_with", "woken_with"}
Flushing == {"stage1", "wait_unlink", "woken_unlink", "stage3"}
WaitedFor(u) == /\ flusher # NoThread
                /\ pc[flusher] \in {"wait_unlink", "woken_unlink"}
                /\ flushee = u

FlusherOK == /\ \A t \in Thread : pc[t] \in Flushing <=> t = flusher
             /\ flush_threads \subseteq Listed
             /\ \A t \in Thread : pc[t] \in {"wait_unlink", "woken_unlink"} =>
                   /\ flushee \in flush_threads \ {t}
                   /\ could_be_linking[flushee] /\ wait_for_unlink[flushee]

ThreadOK(u) ==
    /\ could_be_linking[u] <=> pc[u] \in MayLink
    /\ could_be_linking[u] /\ wait_for_unlink[u] => WaitedFor(u)
    /\ waiting_for_unlink[u] => /\ pc[u] = "wait_with" /\ ~ finished_with_unlink[u]
                                /\ WaitedFor(u) /\ pc[flusher] = "wait_unlink"
    /\ finished_with_unlink[u] => pc[u] = "wait_with"
    /\ pc[u] = "signal" => WaitedFor(u) /\ pc[flusher] = "wait_unlink"
    /\ WaitedFor(u) /\ pc[flusher] = "woken_unlink" =>
          pc[u] = "wait_with" /\ ~ finished_with_unlink[u]
    /\ u \in Held => IF could_be_linking[u]
                       THEN pc[u] = "wait_with" /\ ~ finished_with_unlink[u]
                       ELSE wait_for_unlink[u]

HandshakeInv == FlusherOK /\ \A u \in Thread : ThreadOK(u)

(* The protocol implements the gate. *)
Inside == {t \in Thread : pc[t] = "linking"}
Gate == INSTANCE LinkingGate WITH inside <- Inside, closed <- Held,
                                  active <- flusher, unlinks <- flushtime_global
ImplementsGate == Gate!Spec
=============================================================================
