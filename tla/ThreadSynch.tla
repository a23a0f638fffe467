----------------------------- MODULE ThreadSynch -----------------------------
(***************************************************************************)
(* How a thread that executes SYS_exit_group ends the others of its group  *)
(* (core/linux/os.c, handle_exit): for each of them synch_with_thread      *)
(* (core/synch.c) suspends it by a signal, looks whether it is at a safe   *)
(* spot, resumes it if it is not and tries again, and finally terminates   *)
(* it and cleans up after it.  Several threads may do so at once, and give *)
(* way to each other at a safe spot of their own.                          *)
(*                                                                         *)
(* A step is one access to what threads share.  thread_suspend and         *)
(* thread_resume run under thread_initexit_lock here, so suspend_lock is   *)
(* never contended and is left out.                                        *)
(***************************************************************************)
EXTENDS Integers, FiniteSets

CONSTANTS Thread,           \* numbered in the order of get_list_of_threads,
                            \* which is the same for all that call it
          NoThread,
          Exiter,           \* the threads that may call SYS_exit_group
          MaxEvents         \* bound: SUSPEND_SIGNALs that the application
                            \* sends a thread and times that it is given up

ASSUME ThreadAssumption == /\ Thread \subseteq Nat /\ IsFiniteSet(Thread)
                           /\ NoThread \notin Thread
ASSUME ExiterAssumption == Exiter \subseteq Thread
ASSUME MaxEventsAssumption == MaxEvents \in Nat

VARIABLES pc,                    \* where each thread is in its own code
          tgt, todo, looped,     \* handle_exit's locals: the thread in hand,
                                 \* those left, has it looped for this one?
          \* the kernel: a signal that is due, threads that have ended
          pending_signal, dead,
          handler,               \* where each thread is in its handler
          \* os_thread_data_t
          suspend_count, suspended, wakeup, resumed, terminate, terminated,
          \* thread_synch_data_t; the owner of synch_lock is its own thread
          synch_perm, pending_synch_count, synch_lock,
          thread_initexit_lock,  \* its owner
          linking_lock,          \* left held by enter_threadexit
          \* history: SUSPEND_SIGNALs the application sent and was passed,
          \* and how often each thread was given up
          sent, passed, abandoned

locals == <<tgt, todo, looped>>
kernel == <<pending_signal, dead>>
ostd == <<suspend_count, suspended, wakeup, resumed, terminate, terminated>>
tsd == <<synch_perm, pending_synch_count, synch_lock>>
locks == <<thread_initexit_lock, linking_lock>>
history == <<sent, passed, abandoned>>
vars == <<pc, locals, kernel, handler, ostd, tsd, locks, history>>

Location == {"cache", "dr",
             \* handle_exit, and synch_with_thread for the thread in hand
             "lock", "next", "notify", "suspend", "await", "check", "resume",
             "resuming", "unsafe", "relock", "settle", "terminate",
             "await_end", "clean", "exit",
             \* check_wait_at_safe_spot, and what follows it
             "wait", "give", "safe", "regain", "take", "return", "reclaim"}

Zero == [t \in Thread |-> 0]
AllFalse == [t \in Thread |-> FALSE]

Init == /\ pc \in [Thread -> {"cache", "dr"}]
        /\ tgt = [t \in Thread |-> NoThread]
        /\ todo = [t \in Thread |-> {}]
        /\ looped = AllFalse
        /\ pending_signal = AllFalse
        /\ dead = {}
        /\ handler = [t \in Thread |-> "none"]
        /\ suspend_count = Zero
        /\ suspended = AllFalse /\ wakeup = AllFalse /\ resumed = AllFalse
        /\ terminate = AllFalse /\ terminated = AllFalse
        /\ synch_perm = [t \in Thread |-> "NONE"]
        /\ pending_synch_count = Zero
        /\ synch_lock = AllFalse
        /\ thread_initexit_lock = NoThread
        /\ linking_lock = AllFalse
        /\ sent = Zero /\ passed = Zero /\ abandoned = Zero

Set(f, t) == f' = [f EXCEPT ![t] = TRUE]
Reset(f, t) == f' = [f EXCEPT ![t] = FALSE]

(* A thread runs its own code while it is alive and not in the handler.    *)
Running(t) == t \notin dead /\ handler[t] = "none"

From(t, l, m) == /\ Running(t)
                 /\ pc[t] = l
                 /\ pc' = [pc EXCEPT ![t] = m]

(* adjust_wait_at_safe_spot, which spins on the target's synch_lock *)
Adjust(u, amt) ==
    /\ ~ synch_lock[u]
    /\ pending_synch_count' = [pending_synch_count EXCEPT ![u] = @ + amt]
    /\ UNCHANGED <<synch_perm, synch_lock>>

(* thread_signal: one pending SUSPEND_SIGNAL absorbs the next; the call    *)
(* fails on a thread that has ended.                                       *)
Signal(u) == u \notin dead /\ Set(pending_signal, u) /\ UNCHANGED dead

-----------------------------------------------------------------------------
(* The threads of the group *)

EnterCache(t) == /\ From(t, "dr", "cache")
                 /\ UNCHANGED <<locals, kernel, handler, ostd, tsd, locks, history>>

LeaveCache(t) == /\ From(t, "cache", "dr")
                 /\ UNCHANGED <<locals, kernel, handler, ostd, tsd, locks, history>>

(* SYS_exit: this port no longer takes the thread off all_threads, nor     *)
(* thread_initexit_lock (handle_exit's last lines).                        *)
Exit(t) == /\ Running(t) /\ pc[t] = "cache"
           /\ dead' = dead \cup {t}
           /\ UNCHANGED <<pc, locals, pending_signal, handler, ostd, tsd, locks,
                          history>>

Bounded == \A t \in Thread : sent[t] + abandoned[t] < MaxEvents

(* The application uses the same signal for its own purposes. *)
AppSignal(u) == /\ Bounded
                /\ Signal(u)
                /\ sent' = [sent EXCEPT ![u] = @ + 1]
                /\ UNCHANGED <<pc, locals, handler, ostd, tsd, locks, passed,
                               abandoned>>

-----------------------------------------------------------------------------
(* handle_suspend_signal.  All signals are blocked in the handler but for  *)
(* the wait, so it can be entered again there.                             *)
Deliver(u) ==
    /\ u \notin dead
    /\ pending_signal[u] /\ handler[u] \in {"none", "spin"}
    /\ Reset(pending_signal, u)
    /\ \/ /\ terminate[u]
          /\ Set(terminated, u)
          /\ dead' = dead \cup {u}
          /\ UNCHANGED <<handler, suspended, passed>>
       \/ /\ ~ terminate[u]
          /\ suspend_count[u] = 0 \/ handler[u] = "spin"
          /\ passed' = [passed EXCEPT ![u] = @ + 1]
          /\ UNCHANGED <<handler, suspended, terminated, dead>>
       \/ /\ ~ terminate[u]
          /\ suspend_count[u] # 0 /\ handler[u] = "none"
          /\ handler' = [handler EXCEPT ![u] = "spin"]
          /\ Set(suspended, u)
          /\ UNCHANGED <<terminated, passed, dead>>
    /\ UNCHANGED <<pc, locals, suspend_count, wakeup, resumed, terminate, tsd,
                   locks, sent, abandoned>>

(* Mutant of Wake: the wait is not repeated until wakeup is set.           *)
WakeSpurious(u) == /\ u \notin dead
                   /\ handler[u] = "spin"
                   /\ handler' = [handler EXCEPT ![u] = "awake"]
                   /\ Reset(suspended, u)
                   /\ UNCHANGED <<pc, locals, kernel, suspend_count, wakeup,
                                  resumed, terminate, terminated, tsd, locks,
                                  history>>

Wake(u) == /\ u \notin dead
           /\ handler[u] = "spin" /\ wakeup[u]
           /\ handler' = [handler EXCEPT ![u] = "awake"]
           /\ Reset(suspended, u)
           /\ UNCHANGED <<pc, locals, kernel, suspend_count, wakeup, resumed,
                          terminate, terminated, tsd, locks, history>>

Return(u) == /\ u \notin dead
             /\ handler[u] = "awake"
             /\ handler' = [handler EXCEPT ![u] = "none"]
             /\ Set(resumed, u)
             /\ UNCHANGED <<pc, locals, kernel, suspend_count, suspended, wakeup,
                            terminate, terminated, tsd, locks, history>>

-----------------------------------------------------------------------------
(* handle_exit *)

ExitGroup(t) == /\ t \in Exiter
                /\ From(t, "dr", "lock")
                /\ UNCHANGED <<locals, kernel, handler, ostd, tsd, locks, history>>

(* get_list_of_threads: those that have ended are still on it. *)
LockInitexit(t) == /\ From(t, "lock", "next")
                   /\ thread_initexit_lock = NoThread
                   /\ thread_initexit_lock' = t
                   /\ todo' = [todo EXCEPT ![t] = Thread \ {t}]
                   /\ UNCHANGED <<tgt, looped, kernel, handler, ostd, tsd,
                                  linking_lock, history>>

NextThread(t) == \E u \in todo[t] :
                    /\ \A v \in todo[t] : u <= v
                    /\ From(t, "next", "notify")
                    /\ tgt' = [tgt EXCEPT ![t] = u]
                    /\ todo' = [todo EXCEPT ![t] = @ \ {u}]
                    /\ Reset(looped, t)
                    /\ UNCHANGED <<kernel, handler, ostd, tsd, locks, history>>

AllDone(t) == /\ From(t, "next", "exit")
              /\ todo[t] = {}
              /\ thread_initexit_lock' = NoThread
              /\ UNCHANGED <<locals, kernel, handler, ostd, tsd, linking_lock,
                             history>>

(* The kernel ends the whole group. *)
EndGroup(t) == /\ Running(t) /\ pc[t] = "exit"
               /\ dead' = Thread
               /\ UNCHANGED <<pc, locals, pending_signal, handler, ostd, tsd,
                              locks, history>>

-----------------------------------------------------------------------------
(* synch_with_thread: block, hold_initexit_lock, VALID_MCONTEXT,           *)
(* TERMINATED_AND_CLEANED, SUSPEND_FAILURE_IGNORE                          *)

Notify(t) == /\ From(t, "notify", "suspend")
             /\ Adjust(tgt[t], 1)
             /\ UNCHANGED <<locals, kernel, handler, ostd, locks, history>>

(* loop_count++ > max_loops: the goto passes over the last adjustment. *)
Abandon(t) == /\ Bounded
              /\ looped[t]
              /\ From(t, "suspend", "next")
              /\ abandoned' = [abandoned EXCEPT ![tgt[t]] = @ + 1]
              /\ UNCHANGED <<locals, kernel, handler, ostd, tsd, locks, sent, passed>>

(* thread_suspend, up to its wait *)
Suspend(t) ==
    LET u == tgt[t]
    IN  /\ From(t, "suspend", "await")
        /\ IF suspend_count[u] = 0 THEN Signal(u) ELSE UNCHANGED kernel
        /\ suspend_count' = [suspend_count EXCEPT ![u] = @ + 1]
        /\ UNCHANGED <<locals, handler, suspended, wakeup, resumed, terminate,
                       terminated, tsd, locks, history>>

(* The signal cannot be sent: the target has ended.  The failure is        *)
(* ignored; thread_terminate fails as well and is not waited for.          *)
SuspendFails(t) ==
    LET u == tgt[t]
    IN  /\ From(t, "suspend", "clean")
        /\ suspend_count[u] = 0 /\ u \in dead
        /\ Adjust(u, -1)
        /\ Set(terminate, u)
        /\ UNCHANGED <<locals, kernel, handler, suspend_count, suspended, wakeup,
                       resumed, terminated, locks, history>>

Await(t) == /\ From(t, "await", "check")
            /\ suspended[tgt[t]]
            /\ UNCHANGED <<locals, kernel, handler, ostd, tsd, locks, history>>

(* Mutant of WaitingAtSafeSpot: synch_lock is not looked at.               *)
WaitingUnlocked(u) == synch_perm[u] = "VALID_MCONTEXT"

(* at_safe_spot: waiting at one, which is only looked at if synch_lock is  *)
(* free, or in the code cache                                              *)
WaitingAtSafeSpot(u) == ~ synch_lock[u] /\ synch_perm[u] = "VALID_MCONTEXT"
AtSafeSpot(u) == WaitingAtSafeSpot(u) \/ pc[u] = "cache"

Check(t) == /\ From(t, "check", IF AtSafeSpot(tgt[t]) THEN "settle" ELSE "resume")
            /\ UNCHANGED <<locals, kernel, handler, ostd, tsd, locks, history>>

(* thread_resume, up to its wait *)
Resume(t) ==
    LET u == tgt[t]
    IN  /\ From(t, "resume", IF suspend_count[u] > 1 THEN "unsafe" ELSE "resuming")
        /\ suspend_count' = [suspend_count EXCEPT ![u] = @ - 1]
        /\ IF suspend_count[u] > 1 THEN UNCHANGED wakeup ELSE Set(wakeup, u)
        /\ UNCHANGED <<locals, kernel, handler, suspended, resumed, terminate,
                       terminated, tsd, locks, history>>

(* Mutant of Resumed: resumed is left set for the next time. *)
ResumedStays(t) == /\ From(t, "resuming", "unsafe")
                   /\ resumed[tgt[t]]
                   /\ Reset(wakeup, tgt[t])
                   /\ UNCHANGED <<locals, kernel, handler, suspend_count,
                                  suspended, resumed, terminate, terminated,
                                  tsd, locks, history>>

Resumed(t) == /\ From(t, "resuming", "unsafe")
              /\ resumed[tgt[t]]
              /\ Reset(wakeup, tgt[t])
              /\ Reset(resumed, tgt[t])
              /\ UNCHANGED <<locals, kernel, handler, suspend_count, suspended,
                             terminate, terminated, tsd, locks, history>>

(* Not safe: let go of the lock and sleep, unless somebody waits for this  *)
(* thread; then give up the claim on the target first.                     *)
Yield(t) == /\ From(t, "unsafe", "relock")
            /\ pending_synch_count[t] = 0
            /\ Set(looped, t)
            /\ thread_initexit_lock' = NoThread
            /\ UNCHANGED <<tgt, todo, kernel, handler, ostd, tsd, linking_lock,
                           history>>

(* Mutant of GiveWay: the claim on the target is kept. *)
GiveWayClaiming(t) == /\ From(t, "unsafe", "wait")
                      /\ pending_synch_count[t] # 0
                      /\ thread_initexit_lock' = NoThread
                      /\ UNCHANGED <<locals, kernel, handler, ostd, tsd,
                                     linking_lock, history>>

GiveWay(t) == /\ From(t, "unsafe", "wait")
              /\ pending_synch_count[t] # 0
              /\ Adjust(tgt[t], -1)
              /\ thread_initexit_lock' = NoThread
              /\ UNCHANGED <<locals, kernel, handler, ostd, linking_lock, history>>

Relock(t) == /\ From(t, "relock", "suspend")
             /\ thread_initexit_lock = NoThread
             /\ thread_initexit_lock' = t
             /\ UNCHANGED <<locals, kernel, handler, ostd, tsd, linking_lock, history>>

(* "reset this back to before" *)
Settle(t) == /\ From(t, "settle", "terminate")
             /\ Adjust(tgt[t], -1)
             /\ UNCHANGED <<locals, kernel, handler, ostd, locks, history>>

(* Mutants of Terminate: the target is signalled before it is told what    *)
(* for; its end is not waited for.                                         *)
TerminateUntold(t) ==
    LET u == tgt[t]
    IN  /\ From(t, "terminate", "await_end")
        /\ IF u \in dead THEN UNCHANGED kernel ELSE Signal(u)
        /\ UNCHANGED <<locals, handler, ostd, tsd, locks, history>>

TerminateUnawaited(t) ==
    LET u == tgt[t]
    IN  /\ From(t, "terminate", "clean")
        /\ Set(terminate, u)
        /\ IF u \in dead THEN UNCHANGED kernel ELSE Signal(u)
        /\ UNCHANGED <<locals, handler, suspend_count, suspended, wakeup, resumed,
                       terminated, tsd, locks, history>>

(* thread_terminate *)
Terminate(t) ==
    LET u == tgt[t]
    IN  /\ From(t, "terminate", "await_end")
        /\ Set(terminate, u)
        /\ IF u \in dead THEN UNCHANGED kernel ELSE Signal(u)
        /\ UNCHANGED <<locals, handler, suspend_count, suspended, wakeup, resumed,
                       terminated, tsd, locks, history>>

AwaitEnd(t) == /\ From(t, "await_end", "clean")
               /\ terminated[tgt[t]]
               /\ UNCHANGED <<locals, kernel, handler, ostd, tsd, locks, history>>

(* dynamo_other_thread_exit: what is left of it takes linking_lock. *)
Clean(t) == /\ From(t, "clean", "next")
            /\ ~ linking_lock[tgt[t]]
            /\ Set(linking_lock, tgt[t])
            /\ UNCHANGED <<locals, kernel, handler, ostd, tsd,
                           thread_initexit_lock, history>>

-----------------------------------------------------------------------------
(* check_wait_at_safe_spot, with thread_initexit_lock released *)

CheckWait(t) == /\ Running(t) /\ pc[t] = "wait"
                /\ IF pending_synch_count[t] = 0
                     THEN From(t, "wait", "return") /\ UNCHANGED synch_lock
                     ELSE From(t, "wait", "give") /\ Set(synch_lock, t)
                /\ UNCHANGED <<locals, kernel, handler, ostd, synch_perm,
                               pending_synch_count, locks, history>>

Give(t) == /\ From(t, "give", "safe")
           /\ synch_perm' = [synch_perm EXCEPT ![t] = "VALID_MCONTEXT"]
           /\ Reset(synch_lock, t)
           /\ UNCHANGED <<locals, kernel, handler, ostd, pending_synch_count,
                          locks, history>>

LeaveSafeSpot(t) == /\ From(t, "safe", "regain")
                    /\ pending_synch_count[t] <= 0
                    /\ UNCHANGED <<locals, kernel, handler, ostd, tsd, locks,
                                   history>>

Regain(t) == /\ From(t, "regain", "take")
             /\ Set(synch_lock, t)
             /\ UNCHANGED <<locals, kernel, handler, ostd, synch_perm,
                            pending_synch_count, locks, history>>

Take(t) == /\ From(t, "take", "return")
           /\ synch_perm' = [synch_perm EXCEPT ![t] = "NONE"]
           /\ Reset(synch_lock, t)
           /\ UNCHANGED <<locals, kernel, handler, ostd, pending_synch_count,
                          locks, history>>

(* Claim the target again, then yield as any loop does. *)
RelockSafe(t) == /\ From(t, "return", "reclaim")
                 /\ thread_initexit_lock = NoThread
                 /\ thread_initexit_lock' = t
                 /\ UNCHANGED <<locals, kernel, handler, ostd, tsd, linking_lock,
                                history>>

(* Mutant of Reclaim: the target is not claimed again.                     *)
ReturnUnclaimed(t) == /\ From(t, "reclaim", "relock")
                      /\ Set(looped, t)
                      /\ thread_initexit_lock' = NoThread
                      /\ UNCHANGED <<tgt, todo, kernel, handler, ostd, tsd,
                                     linking_lock, history>>

Reclaim(t) == /\ From(t, "reclaim", "relock")
              /\ Adjust(tgt[t], 1)
              /\ Set(looped, t)
              /\ thread_initexit_lock' = NoThread
              /\ UNCHANGED <<tgt, todo, kernel, handler, ostd, linking_lock,
                             history>>

-----------------------------------------------------------------------------
(* What a thread in handle_exit does next, but for giving up ... *)
Synch(t) == \/ LockInitexit(t) \/ NextThread(t) \/ AllDone(t) \/ EndGroup(t)
            \/ Notify(t) \/ Suspend(t) \/ SuspendFails(t) \/ Await(t) \/ Check(t)
            \/ Resume(t) \/ Resumed(t) \/ Yield(t) \/ GiveWay(t) \/ Relock(t)
            \/ Settle(t) \/ Terminate(t) \/ AwaitEnd(t) \/ Clean(t)
            \/ CheckWait(t) \/ Give(t) \/ LeaveSafeSpot(t) \/ Regain(t) \/ Take(t)
            \/ RelockSafe(t) \/ Reclaim(t)

(* ... what its handler does, and what it does of its own accord. *)
Handle(t) == Deliver(t) \/ Wake(t) \/ Return(t)

Decide(t) == \/ EnterCache(t) \/ LeaveCache(t) \/ Exit(t)
             \/ AppSignal(t) \/ ExitGroup(t) \/ Abandon(t)

Next == \E t \in Thread : Synch(t) \/ Handle(t) \/ Decide(t)

Spec == Init /\ [][Next]_vars

(* Every runnable thread is scheduled.  The loops sleep between their      *)
(* turns (synch_thread_yield): a thread that is suspended and resumed over *)
(* and over runs in between, and gets the lock in its turn.                *)
Fairness == \A t \in Thread : /\ SF_vars(Synch(t))
                              /\ WF_vars(Handle(t))

FairSpec == Spec /\ Fairness

-----------------------------------------------------------------------------
TypeOK ==
    /\ pc \in [Thread -> Location]
    /\ tgt \in [Thread -> Thread \cup {NoThread}]
    /\ todo \in [Thread -> SUBSET Thread]
    /\ looped \in [Thread -> BOOLEAN]
    /\ pending_signal \in [Thread -> BOOLEAN]
    /\ dead \in SUBSET Thread
    /\ handler \in [Thread -> {"none", "spin", "awake"}]
    /\ suspend_count \in [Thread -> Nat]
    /\ suspended \in [Thread -> BOOLEAN]
    /\ wakeup \in [Thread -> BOOLEAN]
    /\ resumed \in [Thread -> BOOLEAN]
    /\ terminate \in [Thread -> BOOLEAN]
    /\ terminated \in [Thread -> BOOLEAN]
    /\ synch_perm \in [Thread -> {"NONE", "VALID_MCONTEXT"}]
    /\ pending_synch_count \in [Thread -> Nat]
    /\ synch_lock \in [Thread -> BOOLEAN]
    /\ thread_initexit_lock \in Thread \cup {NoThread}
    /\ linking_lock \in [Thread -> BOOLEAN]
    /\ sent \in [Thread -> Nat] /\ passed \in [Thread -> Nat]
    /\ abandoned \in [Thread -> Nat]

(* The places at which t has a claim on the thread in hand. *)
Claiming == {"suspend", "await", "check", "resume", "resuming", "unsafe",
             "relock", "settle"}

(* pending_synch_count is the number of threads that want to synchronize   *)
(* with this one, however often they gave way to each other, and those     *)
(* that gave up on it, which nothing takes off.                            *)
PendingExact ==
    \A u \in Thread :
        pending_synch_count[u] =
            abandoned[u] + Cardinality({t \in Thread : pc[t] \in Claiming
                                                       /\ tgt[t] = u})

(* A thread that is ended by another one is at a safe spot then and stays  *)
(* there: it has stopped, in the cache or in its own wait, and holds       *)
(* neither thread_initexit_lock nor its synch_lock, although it was        *)
(* interrupted anywhere.                                                   *)
EndedWhenSafe ==
    \A t \in Thread :
        t \notin dead /\ pc[t] \in {"settle", "terminate", "await_end"} =>
            LET u == tgt[t]
            IN  /\ suspended[u] /\ handler[u] = "spin"
                /\ pc[u] \in {"cache", "safe", "regain"}
                /\ thread_initexit_lock # u /\ ~ synch_lock[u]

(* A thread is suspended afresh only when its last suspension is over on   *)
(* both sides ("will not send a 2nd suspend signal until we are completely *)
(* resumed"): a flag left from it would be taken for the answer.           *)
SuspendedAfresh ==
    \A t \in Thread :
        LET u == tgt[t]
        IN  Running(t) /\ pc[t] = "suspend" /\ suspend_count[u] = 0 =>
               /\ ~ suspended[u] /\ ~ wakeup[u] /\ ~ resumed[u]
               /\ handler[u] = "none"

(* The application gets its own SUSPEND_SIGNALs only: whichever of two     *)
(* signals that meet is taken for whose, none is passed on that it has not *)
(* sent.                                                                   *)
AppSignalsOnly == \A u \in Thread : passed[u] <= sent[u]

(* What can keep the last thread from ending the group in this port:  *)
(* a target that executes SYS_exit between the signal and its delivery, a  *)
(* target that is cleaned up a second time because it is still listed, and *)
(* a claim that was never taken back.                                      *)
Derailed == \/ \E u \in dead : suspend_count[u] > 0 /\ ~ suspended[u]
            \/ \E t \in Thread : pc[t] = "clean" /\ linking_lock[tgt[t]]
            \/ \E u \in Thread : abandoned[u] > 0

(* A thread that executes SYS_exit_group ends, itself or by another one    *)
(* that does the same: the two do not wait for each other for ever.  A     *)
(* target must be found outside DynamoRIO's own code in the end.           *)
FoundInDR == \E t \in Thread : pc[t] = "resume" /\ pc[tgt[t]] = "dr"

ExitEnds == <>[] ~ FoundInDR =>
                \A t \in Thread : pc[t] = "lock" ~> t \in dead \/ Derailed

(* The group is only ended once every other thread of it has ended and has *)
(* been cleaned up, unless it was given up.                                *)
ExitsAlone ==
    \A t, u \in Thread :
        Running(t) /\ pc[t] = "exit" /\ u # t =>
            (u \in dead /\ linking_lock[u]) \/ abandoned[u] > 0

Abstract == INSTANCE Suspension
              WITH holds <- suspend_count, place <- pc,
                   frozen <- {u \in Thread : handler[u] = "spin"}

(* The signals, flags and counts implement suspension. *)
ImplementsSuspension == Abstract!Spec
=============================================================================
