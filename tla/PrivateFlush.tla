---------------------------- MODULE PrivateFlush ----------------------------
(***************************************************************************)
(* How a flush reaches the fragments that belong to one thread             *)
(* (core/fragment.c, core/vmareas.c, core/monitor.c).  The flusher unlinks *)
(* the private fragments of each thread it has synchronized with, marks    *)
(* the thread's areas and its queue, and squashes the trace the thread is  *)
(* building; the owner deletes the fragments at its next synch point.      *)
(*                                                                         *)
(* The steps are FlushSynch's, with what they do to the private state.  In *)
(* this port a deleted fragment is handed to fragment_delete, which frees  *)
(* nothing; an area stays marked, and the queue non-empty, for good; and   *)
(* trace_abort leaves the trace as it is.  Threads that are ended by other *)
(* ones are left to FlushSynch.                                            *)
(***************************************************************************)
EXTENDS FlushSynch

CONSTANTS Area, NoArea,
          Fragment, NoFragment,
          AreaOf                 \* the area a block's code is in

ASSUME AreaAssumption == NoArea \notin Area
ASSUME FragmentAssumption == NoFragment \notin Fragment
ASSUME AreaOfAssumption == AreaOf \in [Fragment -> Area]

VARIABLES region,                \* what the flusher flushes
          linked,                \* a thread's fragments, in its hashtables
          was_deleted,           \* those with FRAG_WAS_DELETED
          deleted,               \* those given to fragment_delete
          delete_me,             \* areas with VM_DELETE_ME
          flush_queue_nonempty,  \* per_thread_t
          last_fragment,         \* the one a thread runs, or ran last
          targetf,               \* the one dispatch is about to enter
          aborted,               \* did dispatch give up entering the cache?
          trace                  \* the blocks of the trace being built

private == <<linked, was_deleted, deleted, delete_me, flush_queue_nonempty>>
running == <<last_fragment, targetf, aborted, trace>>
allVars == <<vars, region, private, running>>

PrivateInit == /\ Init
               /\ region = NoArea
               /\ linked = [t \in Thread |-> {}]
               /\ was_deleted = [t \in Thread |-> {}]
               /\ deleted = [t \in Thread |-> {}]
               /\ delete_me = [t \in Thread |-> {}]
               /\ flush_queue_nonempty = AllFalse
               /\ last_fragment = [t \in Thread |-> NoFragment]
               /\ targetf = [t \in Thread |-> NoFragment]
               /\ aborted = AllFalse
               /\ trace = [t \in Thread |-> {}]

In(areas) == {f \in Fragment : AreaOf[f] \in areas}

(* The fragments on the lists of a thread's areas: none is ever taken off. *)
Listing(t) == linked[t] \cup was_deleted[t]

-----------------------------------------------------------------------------
(* Running and linking *)

FollowLink(t, f) == /\ pc[t] = "nolinking"
                    /\ ~ aborted[t]
                    /\ trace[t] = {}
                    /\ last_fragment[t] \in linked[t]
                    /\ f \in linked[t]
                    /\ last_fragment' = [last_fragment EXCEPT ![t] = f]
                    /\ UNCHANGED <<vars, region, private, targetf, aborted, trace>>

(* dispatch finds the next fragment or builds it.  monitor_cache_enter may *)
(* then start a trace with it, extend the trace with it, or emit the trace *)
(* first.                                                                  *)
Dispatch(t, f) == /\ pc[t] = "linking"
                  /\ targetf[t] = NoFragment
                  /\ f \in linked[t] \cup (Fragment \ Listing(t))
                  /\ linked' = [linked EXCEPT ![t] = @ \cup {f}]
                  /\ targetf' = [targetf EXCEPT ![t] = f]
                  /\ \/ trace' = [trace EXCEPT ![t] = @ \cup {f}]
                     \/ trace' = [trace EXCEPT ![t] = {}]
                  /\ UNCHANGED <<vars, region, was_deleted, deleted, delete_me,
                                 flush_queue_nonempty, last_fragment, aborted>>

(* check_flush_queue and vm_area_flush_fragments: every fragment of every  *)
(* marked area goes to fragment_delete, whose monitor_remove_fragment may  *)
(* call trace_abort.  last_fragment is dropped if it is the one passed.    *)
Doomed(t) == IF flush_queue_nonempty[t] THEN Listing(t) \cap In(delete_me[t])
                                        ELSE {}

CheckFlushQueue(t, was_I_flushed) ==
    /\ deleted' = [deleted EXCEPT ![t] = @ \cup Doomed(t)]
    /\ last_fragment' =
          [last_fragment EXCEPT ![t] =
             IF was_I_flushed = @ /\ @ \in Doomed(t) THEN NoFragment ELSE @]

(* Mutant of EnterCouldBeLinkingPrivate: the queue is checked before the    *)
(* thread waits for the flusher.                                           *)
CheckQueueThenWait(t) ==
    /\ \/ /\ EnterCouldBeLinking(t)
          /\ CheckFlushQueue(t, IF aborted[t] THEN NoFragment ELSE last_fragment[t])
          /\ aborted' = [aborted EXCEPT ![t] = FALSE]
       \/ /\ RecheckCouldBeLinking(t)
          /\ UNCHANGED <<deleted, last_fragment, aborted>>
    /\ UNCHANGED <<region, linked, was_deleted, delete_me, flush_queue_nonempty,
                   targetf, trace>>

(* enter_couldbelinking: after an aborted entry it is given no fragment,   *)
(* and trace_abort follows.                                                *)
EnterCouldBeLinkingPrivate(t) ==
    /\ EnterCouldBeLinking(t) \/ RecheckCouldBeLinking(t)
    /\ \/ /\ pc'[t] = "linking"
          /\ CheckFlushQueue(t, IF aborted[t] THEN NoFragment ELSE last_fragment[t])
          /\ aborted' = [aborted EXCEPT ![t] = FALSE]
       \/ /\ pc'[t] # "linking"
          /\ UNCHANGED <<deleted, last_fragment, aborted>>
    /\ UNCHANGED <<region, linked, was_deleted, delete_me, flush_queue_nonempty,
                   targetf, trace>>

(* enter_nolinking: neither check_flush_queue nor vm_area_flush_fragments  *)
(* has a return statement, so what it says of the target fragment is       *)
(* anything.                                                               *)
EnterNoLinkingPrivate(t) ==
    /\ EnterNoLinking(t) \/ RecheckNoLinking(t)
    /\ \/ /\ pc'[t] = "nolinking"
          /\ deleted' = [deleted EXCEPT ![t] = @ \cup Doomed(t)]
          /\ \/ targetf[t] # NoFragment
                /\ last_fragment' = [last_fragment EXCEPT ![t] = targetf[t]]
                /\ UNCHANGED aborted
             \/ CheckFlushQueue(t, targetf[t])
                /\ aborted' = [aborted EXCEPT ![t] = TRUE]
          /\ targetf' = [targetf EXCEPT ![t] = NoFragment]
       \/ /\ pc'[t] # "nolinking"
          /\ UNCHANGED <<deleted, last_fragment, targetf, aborted>>
    /\ UNCHANGED <<region, linked, was_deleted, delete_me, flush_queue_nonempty,
                   trace>>

-----------------------------------------------------------------------------
(* The flusher *)

StartFlushPrivate(t, a) == /\ StartFlush(t)
                           /\ ~ aborted[t]
                           /\ region' = a
                           /\ UNCHANGED <<private, running>>

(* The loop's body for thread u.  trace_abort, called when the trace has   *)
(* blocks in the region, changes nothing.  vm_area_unlink_fragments, when  *)
(* the thread has an area in the region: it marks the area and unlinks its *)
(* fragments.                                                              *)
UnlinkPrivate(u) ==
    /\ IF Listing(u) \cap In({region}) = {}
         THEN UNCHANGED private
         ELSE /\ flush_queue_nonempty' = [flush_queue_nonempty EXCEPT ![u] = TRUE]
              /\ delete_me' = [delete_me EXCEPT ![u] = @ \cup {region}]
              /\ linked' = [linked EXCEPT ![u] = @ \ In({region})]
              /\ was_deleted' = [was_deleted EXCEPT ![u] =
                                   @ \cup (linked[u] \cap In({region}))]
              /\ UNCHANGED deleted
    /\ UNCHANGED running

SynchPrivate(t, u) == /\ SynchThread(t, u) \/ (SynchedThread(t) /\ u = flushee)
                      /\ UnlinkPrivate(u)
                      /\ UNCHANGED region

(* After the call the thread's last exit is the system call's own stub. *)
SyscallPrivate(t) ==
    /\ ~ aborted[t]
    /\ \/ StartSyscall(t) /\ UNCHANGED last_fragment
       \/ /\ EndSyscall(t) \/ ExitSyscall(t)
          /\ last_fragment' = [last_fragment EXCEPT ![t] = NoFragment]
    /\ UNCHANGED <<region, private, targetf, aborted, trace>>

OtherPrivate(t) ==
    /\ \/ ThreadInit(t)
       \/ WakeAllUnlink(t)
       \/ SignalFlusher(t)
       \/ WakeWithUnlink(t)
       \/ WakeUnlink(t)
       \/ UnlinkShared(t)
       \/ FinishFlush(t)
       \/ \E u \in Thread : WaitForThread(t, u) \/ EndSynch(t, u)
    /\ UNCHANGED <<region, private, running>>

PrivateNext ==
    \E t \in Thread :
       \/ \E f \in Fragment : FollowLink(t, f) \/ Dispatch(t, f)
       \/ EnterCouldBeLinkingPrivate(t)
       \/ EnterNoLinkingPrivate(t)
       \/ \E a \in Area : StartFlushPrivate(t, a)
       \/ \E u \in Thread : SynchPrivate(t, u)
       \/ SyscallPrivate(t)
       \/ OtherPrivate(t)

PrivateSpec == PrivateInit /\ [][PrivateNext]_allVars

-----------------------------------------------------------------------------
PrivateTypeOK ==
    /\ TypeOK
    /\ region \in Area \cup {NoArea}
    /\ linked \in [Thread -> SUBSET Fragment]
    /\ was_deleted \in [Thread -> SUBSET Fragment]
    /\ deleted \in [Thread -> SUBSET Fragment]
    /\ delete_me \in [Thread -> SUBSET Area]
    /\ flush_queue_nonempty \in [Thread -> BOOLEAN]
    /\ last_fragment \in [Thread -> Fragment \cup {NoFragment}]
    /\ targetf \in [Thread -> Fragment \cup {NoFragment}]
    /\ aborted \in [Thread -> BOOLEAN]
    /\ trace \in [Thread -> SUBSET Fragment]

(* From the moment the flusher is done with a thread in its first loop     *)
(* until it lets it go in its last, nothing in the flushed region can be   *)
(* reached in that thread's tables: none of its old fragments, and none it *)
(* has built since, for it cannot build any.                               *)
Visited == IF flusher = NoThread \/ pc[flusher] = "stage3"
             THEN Held
             ELSE Held \cup ({flusher} \ flush_threads)
RegionUnreachable == \A u \in Visited : linked[u] \cap In({region}) = {}

(* Whenever a thread is couldbelinking, the fragments that were unlinked   *)
(* behind its back have been deleted: it never works on links, tables or   *)
(* traces next to fragments that are only half gone.                       *)
OwnerDeletes == \A t \in Thread : pc[t] = "linking" => was_deleted[t] \subseteq deleted[t]

(* "If a trace-in-progress crosses this region, must squash the trace": a  *)
(* thread never emits a trace with a block that was flushed while it was   *)
(* being built.                                                            *)
EmitsNoFlushedBlock ==
    [][\A t \in Thread : trace'[t] = {} => trace[t] \cap was_deleted[t] = {}]_allVars
=============================================================================
