--------------------------- MODULE SharedDeletion ---------------------------
(***************************************************************************)
(* How shared fragments are freed (core/vmareas.c, core/fragment.c).  A    *)
(* flush, or the replacement of a basic block by a trace, unlinks a shared *)
(* fragment at once, but other threads may still be executing it.  It is   *)
(* put on the pending list, with a flush time and a count of the threads   *)
(* that have not passed a synch point since, or on the lazy list, with a   *)
(* flush time only, and freed when the threads that could see it are done. *)
(* Freed means given to fragment_delete, which in this port has lost the   *)
(* lines that release the memory; the order of events is unchanged.        *)
(*                                                                         *)
(* The steps are FlushSynch's, with what they do to the lists.  In this    *)
(* port check_flush_queue no longer looks at the shared list, so a thread  *)
(* signs off only when a flusher finds it in a system call.                *)
(***************************************************************************)
EXTENDS FlushSynch, FiniteSets, Sequences

CONSTANTS Fragment,
          NoFragment,
          LazyMax          \* DYNAMO_OPTION(lazy_deletion_max_pending)

ASSUME ThreadAssumption == IsFiniteSet(Thread)
ASSUME FragmentAssumption == NoFragment \notin Fragment
ASSUME LazyMaxAssumption == LazyMax \in Nat

VARIABLES linked,                \* fragments in the shared hashtables
          frag,                  \* the one a thread runs, or ran last
          targetf,               \* the one dispatch is about to enter
          errand,                \* why a thread is out of couldbelinking code
          \* todelete
          shared_delete, lazy_delete_list, move_pending,
          flushtime_last_update  \* per_thread_t

lists == <<shared_delete, lazy_delete_list, move_pending>>
deletion == <<linked, frag, targetf, errand, lists, flushtime_last_update>>
allVars == <<vars, deletion>>

DeletionInit == /\ Init
                /\ linked = {}
                /\ frag = [t \in Thread |-> NoFragment]
                /\ targetf = [t \in Thread |-> NoFragment]
                /\ errand = [t \in Thread |-> "none"]
                /\ shared_delete = <<>>
                /\ lazy_delete_list = <<>>
                /\ move_pending = FALSE
                /\ flushtime_last_update = [t \in Thread |-> 0]

Pending == UNION {shared_delete[i].frags : i \in DOMAIN shared_delete}
Lazy == {lazy_delete_list[i].frag : i \in DOMAIN lazy_delete_list}
Freed == Fragment \ (linked \cup Pending \cup Lazy)

(* How far a walk goes that stops at the first position outside passing.   *)
Leading(passing) == CHOOSE n \in 0 .. Cardinality(passing) :
                       1 .. n \subseteq passing /\ n + 1 \notin passing

(* What is left of a list when the entries outside kept are taken off it:  *)
(* the rest, in the order they had.                                        *)
Nth(kept, k) == CHOOSE i \in kept : Cardinality({j \in kept : j <= i}) = k
Keep(list, kept) == [k \in 1 .. Cardinality(kept) |-> list[Nth(kept, k)]]

Forget(held, t) == held' = [held EXCEPT ![t] = NoFragment]

-----------------------------------------------------------------------------
(* Running and linking *)

(* A thread in the cache follows a link or an indirect branch lookup, both *)
(* of which lead to linked fragments only, and from linked ones only.      *)
FollowLink(t, f) == /\ pc[t] = "nolinking"
                    /\ errand[t] = "none"
                    /\ frag[t] \in linked
                    /\ f \in linked
                    /\ frag' = [frag EXCEPT ![t] = f]
                    /\ UNCHANGED <<vars, linked, targetf, errand, lists,
                                   flushtime_last_update>>

(* dispatch finds the next fragment or, under bb_building_lock, builds it. *)
Dispatch(t, f) == /\ pc[t] = "linking"
                  /\ errand[t] = "none"
                  /\ targetf[t] = NoFragment
                  /\ f \in linked \cup Freed
                  /\ linked' = linked \cup {f}
                  /\ targetf' = [targetf EXCEPT ![t] = f]
                  /\ UNCHANGED <<vars, frag, errand, lists, flushtime_last_update>>

(* fragment_remove_shared_no_flush, of a block that a trace replaces, and  *)
(* add_to_lazy_deletion_list: no flush starts in between, for the thread   *)
(* is couldbelinking.  The flush time is one that no thread has signed off *)
(* on.  One thread moves the list when it gets too long.  The fragments    *)
(* that the caller has looked up "may be invalid" afterwards.              *)
RemoveSharedNoFlush(t, f) ==
    /\ pc[t] = "linking"
    /\ errand[t] = "none"
    /\ f \in linked
    /\ linked' = linked \ {f}
    /\ lazy_delete_list' = Append(lazy_delete_list,
                                  [frag |-> f, flushtime |-> flushtime_global + 1])
    /\ LET perform_move == ~ move_pending /\ Len(lazy_delete_list') > LazyMax
       IN  /\ move_pending' = (move_pending \/ perform_move)
           /\ errand' = [errand EXCEPT ![t] = IF perform_move THEN "move" ELSE @]
    /\ Forget(targetf, t)
    /\ UNCHANGED <<vars, frag, shared_delete, flushtime_last_update>>

(* Mutant of AddToPendingList: the entry goes to the end. *)
AppendToPendingList(fs, ref, time) ==
    shared_delete' = Append(shared_delete, [frags |-> fs, ref_count |-> ref,
                                            flushtime_deleted |-> time])

(* add_to_pending_list *)
AddToPendingList(fs, ref, time) ==
    shared_delete' = <<[frags |-> fs, ref_count |-> ref, flushtime_deleted |-> time]>>
                     \o shared_delete

(* Mutant of MoveLazyList: the lazy list is not emptied. *)
CopyLazyList(t) ==
    /\ pc[t] = "nolinking"
    /\ errand[t] = "move"
    /\ flusher = NoThread
    /\ flushtime_global < MaxFlushtime
    /\ flushtime_global' = flushtime_global + 1
    /\ AddToPendingList(Lazy, Cardinality(Listed), flushtime_global + 1)
    /\ move_pending' = FALSE
    /\ errand' = [errand EXCEPT ![t] = "return"]
    /\ UNCHANGED <<pc, perThread, events, at_syscall, flusher, flush_threads,
                   flushee, linked, frag, targetf, lazy_delete_list,
                   flushtime_last_update>>

(* move_lazy_list_to_pending_delete, between its enter_nolinking and its   *)
(* enter_couldbelinking, under thread_initexit_lock                        *)
MoveLazyList(t) ==
    /\ pc[t] = "nolinking"
    /\ errand[t] = "move"
    /\ flusher = NoThread
    /\ flushtime_global < MaxFlushtime
    /\ flushtime_global' = flushtime_global + 1
    /\ AddToPendingList(Lazy, Cardinality(Listed), flushtime_global + 1)
    /\ lazy_delete_list' = <<>>
    /\ move_pending' = FALSE
    /\ errand' = [errand EXCEPT ![t] = "return"]
    /\ UNCHANGED <<pc, perThread, events, at_syscall, flusher, flush_threads,
                   flushee, linked, frag, targetf, flushtime_last_update>>

-----------------------------------------------------------------------------
(* The steps of FlushSynch *)

(* Mutant of ThreadInitDeletion: a new thread has no flush time.           *)
ThreadInitUnstamped(t) == ThreadInit(t) /\ UNCHANGED deletion

(* fragment_thread_reset_init: the thread is not in any earlier count. *)
ThreadInitDeletion(t) ==
    /\ ThreadInit(t)
    /\ flushtime_last_update' =
          [flushtime_last_update EXCEPT ![t] = flushtime_global]
    /\ UNCHANGED <<linked, frag, targetf, errand, lists>>

(* After the call the thread's last exit is the system call's own stub. *)
SyscallDeletion(t) ==
    /\ errand[t] = "none"
    /\ \/ StartSyscall(t) /\ UNCHANGED frag
       \/ EndSyscall(t) /\ Forget(frag, t)
       \/ ExitSyscall(t) /\ Forget(frag, t)
    /\ UNCHANGED <<linked, targetf, errand, lists, flushtime_last_update>>

(* enter_couldbelinking, in its first turn and the later ones *)
CouldBeLinkingDeletion(t) ==
    /\ \/ EnterCouldBeLinking(t) /\ errand[t] # "move"
       \/ RecheckCouldBeLinking(t)
    /\ errand' = [errand EXCEPT ![t] = IF pc'[t] = "linking" THEN "none" ELSE @]
    /\ UNCHANGED <<linked, frag, targetf, lists, flushtime_last_update>>

(* enter_nolinking: check_flush_queue ends without a return statement, so  *)
(* what it says of the target fragment is anything.  Told that the target  *)
(* was flushed, dispatch becomes couldbelinking again.                     *)
NoLinkingDeletion(t) ==
    /\ EnterNoLinking(t) \/ RecheckNoLinking(t)
    /\ \/ /\ pc'[t] = "nolinking" /\ errand[t] = "none"
          /\ \/ /\ targetf[t] # NoFragment
                /\ frag' = [frag EXCEPT ![t] = targetf[t]]
                /\ UNCHANGED errand
             \/ /\ errand' = [errand EXCEPT ![t] = "return"]
                /\ UNCHANGED frag
          /\ Forget(targetf, t)
       \/ /\ pc'[t] # "nolinking" \/ errand[t] # "none"
          /\ UNCHANGED <<frag, targetf, errand>>
    /\ UNCHANGED <<linked, lists, flushtime_last_update>>

(* vm_area_unlink_fragments: a flush of some fragments.  pending_delete_   *)
(* threads was read in stage 1; no thread has been listed since.           *)
UnlinkSharedDeletion(t, fs) ==
    /\ UnlinkShared(t)
    /\ linked' = linked \ fs
    /\ IF fs = {} THEN UNCHANGED shared_delete
                  ELSE AddToPendingList(fs, Cardinality(Listed), flushtime_global')
    /\ UNCHANGED <<frag, targetf, errand, lazy_delete_list, move_pending,
                   flushtime_last_update>>

(* How far vm_area_check_shared_pending walks for thread u: the entries at *)
(* the front of the list are younger than the thread's last walk.          *)
Walk(u) == Leading({i \in DOMAIN shared_delete :
                      flushtime_last_update[u] < shared_delete[i].flushtime_deleted})

Decremented(u) == [i \in DOMAIN shared_delete |->
                     IF i <= Walk(u)
                       THEN [shared_delete[i] EXCEPT !.ref_count = @ - 1]
                       ELSE shared_delete[i]]

ToFree(u) == {i \in 1 .. Walk(u) : Decremented(u)[i].ref_count = 0}

(* check_lazy_deletion_list, called for each entry that is freed *)
LazyToFree(u) ==
    Leading({j \in DOMAIN lazy_delete_list :
               \E i \in ToFree(u) : lazy_delete_list[j].flushtime
                                       <= shared_delete[i].flushtime_deleted})

(* vm_area_check_shared_pending: each entry walked past that reaches zero  *)
(* is freed, and with it the lazy fragments that are not younger.          *)
(* last_fragment is dropped if it was deleted; what a thread is running it *)
(* cannot drop.                                                            *)
CheckSharedPending(u) ==
    /\ shared_delete' = Keep(Decremented(u), DOMAIN shared_delete \ ToFree(u))
    /\ lazy_delete_list' =
          SubSeq(lazy_delete_list, LazyToFree(u) + 1, Len(lazy_delete_list))
    /\ IF pc[u] = "syscall" /\ frag[u] \notin linked
         THEN Forget(frag, u)
         ELSE UNCHANGED frag
    /\ flushtime_last_update' =
          [flushtime_last_update EXCEPT ![u] = flushtime_global]

(* Mutant of EndSynchDeletion: it walks the list for every thread that is  *)
(* out of DynamoRIO.                                                       *)
EndSynchForAll(t, u) ==
    /\ EndSynch(t, u)
    /\ IF ~ could_be_linking[u]
         THEN CheckSharedPending(u)
         ELSE UNCHANGED <<shared_delete, lazy_delete_list, frag,
                          flushtime_last_update>>
    /\ UNCHANGED <<linked, targetf, errand, move_pending>>

(* Stage 3 walks the list for a thread it found in a system call. *)
EndSynchDeletion(t, u) ==
    /\ EndSynch(t, u)
    /\ IF at_syscall_at_flush[u]
         THEN CheckSharedPending(u)
         ELSE UNCHANGED <<shared_delete, lazy_delete_list, frag,
                          flushtime_last_update>>
    /\ UNCHANGED <<linked, targetf, errand, move_pending>>

(* What leaves the lists alone; a flusher has no errand. *)
OtherDeletion(t) ==
    /\ \/ StartFlush(t) /\ errand[t] = "none"
       \/ WakeAllUnlink(t)
       \/ SignalFlusher(t)
       \/ WakeWithUnlink(t)
       \/ WakeUnlink(t)
       \/ SynchedThread(t)
       \/ FinishFlush(t)
       \/ \E u \in Thread : \/ OtherThreadExit(t, u)
                            \/ SynchThread(t, u)
                            \/ WaitForThread(t, u)
    /\ UNCHANGED deletion

DeletionNext ==
    \E t \in Thread :
       \/ ThreadInitDeletion(t)
       \/ SyscallDeletion(t)
       \/ CouldBeLinkingDeletion(t)
       \/ NoLinkingDeletion(t)
       \/ \E fs \in SUBSET linked : UnlinkSharedDeletion(t, fs)
       \/ \E u \in Thread : EndSynchDeletion(t, u)
       \/ OtherDeletion(t)
       \/ MoveLazyList(t)
       \/ \E f \in Fragment : \/ FollowLink(t, f)
                              \/ Dispatch(t, f)
                              \/ RemoveSharedNoFlush(t, f)

DeletionSpec == DeletionInit /\ [][DeletionNext]_allVars

-----------------------------------------------------------------------------
PendingDelete == [frags : SUBSET Fragment, ref_count : Nat, flushtime_deleted : Nat]
LazyDelete == [frag : Fragment, flushtime : Nat]

DeletionTypeOK == /\ TypeOK
                  /\ linked \subseteq Fragment
                  /\ frag \in [Thread -> Fragment \cup {NoFragment}]
                  /\ targetf \in [Thread -> Fragment \cup {NoFragment}]
                  /\ errand \in [Thread -> {"none", "move", "return"}]
                  /\ shared_delete \in Seq(PendingDelete)
                  /\ lazy_delete_list \in Seq(LazyDelete)
                  /\ move_pending \in BOOLEAN
                  /\ flushtime_last_update \in [Thread -> Nat]

(* "Deletion delayed until all threads are out": no thread runs, or holds  *)
(* a pointer to, a fragment that has been freed.                           *)
NoUseAfterFree == \A t \in Thread : {frag[t], targetf[t]} \cap Freed = {}

(* The count of an entry is the number of threads that have not walked the *)
(* list since the entry was made: too low frees too early, too high never. *)
RefCountExact ==
    \A i \in DOMAIN shared_delete :
       /\ shared_delete[i].ref_count =
             Cardinality({t \in Listed :
                flushtime_last_update[t] < shared_delete[i].flushtime_deleted})
       /\ shared_delete[i].ref_count > 0

(* What the walks' early exits rely on: the youngest pending entry and the *)
(* oldest lazy fragment are at the front of their lists.                   *)
ListsSorted ==
    /\ \A i, j \in DOMAIN shared_delete : i < j =>
          shared_delete[i].flushtime_deleted >= shared_delete[j].flushtime_deleted
    /\ \A i, j \in DOMAIN lazy_delete_list : i < j =>
          lazy_delete_list[i].flushtime <= lazy_delete_list[j].flushtime

(* No fragment is on two lists, or on one and in the tables: it would be   *)
(* freed twice, or while it can be reached.                                *)
OnOneList ==
    /\ linked \cap (Pending \cup Lazy) = {}
    /\ Pending \cap Lazy = {}
    /\ \A i, j \in DOMAIN shared_delete : i # j =>
          shared_delete[i].frags \cap shared_delete[j].frags = {}
    /\ \A i, j \in DOMAIN lazy_delete_list : i # j =>
          lazy_delete_list[i].frag # lazy_delete_list[j].frag

(* "Returns false iff was_I_flushed ends up being deleted": a thread that  *)
(* enters the cache does not enter a fragment that was flushed meanwhile.  *)
EntersUnflushed ==
    [][\A t \in Thread :
         /\ pc[t] \in {"linking", "woken_with"} /\ pc'[t] = "nolinking"
         /\ errand[t] = "none" /\ errand'[t] = "none"
         => frag'[t] \notin Pending']_allVars

(* "We assume we will soon hit a real synch point to dec the count for     *)
(* us": a thread that becomes couldbelinking has walked the pending list.  *)
SynchPointSignsOff ==
    [][\A t \in Thread : pc[t] # "linking" /\ pc'[t] = "linking" =>
         flushtime_last_update'[t] = flushtime_global]_allVars
=============================================================================
