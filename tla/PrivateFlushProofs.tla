------------------------- MODULE PrivateFlushProofs -------------------------
(***************************************************************************)
(* What a flush does to the private fragments of the threads, for any      *)
(* threads, areas and fragments and any number of flushes.  That nobody is *)
(* linking behind the flusher's back is FlushSynchProofs' invariant; here  *)
(* it is put to use.                                                       *)
(***************************************************************************)
EXTENDS PrivateFlush, FlushSynchProofs

(* What the owner relies on when it looks at its queue: each fragment that *)
(* was unlinked is in an area that is marked, and then the queue says so.  *)
Queued(t) == /\ was_deleted[t] \subseteq In(delete_me[t])
             /\ was_deleted[t] # {} => flush_queue_nonempty[t]

PrivateIInv == /\ IInv
               /\ PrivateTypeOK
               /\ \A t \in Thread : Queued(t)
               /\ RegionUnreachable
               /\ OwnerDeletes

-----------------------------------------------------------------------------
LEMMA InitPrivate == PrivateInit => PrivateIInv
<1> SUFFICES ASSUME PrivateInit PROVE PrivateIInv
  OBVIOUS
<1>1. IInv
  BY InitIInv DEF PrivateInit
<1>2. PrivateTypeOK
  BY <1>1 DEF IInv, PrivateInit, PrivateTypeOK, AllFalse
<1>3. \A t \in Thread : Queued(t)
  BY DEF PrivateInit, Queued
<1>4. RegionUnreachable
  BY DEF PrivateInit, Init, RegionUnreachable, Visited, Held
<1>5. OwnerDeletes
  BY DEF PrivateInit, OwnerDeletes
<1> QED
  BY <1>1, <1>2, <1>3, <1>4, <1>5 DEF PrivateIInv

(* The steps are those of the protocol, or leave its variables alone. *)
LEMMA PrivateStep == [PrivateNext]_allVars => [Next]_vars
<1> SUFFICES ASSUME [PrivateNext]_allVars, ~ UNCHANGED vars PROVE Next
  OBVIOUS
<1>1. PICK t \in Thread :
        \/ EnterCouldBeLinkingPrivate(t)
        \/ EnterNoLinkingPrivate(t)
        \/ \E a \in Area : StartFlushPrivate(t, a)
        \/ \E u \in Thread : SynchPrivate(t, u)
        \/ SyscallPrivate(t)
        \/ OtherPrivate(t)
  BY DEF PrivateNext, allVars, FollowLink, Dispatch
<1>2. Decide(t) \/ Linking(t) \/ Flush(t)
  BY <1>1
     DEF EnterCouldBeLinkingPrivate, EnterNoLinkingPrivate, StartFlushPrivate,
         SynchPrivate, SyscallPrivate, OtherPrivate, Decide, Linking, Flush
<1> QED
  BY <1>2 DEF Next

-----------------------------------------------------------------------------
(* Who has been visited, from one step to the next: the flusher's loop adds *)
(* the thread it is done with, and no other step adds anybody.             *)
LEMMA VisitedMonotone ==
  ASSUME IInv, NEW t \in Thread,
         \/ EnterCouldBeLinking(t) \/ RecheckCouldBeLinking(t)
         \/ EnterNoLinking(t) \/ RecheckNoLinking(t)
         \/ StartSyscall(t) \/ EndSyscall(t) \/ ExitSyscall(t)
         \/ ThreadInit(t) \/ WakeAllUnlink(t) \/ SignalFlusher(t)
         \/ WakeWithUnlink(t) \/ WakeUnlink(t) \/ UnlinkShared(t)
         \/ FinishFlush(t)
         \/ \E u \in Thread : WaitForThread(t, u) \/ EndSynch(t, u)
  PROVE  Visited' \subseteq Visited
<1> USE NoThreadAssumption
    DEF IInv, TypeOK, HandshakeInv, FlusherOK, Flushing, Visited, Held, Listed,
        Goto, flush
<1>1. CASE \/ EnterCouldBeLinking(t) \/ RecheckCouldBeLinking(t)
           \/ EnterNoLinking(t) \/ RecheckNoLinking(t)
  <2>1. /\ pc[t] \notin Flushing \cup {"unborn"} /\ UNCHANGED flush
        /\ \E l \in Location \ (Flushing \cup {"unborn"}) : pc' = [pc EXCEPT ![t] = l]
    BY <1>1 DEF EnterCouldBeLinking, RecheckCouldBeLinking, TryCouldBeLinking,
                EnterNoLinking, RecheckNoLinking, TryNoLinking, Location
  <2> QED
    BY <2>1
<1>2. CASE StartSyscall(t) \/ EndSyscall(t) \/ ExitSyscall(t)
  BY <1>2 DEF StartSyscall, EndSyscall, ExitSyscall
<1>3. CASE ThreadInit(t) \/ WakeAllUnlink(t) \/ SignalFlusher(t) \/ WakeWithUnlink(t)
  BY <1>3 DEF ThreadInit, WakeAllUnlink, SignalFlusher, WakeWithUnlink
<1>4. CASE WakeUnlink(t)
  BY <1>4 DEF WakeUnlink
<1>5. CASE UnlinkShared(t) \/ FinishFlush(t)
  BY <1>5 DEF UnlinkShared, FinishFlush
<1>6. ASSUME NEW u \in Thread, WaitForThread(t, u) \/ EndSynch(t, u)
      PROVE  Visited' \subseteq Visited
  BY <1>6 DEF WaitForThread, EndSynch
<1> QED
  BY <1>1, <1>2, <1>3, <1>4, <1>5, <1>6

LEMMA VisitedAdds ==
  ASSUME IInv, NEW t \in Thread, NEW u \in Thread,
         SynchThread(t, u) \/ (SynchedThread(t) /\ u = flushee)
  PROVE  Visited' \subseteq Visited \cup {u}
<1> USE NoThreadAssumption
    DEF IInv, TypeOK, HandshakeInv, FlusherOK, Flushing, Visited, Held, Listed,
        Goto, flush
<1>1. CASE SynchThread(t, u)
  BY <1>1 DEF SynchThread, Stage1Body
<1>2. CASE SynchedThread(t) /\ u = flushee
  BY <1>2 DEF SynchedThread, Stage1Body
<1> QED
  BY <1>1, <1>2

LEMMA VisitedStarts ==
  ASSUME IInv, NEW t \in Thread, StartFlush(t)
  PROVE  Visited' = {}
BY DEF IInv, TypeOK, StartFlush, Visited, Held, Listed, Goto

(* The flusher deals with no thread that is linking. *)
LEMMA SynchedOutside ==
  ASSUME IInv, NEW t \in Thread, NEW u \in Thread,
         SynchThread(t, u) \/ (SynchedThread(t) /\ u = flushee)
  PROVE  pc[u] # "linking" /\ pc'[u] # "linking"
BY NoThreadAssumption
   DEF IInv, TypeOK, HandshakeInv, FlusherOK, ThreadOK, MayLink, Flushing,
       WaitedFor, SynchThread, SynchedThread, Stage1Body, Goto

LEMMA PrivateTypeStep ==
  ASSUME PrivateTypeOK, [PrivateNext]_allVars
  PROVE  PrivateTypeOK'
<1> USE DEF PrivateTypeOK
<1>1. TypeOK'
  BY PrivateStep, TypeStep
<1>0. \A t \in Thread : Doomed(t) \subseteq Fragment
  BY DEF Doomed, Listing
<1>2. CASE UNCHANGED allVars
  BY <1>1, <1>2 DEF allVars, private, running
<1>3. ASSUME NEW t \in Thread, NEW f \in Fragment, FollowLink(t, f) \/ Dispatch(t, f)
      PROVE  PrivateTypeOK'
  <2>1. CASE FollowLink(t, f)
    BY <1>1, <1>3, <2>1 DEF FollowLink, private
  <2>2. CASE Dispatch(t, f)
    <3>1. \E b \in SUBSET Fragment : trace' = [trace EXCEPT ![t] = b]
      <4>1. trace[t] \cup {f} \in SUBSET Fragment /\ {} \in SUBSET Fragment
        OBVIOUS
      <4>2. \/ trace' = [trace EXCEPT ![t] = trace[t] \cup {f}]
            \/ trace' = [trace EXCEPT ![t] = {}]
        BY <2>2 DEF Dispatch
      <4> QED
        BY <4>1, <4>2
    <3>2. /\ linked' = [linked EXCEPT ![t] = linked[t] \cup {f}]
          /\ targetf' = [targetf EXCEPT ![t] = f]
          /\ UNCHANGED <<region, was_deleted, deleted, delete_me,
                         flush_queue_nonempty, last_fragment, aborted>>
      BY <2>2 DEF Dispatch
    <3> QED
      BY <1>1, <3>1, <3>2
  <2> QED
    BY <1>3, <2>1, <2>2
<1>4. ASSUME NEW t \in Thread, EnterCouldBeLinkingPrivate(t) PROVE PrivateTypeOK'
  <2>1. \/ /\ deleted' = [deleted EXCEPT ![t] = @ \cup Doomed(t)]
           /\ \/ last_fragment' = last_fragment
              \/ last_fragment' = [last_fragment EXCEPT ![t] = NoFragment]
           /\ aborted' = [aborted EXCEPT ![t] = FALSE]
        \/ UNCHANGED <<deleted, last_fragment, aborted>>
    BY <1>0, <1>4 DEF EnterCouldBeLinkingPrivate, CheckFlushQueue
  <2>2. UNCHANGED <<region, linked, was_deleted, delete_me, flush_queue_nonempty,
                    targetf, trace>>
    BY <1>4 DEF EnterCouldBeLinkingPrivate
  <2> QED
    BY <1>0, <1>1, <2>1, <2>2
<1>5. ASSUME NEW t \in Thread, EnterNoLinkingPrivate(t) PROVE PrivateTypeOK'
  <2>1. \/ /\ deleted' = [deleted EXCEPT ![t] = @ \cup Doomed(t)]
           /\ \E f \in Fragment \cup {NoFragment} :
                 last_fragment' = [last_fragment EXCEPT ![t] = f]
           /\ aborted' = aborted \/ aborted' = [aborted EXCEPT ![t] = TRUE]
           /\ targetf' = [targetf EXCEPT ![t] = NoFragment]
        \/ UNCHANGED <<deleted, last_fragment, targetf, aborted>>
    BY <1>0, <1>5 DEF EnterNoLinkingPrivate, CheckFlushQueue
  <2>2. UNCHANGED <<region, linked, was_deleted, delete_me, flush_queue_nonempty,
                    trace>>
    BY <1>5 DEF EnterNoLinkingPrivate
  <2>3. /\ deleted' \in [Thread -> SUBSET Fragment]
        /\ aborted' \in [Thread -> BOOLEAN]
        /\ targetf' \in [Thread -> Fragment \cup {NoFragment}]
    <3>1. Doomed(t) \subseteq Fragment
      BY <1>0
    <3>2. \/ deleted' = [deleted EXCEPT ![t] = deleted[t] \cup Doomed(t)]
          \/ deleted' = deleted
      BY <2>1
    <3>3. \/ aborted' = aborted
          \/ aborted' = [aborted EXCEPT ![t] = TRUE]
      BY <2>1
    <3>4. \/ targetf' = targetf
          \/ targetf' = [targetf EXCEPT ![t] = NoFragment]
      BY <2>1
    <3> QED
      BY <3>1, <3>2, <3>3, <3>4
  <2>4. last_fragment' \in [Thread -> Fragment \cup {NoFragment}]
    BY <2>1
  <2> QED
    BY <1>1, <2>2, <2>3, <2>4
<1>6. ASSUME NEW t \in Thread, NEW a \in Area, StartFlushPrivate(t, a)
      PROVE  PrivateTypeOK'
  BY <1>1, <1>6 DEF StartFlushPrivate, private, running
<1>7. ASSUME NEW t \in Thread, NEW u \in Thread, SynchPrivate(t, u)
      PROVE  PrivateTypeOK'
  <2>1. region \in Area \/ Listing(u) \cap In({region}) = {}
    BY AreaOfAssumption, AreaAssumption DEF In
  <2>2. UNCHANGED <<region, running>>
    BY <1>7 DEF SynchPrivate, UnlinkPrivate
  <2>3. CASE UNCHANGED private
    BY <1>1, <2>2, <2>3 DEF private, running
  <2>4. CASE ~ UNCHANGED private
    <3>1. /\ flush_queue_nonempty' = [flush_queue_nonempty EXCEPT ![u] = TRUE]
          /\ delete_me' = [delete_me EXCEPT ![u] = @ \cup {region}]
          /\ linked' = [linked EXCEPT ![u] = @ \ In({region})]
          /\ was_deleted' = [was_deleted EXCEPT ![u] =
                               @ \cup (linked[u] \cap In({region}))]
          /\ UNCHANGED deleted
          /\ region \in Area
      BY <1>7, <2>1, <2>4 DEF SynchPrivate, UnlinkPrivate
    <3> QED
      BY <1>1, <2>2, <3>1 DEF running
  <2> QED
    BY <2>3, <2>4
<1>8. ASSUME NEW t \in Thread, SyscallPrivate(t) \/ OtherPrivate(t)
      PROVE  PrivateTypeOK'
  BY <1>1, <1>8 DEF SyscallPrivate, OtherPrivate, private, running
<1> QED
  BY <1>2, <1>3, <1>4, <1>5, <1>6, <1>7, <1>8 DEF PrivateNext

-----------------------------------------------------------------------------
LEMMA NextPrivate == PrivateIInv /\ [PrivateNext]_allVars => PrivateIInv'
<1> SUFFICES ASSUME PrivateIInv, [PrivateNext]_allVars PROVE PrivateIInv'
  OBVIOUS
<1>0. /\ IInv /\ PrivateTypeOK
      /\ \A t \in Thread : Queued(t)
      /\ \A u \in Visited : linked[u] \cap In({region}) = {}
      /\ \A t \in Thread : pc[t] = "linking" => was_deleted[t] \subseteq deleted[t]
      /\ linked \in [Thread -> SUBSET Fragment]
      /\ was_deleted \in [Thread -> SUBSET Fragment]
      /\ deleted \in [Thread -> SUBSET Fragment]
      /\ delete_me \in [Thread -> SUBSET Area]
      /\ flush_queue_nonempty \in [Thread -> BOOLEAN]
      /\ pc \in [Thread -> Location]
  BY DEF PrivateIInv, RegionUnreachable, OwnerDeletes, PrivateTypeOK, IInv, TypeOK
<1>1. IInv' /\ PrivateTypeOK'
  BY <1>0, PrivateStep, TypeStep, HandshakeStep, PrivateTypeStep DEF IInv
<1>2. CASE UNCHANGED allVars
  BY <1>0, <1>1, <1>2
     DEF allVars, vars, flush, private, PrivateIInv, Queued, RegionUnreachable,
         OwnerDeletes, Visited, Held, Listed
<1>3. ASSUME NEW t \in Thread, NEW f \in Fragment, FollowLink(t, f)
      PROVE  PrivateIInv'
  BY <1>0, <1>1, <1>3
     DEF FollowLink, vars, flush, private, PrivateIInv, Queued, RegionUnreachable,
         OwnerDeletes, Visited, Held, Listed
<1>4. ASSUME NEW t \in Thread, NEW f \in Fragment, Dispatch(t, f)
      PROVE  PrivateIInv'
  <2>1. /\ pc[t] = "linking" /\ UNCHANGED vars
        /\ linked' = [linked EXCEPT ![t] = linked[t] \cup {f}]
        /\ UNCHANGED <<region, was_deleted, deleted, delete_me, flush_queue_nonempty>>
    BY <1>4 DEF Dispatch
  <2>2. Visited' = Visited
    BY <2>1 DEF vars, flush, Visited, Held, Listed
  <2>3. t \notin Visited
    BY <1>0, <2>1, NoThreadAssumption
       DEF IInv, HandshakeInv, FlusherOK, ThreadOK, MayLink, Flushing, Visited, Held
  <2>4. \A u \in Visited' : linked'[u] = linked[u]
    BY <2>1, <2>2, <2>3, <1>0
  <2> QED
    BY <1>0, <1>1, <2>1, <2>2, <2>4
       DEF vars, PrivateIInv, Queued, RegionUnreachable, OwnerDeletes
<1>5. ASSUME NEW t \in Thread,
             \/ EnterCouldBeLinkingPrivate(t) \/ EnterNoLinkingPrivate(t)
             \/ SyscallPrivate(t) \/ OtherPrivate(t)
      PROVE  PrivateIInv'
  <2>1. Visited' \subseteq Visited
    BY <1>0, <1>5, VisitedMonotone
       DEF EnterCouldBeLinkingPrivate, EnterNoLinkingPrivate, SyscallPrivate,
           OtherPrivate
  <2>2. UNCHANGED <<region, linked, was_deleted, delete_me, flush_queue_nonempty>>
    BY <1>5
       DEF EnterCouldBeLinkingPrivate, EnterNoLinkingPrivate, SyscallPrivate,
           OtherPrivate, private
  <2>3. \A u \in Thread : deleted[u] \subseteq deleted'[u]
    BY <1>0, <1>5
       DEF EnterCouldBeLinkingPrivate, EnterNoLinkingPrivate, SyscallPrivate,
           OtherPrivate, private, CheckFlushQueue
  <2>4. ASSUME NEW u \in Thread, pc'[u] = "linking", pc[u] # "linking"
        PROVE  was_deleted[u] \subseteq deleted'[u]
    <3>1. u = t /\ EnterCouldBeLinkingPrivate(t)
      BY <1>0, <1>5, <2>4
         DEF EnterCouldBeLinkingPrivate, EnterNoLinkingPrivate, SyscallPrivate,
             OtherPrivate, EnterCouldBeLinking, RecheckCouldBeLinking,
             TryCouldBeLinking, EnterNoLinking, RecheckNoLinking, TryNoLinking,
             StartSyscall, EndSyscall, ExitSyscall, ThreadInit, WakeAllUnlink,
             SignalFlusher, WakeWithUnlink, WakeUnlink, UnlinkShared, FinishFlush,
             WaitForThread, EndSynch, Goto
    <3>2. deleted'[t] = deleted[t] \cup Doomed(t)
      BY <1>0, <2>4, <3>1 DEF EnterCouldBeLinkingPrivate, CheckFlushQueue
    <3>3. was_deleted[t] \subseteq Doomed(t)
      BY <1>0 DEF Queued, Doomed, Listing
    <3> QED
      BY <3>1, <3>2, <3>3
  <2>5. OwnerDeletes'
    BY <1>0, <2>2, <2>3, <2>4 DEF OwnerDeletes
  <2> QED
    BY <1>0, <1>1, <2>1, <2>2, <2>5 DEF PrivateIInv, Queued, RegionUnreachable, In
<1>6. ASSUME NEW t \in Thread, NEW a \in Area, StartFlushPrivate(t, a)
      PROVE  PrivateIInv'
  <2>1. Visited' = {}
    BY <1>0, <1>6, VisitedStarts DEF StartFlushPrivate
  <2>2. UNCHANGED private /\ \A u \in Thread : pc'[u] = "linking" => pc[u] = "linking"
    BY <1>0, <1>6 DEF StartFlushPrivate, StartFlush, Goto
  <2> QED
    BY <1>0, <1>1, <2>1, <2>2
       DEF private, PrivateIInv, Queued, RegionUnreachable, OwnerDeletes, In
<1>7. ASSUME NEW t \in Thread, NEW u \in Thread, SynchPrivate(t, u)
      PROVE  PrivateIInv'
  <2>1. Visited' \subseteq Visited \cup {u} /\ pc[u] # "linking" /\ pc'[u] # "linking"
    BY <1>0, <1>7, VisitedAdds, SynchedOutside DEF SynchPrivate
  <2>2. \A v \in Thread : pc'[v] = "linking" => pc[v] = "linking"
    BY <1>0, <1>7 DEF SynchPrivate, SynchThread, SynchedThread, Stage1Body, Goto
  <2>3. UNCHANGED <<region, deleted>>
    BY <1>7 DEF SynchPrivate, UnlinkPrivate, private
  <2>4. /\ \A v \in Thread : linked'[v] \subseteq linked[v]
        /\ \A v \in Thread : v # u => was_deleted'[v] = was_deleted[v]
        /\ linked'[u] \cap In({region}) = {}
        /\ \A v \in Thread : Queued(v)'
    <3>1. CASE Listing(u) \cap In({region}) = {}
      <4>1. UNCHANGED private
        BY <1>7, <3>1 DEF SynchPrivate, UnlinkPrivate
      <4> QED
        BY <1>0, <3>1, <4>1 DEF private, Listing, Queued, In
    <3>2. CASE Listing(u) \cap In({region}) # {}
      <4>1. /\ flush_queue_nonempty' = [flush_queue_nonempty EXCEPT ![u] = TRUE]
            /\ delete_me' = [delete_me EXCEPT ![u] = @ \cup {region}]
            /\ linked' = [linked EXCEPT ![u] = @ \ In({region})]
            /\ was_deleted' = [was_deleted EXCEPT ![u] =
                                 @ \cup (linked[u] \cap In({region}))]
        BY <1>7, <3>2 DEF SynchPrivate, UnlinkPrivate
      <4>2. In(delete_me'[u]) = In(delete_me[u]) \cup In({region})
        BY <1>0, <4>1 DEF In
      <4> QED
        BY <1>0, <4>1, <4>2 DEF Queued
    <3> QED
      BY <3>1, <3>2
  <2>a. \A v \in Thread : linked'[v] \subseteq linked[v]
    BY <2>4
  <2>b. \A v \in Thread : v # u => was_deleted'[v] = was_deleted[v]
    BY <2>4
  <2>5. RegionUnreachable'
    <3>1. Visited \subseteq Thread
      BY <1>0 DEF Visited, Held, IInv, TypeOK
    <3>2. ASSUME NEW v \in Visited' PROVE linked'[v] \cap In({region}) = {}
      <4>1. v \in Thread /\ (v \in Visited \/ v = u)
        BY <2>1, <3>1
      <4>2. v \in Visited => linked[v] \cap In({region}) = {}
        BY <1>0
      <4>3. linked'[v] \subseteq linked[v]
        BY <4>1, <2>a
      <4>4. linked'[u] \cap In({region}) = {}
        BY <2>4
      <4> QED
        BY <4>1, <4>2, <4>3, <4>4
    <3> QED
      BY <2>3, <3>2 DEF RegionUnreachable, In
  <2>6. OwnerDeletes'
    <3> SUFFICES ASSUME NEW v \in Thread, pc'[v] = "linking"
                 PROVE  was_deleted'[v] \subseteq deleted'[v]
      BY DEF OwnerDeletes
    <3>1. v # u /\ pc[v] = "linking"
      BY <2>1, <2>2
    <3>2. was_deleted'[v] = was_deleted[v] /\ was_deleted[v] \subseteq deleted[v]
      BY <1>0, <2>b, <3>1
    <3> QED
      BY <2>3, <3>2
  <2> QED
    BY <1>1, <2>4, <2>5, <2>6 DEF PrivateIInv
<1> QED
  BY <1>2, <1>3, <1>4, <1>5, <1>6, <1>7 DEF PrivateNext

-----------------------------------------------------------------------------
(* The inductive invariant holds of every behaviour. *)
THEOREM PrivateInvariance == PrivateSpec => []PrivateIInv
BY InitPrivate, NextPrivate, PTL DEF PrivateSpec

(* From the flusher's visit in stage 1 until it lets a thread go in stage  *)
(* 3, the thread reaches none of its private fragments in the flushed      *)
(* region, neither old ones nor new ones.                                  *)
THEOREM Unreachable == PrivateSpec => []RegionUnreachable
<1>1. PrivateIInv => RegionUnreachable
  BY DEF PrivateIInv
<1> QED
  BY <1>1, PrivateInvariance, PTL

(* No thread works in DynamoRIO next to fragments that a flusher unlinked  *)
(* and that it has not deleted yet itself.                                 *)
THEOREM Deleted == PrivateSpec => []OwnerDeletes
<1>1. PrivateIInv => OwnerDeletes
  BY DEF PrivateIInv
<1> QED
  BY <1>1, PrivateInvariance, PTL

(* The flushing protocol underneath is FlushSynch's, step by step: the     *)
(* work on fragments adds no step to it, so that all that is proved of the *)
(* protocol holds here too.                                                *)
THEOREM ProtocolKept == PrivateSpec => Spec
<1>1. PrivateInit => Init
  BY DEF PrivateInit
<1> QED
  BY <1>1, PrivateStep, PTL DEF PrivateSpec, Spec
=============================================================================
