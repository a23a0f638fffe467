------------------------ MODULE SharedDeletionProofs ------------------------
(***************************************************************************)
(* No shared fragment is freed under a thread that can run it, for any     *)
(* threads and fragments and any number of flushes.  What a flusher and    *)
(* the threads know of each other is FlushSynchProofs' invariant; here it  *)
(* carries the counts and the times of the deletion lists.                 *)
(***************************************************************************)
EXTENDS SharedDeletion, FlushSynchProofs, FiniteSetTheorems, SequenceTheorems,
        WellFoundedInduction

-----------------------------------------------------------------------------
(* Positions of a list *)

(* A walk that stops at the first position outside a set ends: there is a  *)
(* first gap.                                                              *)
LEMMA FirstGap ==
  ASSUME NEW len \in Nat, NEW passing \in SUBSET (1 .. len)
  PROVE  \E n \in Nat : 1 .. n \subseteq passing /\ n + 1 \notin passing
<1> DEFINE Gap == {n \in Nat : n + 1 \notin passing}
<1>1. len \in Gap
  OBVIOUS
<1>2. PICK n \in Gap : \A m \in Gap : ~ (<<m, n>> \in OpToRel(<, Nat))
  BY <1>1, NatLessThanWellFounded, WFMin
<1>3. \A m \in Gap : ~ (m < n)
  BY <1>2 DEF OpToRel
<1>4. ASSUME NEW i \in 1 .. n PROVE i \in passing
  <2>1. i - 1 \in Nat /\ i - 1 < n /\ (i - 1) + 1 = i
    OBVIOUS
  <2> QED
    BY <1>3, <2>1
<1> QED
  BY <1>4

(* Leading is how far such a walk goes. *)
LEMMA LeadingIs ==
  ASSUME NEW len \in Nat, NEW passing \in SUBSET (1 .. len)
  PROVE  /\ Leading(passing) \in Nat
         /\ 1 .. Leading(passing) \subseteq passing
         /\ Leading(passing) + 1 \notin passing
<1>1. IsFiniteSet(passing) /\ Cardinality(passing) \in Nat
  <2>1. IsFiniteSet(1 .. len)
    BY FS_Interval
  <2>2. IsFiniteSet(passing)
    BY <2>1, FS_Subset
  <2> QED
    BY <2>2, FS_CardinalityType
<1>2. PICK n \in Nat : 1 .. n \subseteq passing /\ n + 1 \notin passing
  BY FirstGap
<1>3. Cardinality(1 .. n) = n
  BY FS_Interval
<1>4. n <= Cardinality(passing)
  BY <1>1, <1>2, <1>3, FS_Subset
<1>5. \E m \in 0 .. Cardinality(passing) :
         1 .. m \subseteq passing /\ m + 1 \notin passing
  BY <1>1, <1>2, <1>4
<1>6. /\ Leading(passing) \in 0 .. Cardinality(passing)
      /\ 1 .. Leading(passing) \subseteq passing
      /\ Leading(passing) + 1 \notin passing
  BY <1>5 DEF Leading
<1> QED
  BY <1>1, <1>6

(* What Keep leaves when only the end of a list is taken off. *)
LEMMA KeepFront ==
  ASSUME NEW m \in Nat, NEW list
  PROVE  Keep(list, 1 .. m) = [k \in 1 .. m |-> list[k]]
<1>1. Cardinality(1 .. m) = m
  BY FS_Interval
<1>2. ASSUME NEW k \in 1 .. m PROVE Nth(1 .. m, k) = k
  <2>1. ASSUME NEW i \in 1 .. m
        PROVE  Cardinality({j \in 1 .. m : j <= i}) = i
    <3>1. {j \in 1 .. m : j <= i} = 1 .. i
      OBVIOUS
    <3>2. Cardinality(1 .. i) = i
      BY FS_Interval
    <3> QED
      BY <3>1, <3>2
  <2>2. \A i \in 1 .. m : Cardinality({j \in 1 .. m : j <= i}) = k <=> i = k
    BY <2>1
  <2> QED
    BY <2>2 DEF Nth
<1> QED
  BY <1>1, <1>2 DEF Keep

(* A set of positions with no gap below any of them is the front of the    *)
(* list.                                                                   *)
LEMMA FrontOf ==
  ASSUME NEW len \in Nat, NEW kept \in SUBSET (1 .. len),
         \A i \in kept : \A j \in 1 .. i : j \in kept
  PROVE  \E m \in 0 .. len : kept = 1 .. m
<1>1. PICK m \in Nat : 1 .. m \subseteq kept /\ m + 1 \notin kept
  BY FirstGap
<1>2. ASSUME NEW i \in kept, i > m PROVE FALSE
  <2>1. i \in 1 .. len /\ m + 1 \in 1 .. i
    BY <1>2
  <2> QED
    BY <1>1, <2>1
<1>3. kept = 1 .. m
  <2>1. ASSUME NEW i \in kept PROVE i \in 1 .. m
    <3>1. i \in 1 .. len /\ ~ (i > m)
      BY <1>2
    <3> QED
      BY <3>1
  <2> QED
    BY <1>1, <2>1
<1>4. m <= len
  BY <1>3
<1> QED
  BY <1>3, <1>4

-----------------------------------------------------------------------------
(* The inductive invariant *)

(* What keeps a fragment from being freed while thread t holds it: it is   *)
(* in the tables, or on a list since a time that t has not signed off on.  *)
Safe(t, f) ==
    /\ f \notin Freed
    /\ \A i \in DOMAIN shared_delete : f \in shared_delete[i].frags =>
          flushtime_last_update[t] < shared_delete[i].flushtime_deleted
    /\ \A j \in DOMAIN lazy_delete_list : f = lazy_delete_list[j].frag =>
          flushtime_last_update[t] < lazy_delete_list[j].flushtime

(* Which threads hold something: a target is held by one that is           *)
(* couldbelinking and on no errand.                                        *)
HoldsSafely(t) ==
    /\ Safe(t, frag[t]) /\ Safe(t, targetf[t])
    /\ frag[t] # NoFragment => pc[t] # "unborn"
    /\ targetf[t] # NoFragment => errand[t] = "none" /\ pc[t] \in MayLink

(* Why a flusher may sign off for a thread that it has found in a system   *)
(* call: if the thread has left the call since, it has dropped what it     *)
(* ran, and it cannot get at anything before the flusher lets it go.       *)
AsleepInSyscall(u) ==
    /\ at_syscall[u] => pc[u] \in {"syscall", "dead"}
    /\ at_syscall[u] /\ pc[u] = "dead" /\ ~ linking_lock[u] => frag[u] = NoFragment
    /\ at_syscall_at_flush[u] =>
          /\ u \in Held
          /\ pc[u] \in {"syscall", "dead", "nolinking", "wait_all", "woken_all"}
          /\ pc[u] # "syscall" => frag[u] = NoFragment

(* No time on a list or of a thread is ahead of the clock; a lazy fragment *)
(* carries the next tick.                                                  *)
TimesOK ==
    /\ \A t \in Thread : flushtime_last_update[t] <= flushtime_global
    /\ \A i \in DOMAIN shared_delete :
          shared_delete[i].flushtime_deleted <= flushtime_global
    /\ \A j \in DOMAIN lazy_delete_list :
          lazy_delete_list[j].flushtime <= flushtime_global + 1

ListsOK == TimesOK /\ RefCountExact /\ ListsSorted /\ OnOneList

HoldingOK == DeletionTypeOK /\ ListsOK /\ \A t \in Thread : HoldsSafely(t)

DeletionIInv == /\ IInv
                /\ HoldingOK
                /\ \A u \in Thread : AsleepInSyscall(u)

-----------------------------------------------------------------------------
(* The threads that have not signed off on what was deleted at a time. *)
Waiting(time) == {t \in Listed : flushtime_last_update[t] < time}

LEMMA WaitingFinite ==
  ASSUME NEW time
  PROVE  IsFiniteSet(Waiting(time)) /\ Cardinality(Waiting(time)) \in Nat
BY ThreadAssumption, FS_Subset, FS_CardinalityType DEF Waiting, Listed

(* What the entries of the lists are. *)
LEMMA ListTypes ==
  ASSUME DeletionTypeOK
  PROVE  /\ Len(shared_delete) \in Nat
         /\ DOMAIN shared_delete = 1 .. Len(shared_delete)
         /\ \A i \in DOMAIN shared_delete :
               /\ shared_delete[i] \in PendingDelete
               /\ shared_delete[i].frags \subseteq Fragment
               /\ shared_delete[i].ref_count \in Nat
               /\ shared_delete[i].flushtime_deleted \in Nat
         /\ Len(lazy_delete_list) \in Nat
         /\ DOMAIN lazy_delete_list = 1 .. Len(lazy_delete_list)
         /\ \A j \in DOMAIN lazy_delete_list :
               /\ lazy_delete_list[j] \in LazyDelete
               /\ lazy_delete_list[j].frag \in Fragment
               /\ lazy_delete_list[j].flushtime \in Nat
         /\ \A t \in Thread : flushtime_last_update[t] \in Nat
         /\ flushtime_global \in Nat
<1>1. \A i \in DOMAIN shared_delete : shared_delete[i] \in PendingDelete
  BY ElementOfSeq DEF DeletionTypeOK
<1>2. \A j \in DOMAIN lazy_delete_list : lazy_delete_list[j] \in LazyDelete
  BY ElementOfSeq DEF DeletionTypeOK
<1> QED
  BY <1>1, <1>2 DEF DeletionTypeOK, TypeOK, PendingDelete, LazyDelete

(* The walk of thread u passes exactly the entries that u has not signed   *)
(* off on: what it skips is older.                                         *)
LEMMA WalkIs ==
  ASSUME DeletionTypeOK, ListsSorted, NEW u \in Thread
  PROVE  /\ Walk(u) \in Nat
         /\ \A i \in DOMAIN shared_delete :
               i <= Walk(u) <=> flushtime_last_update[u] < shared_delete[i].flushtime_deleted
         /\ 1 .. Walk(u) \subseteq DOMAIN shared_delete
<1> DEFINE passing == {i \in DOMAIN shared_delete :
                         flushtime_last_update[u] < shared_delete[i].flushtime_deleted}
           len == Len(shared_delete)
<1>1. len \in Nat /\ DOMAIN shared_delete = 1 .. len
  BY ListTypes
<1>2. passing \in SUBSET (1 .. len)
  BY <1>1
<1>3. /\ Leading(passing) \in Nat
      /\ 1 .. Leading(passing) \subseteq passing
      /\ Leading(passing) + 1 \notin passing
  <2> HIDE DEF passing, len
  <2> QED
    BY <1>1, <1>2, LeadingIs
<1>4. Walk(u) = Leading(passing)
  BY DEF Walk
<1>5. \A i \in DOMAIN shared_delete : i <= Walk(u) => i \in passing
  <2> HIDE DEF passing
  <2> QED
    BY <1>1, <1>3, <1>4
<1>6. ASSUME NEW i \in DOMAIN shared_delete, i > Walk(u)
      PROVE  ~ flushtime_last_update[u] < shared_delete[i].flushtime_deleted
  <2> DEFINE n == Walk(u) + 1
  <2>1. n \in DOMAIN shared_delete /\ n <= i /\ n \notin passing
    <3> HIDE DEF passing
    <3> QED
      BY <1>1, <1>3, <1>4, <1>6
  <2>2. /\ flushtime_last_update[u] \in Nat
        /\ shared_delete[n].flushtime_deleted \in Nat
        /\ shared_delete[i].flushtime_deleted \in Nat
    BY <1>6, <2>1, ListTypes
  <2>3. shared_delete[n].flushtime_deleted >= shared_delete[i].flushtime_deleted
    <3>1. n < i \/ n = i
      <4> HIDE DEF n
      <4> QED
        BY <1>1, <1>6, <2>1
    <3> HIDE DEF n
    <3>2. CASE n < i
      BY <1>6, <2>1, <3>2 DEF ListsSorted
    <3> QED
      BY <2>2, <3>1, <3>2
  <2> QED
    BY <2>1, <2>2, <2>3
<1>7. 1 .. Walk(u) \subseteq DOMAIN shared_delete
  <2>1. 1 .. Walk(u) \subseteq passing
    BY <1>3, <1>4
  <2> QED
    BY <2>1
<1>8. Walk(u) \in Nat /\ DOMAIN shared_delete \subseteq Nat
  BY <1>1, <1>3, <1>4
<1> QED
  BY <1>5, <1>6, <1>7, <1>8

(* An older entry is waited for by no more threads than a younger one. *)
LEMMA OlderFewer ==
  ASSUME DeletionTypeOK, ListsSorted,
         NEW i \in DOMAIN shared_delete, NEW j \in DOMAIN shared_delete, i <= j
  PROVE  Waiting(shared_delete[j].flushtime_deleted)
            \subseteq Waiting(shared_delete[i].flushtime_deleted)
<1>1. shared_delete[i].flushtime_deleted >= shared_delete[j].flushtime_deleted
  <2>1. i \in Nat /\ j \in Nat
    BY ListTypes
  <2>2. shared_delete[i].flushtime_deleted \in Nat
    BY ListTypes
  <2>3. CASE i = j
    BY <2>2, <2>3
  <2>4. CASE i # j
    BY <2>1, <2>4 DEF ListsSorted
  <2> QED
    BY <2>3, <2>4
<1>2. \A t \in Thread : flushtime_last_update[t] \in Nat
  BY ListTypes
<1>3. /\ shared_delete[i].flushtime_deleted \in Nat
      /\ shared_delete[j].flushtime_deleted \in Nat
  BY ListTypes
<1> QED
  BY <1>1, <1>2, <1>3 DEF Waiting, Listed

(* The walk of thread u frees an entry when u is the last that it waits    *)
(* for, and those are the entries at the end of the list: an entry never   *)
(* reaches zero before an older one, whoever walks when.                   *)
LEMMA FreedFromTheEnd ==
  ASSUME DeletionTypeOK, ListsSorted, RefCountExact, NEW u \in Listed
  PROVE  /\ \A i \in ToFree(u) :
               Waiting(shared_delete[i].flushtime_deleted) = {u}
         /\ \E m \in 0 .. Len(shared_delete) :
               /\ DOMAIN shared_delete \ ToFree(u) = 1 .. m
               /\ \A i \in DOMAIN shared_delete : i \in ToFree(u) <=> i > m
<1> DEFINE W(i) == Waiting(shared_delete[i].flushtime_deleted)
<1>1. u \in Thread
  BY DEF Listed
<1>2. \A i \in DOMAIN shared_delete :
         i <= Walk(u) <=> u \in W(i)
  BY <1>1, WalkIs DEF Waiting
<1>3. \A i \in DOMAIN shared_delete :
         /\ IsFiniteSet(W(i))
         /\ shared_delete[i].ref_count = Cardinality(W(i))
         /\ shared_delete[i].ref_count \in Nat /\ shared_delete[i].ref_count > 0
  BY WaitingFinite, ListTypes DEF RefCountExact, Waiting
<1>4. \A i \in DOMAIN shared_delete : i \in ToFree(u) <=> W(i) = {u}
  <2> SUFFICES ASSUME NEW i \in DOMAIN shared_delete
               PROVE  i \in ToFree(u) <=> W(i) = {u}
    OBVIOUS
  <2>1. i \in ToFree(u) <=> i <= Walk(u) /\ shared_delete[i].ref_count - 1 = 0
    <3>1. shared_delete[i] \in PendingDelete
      BY ListTypes
    <3>2. i <= Walk(u) =>
            Decremented(u)[i].ref_count = shared_delete[i].ref_count - 1
      BY <3>1 DEF Decremented, PendingDelete
    <3>3. i \in 1 .. Walk(u) <=> i <= Walk(u)
      BY <1>1, WalkIs, ListTypes
    <3> QED
      BY <3>2, <3>3 DEF ToFree
  <2>2. shared_delete[i].ref_count = 1 <=> \E x : W(i) = {x}
    BY <1>3, FS_Singleton
  <2>3. u \in W(i) /\ (\E x : W(i) = {x}) <=> W(i) = {u}
    OBVIOUS
  <2>4. shared_delete[i].ref_count - 1 = 0 <=> shared_delete[i].ref_count = 1
    BY <1>3
  <2>5. i <= Walk(u) <=> u \in W(i)
    BY <1>2
  <2> HIDE DEF W
  <2> QED
    BY <2>1, <2>2, <2>3, <2>4, <2>5
<1>5. ToFree(u) \subseteq DOMAIN shared_delete
  BY <1>1, WalkIs DEF ToFree
<1>6. ASSUME NEW j \in DOMAIN shared_delete \ ToFree(u), NEW i \in 1 .. j
      PROVE  i \in DOMAIN shared_delete \ ToFree(u)
  <2>1. i \in DOMAIN shared_delete /\ i <= j
    BY ListTypes
  <2>2. W(j) \subseteq W(i)
    BY <2>1, OlderFewer
  <2>3. W(j) # {} /\ W(j) # {u}
    BY <1>3, <1>4, FS_EmptySet
  <2> QED
    BY <1>4, <2>1, <2>2, <2>3
<1>7. PICK m \in 0 .. Len(shared_delete) : DOMAIN shared_delete \ ToFree(u) = 1 .. m
  <2> DEFINE kept == DOMAIN shared_delete \ ToFree(u)
             len == Len(shared_delete)
  <2>1. len \in Nat /\ kept \in SUBSET (1 .. len)
    BY ListTypes
  <2>2. \A j \in kept : \A i \in 1 .. j : i \in kept
    BY <1>6
  <2> HIDE DEF kept, len
  <2>3. \E m \in 0 .. len : kept = 1 .. m
    BY <2>1, <2>2, FrontOf
  <2> QED
    BY <2>3 DEF kept, len
<1>8. \A i \in DOMAIN shared_delete : i \in ToFree(u) <=> i > m
  BY <1>7, ListTypes
<1> QED
  BY <1>4, <1>5, <1>7, <1>8

(* What a walk leaves on the two lists: the first m pending entries, with  *)
(* their counts decremented where u had not signed off, and the lazy       *)
(* fragments after the first k, which are no younger than an entry freed.  *)
WalkLeaves(u, m, k) ==
    /\ m \in 0 .. Len(shared_delete) /\ k \in 0 .. Len(lazy_delete_list)
    /\ shared_delete' \in Seq(PendingDelete) /\ DOMAIN shared_delete' = 1 .. m
    /\ \A i \in 1 .. m :
          /\ shared_delete'[i].frags = shared_delete[i].frags
          /\ shared_delete'[i].flushtime_deleted = shared_delete[i].flushtime_deleted
          /\ shared_delete'[i].ref_count =
                IF u \in Waiting(shared_delete[i].flushtime_deleted)
                  THEN shared_delete[i].ref_count - 1
                  ELSE shared_delete[i].ref_count
          /\ Waiting(shared_delete[i].flushtime_deleted) # {u}
    /\ \A i \in m + 1 .. Len(shared_delete) :
          Waiting(shared_delete[i].flushtime_deleted) = {u}
    /\ lazy_delete_list' \in Seq(LazyDelete)
    /\ DOMAIN lazy_delete_list' = 1 .. Len(lazy_delete_list) - k
    /\ \A j \in 1 .. Len(lazy_delete_list) - k :
          lazy_delete_list'[j] = lazy_delete_list[k + j]
    /\ \A j \in 1 .. k : \E i \in m + 1 .. Len(shared_delete) :
          lazy_delete_list[j].flushtime <= shared_delete[i].flushtime_deleted

LEMMA WalkEffect ==
  ASSUME DeletionTypeOK, ListsSorted, RefCountExact, NEW u \in Listed,
         CheckSharedPending(u)
  PROVE  \E m, k : WalkLeaves(u, m, k)
<1> DEFINE len == Len(shared_delete)
           llen == Len(lazy_delete_list)
<1>0. /\ len \in Nat /\ DOMAIN shared_delete = 1 .. len
      /\ llen \in Nat /\ DOMAIN lazy_delete_list = 1 .. llen
      /\ u \in Thread
  BY ListTypes DEF Listed
<1>1. PICK m \in 0 .. len :
         /\ DOMAIN shared_delete \ ToFree(u) = 1 .. m
         /\ \A i \in DOMAIN shared_delete : i \in ToFree(u) <=> i > m
  BY FreedFromTheEnd
<1>2. \A i \in DOMAIN shared_delete :
         u \in Waiting(shared_delete[i].flushtime_deleted) <=> i <= Walk(u)
  BY <1>0, WalkIs DEF Waiting
<1>3. shared_delete' = [i \in 1 .. m |-> Decremented(u)[i]]
  <2>1. shared_delete' = Keep(Decremented(u), 1 .. m)
    BY <1>1 DEF CheckSharedPending
  <2>2. m \in Nat
    BY <1>0, <1>1
  <2> QED
    BY <2>1, <2>2, KeepFront
<1>4. ASSUME NEW i \in 1 .. m
      PROVE  /\ shared_delete'[i] \in PendingDelete
             /\ shared_delete'[i].frags = shared_delete[i].frags
             /\ shared_delete'[i].flushtime_deleted = shared_delete[i].flushtime_deleted
             /\ shared_delete'[i].ref_count =
                   IF u \in Waiting(shared_delete[i].flushtime_deleted)
                     THEN shared_delete[i].ref_count - 1
                     ELSE shared_delete[i].ref_count
  <2>1. i \in DOMAIN shared_delete
    BY <1>0
  <2>2. /\ shared_delete[i] \in PendingDelete /\ shared_delete[i].ref_count \in Nat
        /\ shared_delete[i].ref_count > 0
    BY <2>1, ListTypes DEF RefCountExact
  <2>3. shared_delete'[i] = IF i <= Walk(u)
                              THEN [shared_delete[i] EXCEPT !.ref_count = @ - 1]
                              ELSE shared_delete[i]
    BY <1>3, <2>1 DEF Decremented
  <2>4. shared_delete[i].ref_count - 1 \in Nat
    BY <2>2
  <2> QED
    BY <1>2, <2>1, <2>2, <2>3, <2>4 DEF PendingDelete
<1>5. shared_delete' \in Seq(PendingDelete) /\ DOMAIN shared_delete' = 1 .. m
  <2>1. shared_delete' \in [1 .. m -> PendingDelete] /\ m \in Nat
    BY <1>0, <1>1, <1>3, <1>4
  <2> QED
    BY <2>1
<1>6. ASSUME NEW i \in 1 .. len
      PROVE  /\ i > m => Waiting(shared_delete[i].flushtime_deleted) = {u}
             /\ i <= m => Waiting(shared_delete[i].flushtime_deleted) # {u}
  <2>1. i \in ToFree(u) <=> i > m
    BY <1>0, <1>1
  <2>2. i > m => Waiting(shared_delete[i].flushtime_deleted) = {u}
    BY <2>1, FreedFromTheEnd
  <2>3. ASSUME i <= m, Waiting(shared_delete[i].flushtime_deleted) = {u} PROVE FALSE
    <3>1. i \in DOMAIN shared_delete /\ shared_delete[i] \in PendingDelete
      BY <1>0, ListTypes
    <3>2. shared_delete[i].ref_count = Cardinality({u})
      BY <2>3, <3>1 DEF RefCountExact, Waiting
    <3>3. shared_delete[i].ref_count = 1
      BY <3>2, FS_Singleton
    <3>4. i <= Walk(u)
      BY <1>2, <2>3, <3>1
    <3>5. Decremented(u)[i].ref_count = 0
      BY <3>1, <3>3, <3>4 DEF Decremented, PendingDelete
    <3>6. i \in 1 .. Walk(u)
      BY <1>0, <3>4, WalkIs
    <3>7. i \in ToFree(u)
      BY <3>5, <3>6 DEF ToFree
    <3> QED
      BY <1>1, <2>1, <2>3, <3>7
  <2> QED
    BY <2>2, <2>3
<1> DEFINE passing == {j \in DOMAIN lazy_delete_list :
                         \E i \in ToFree(u) : lazy_delete_list[j].flushtime
                                       <= shared_delete[i].flushtime_deleted}
           k == LazyToFree(u)
<1>7. k \in 0 .. llen /\ 1 .. k \subseteq passing
  <2>1. passing \in SUBSET (1 .. llen)
    BY <1>0
  <2>2. k = Leading(passing)
    BY DEF LazyToFree
  <2>3. Leading(passing) \in Nat /\ 1 .. Leading(passing) \subseteq passing
    <3> HIDE DEF passing, llen
    <3> QED
      BY <1>0, <2>1, LeadingIs
  <2>4. k \in Nat /\ 1 .. k \subseteq passing
    BY <2>2, <2>3
  <2> HIDE DEF passing, llen, k
  <2>5. k = 0 \/ k \in 1 .. llen
    BY <2>1, <2>4
  <2> QED
    BY <1>0, <2>4, <2>5
<1>8. /\ lazy_delete_list' \in Seq(LazyDelete)
      /\ DOMAIN lazy_delete_list' = 1 .. llen - k
      /\ \A j \in 1 .. llen - k : lazy_delete_list'[j] = lazy_delete_list[k + j]
  <2>1. lazy_delete_list' = SubSeq(lazy_delete_list, k + 1, llen)
    BY DEF CheckSharedPending
  <2>2. \A j \in k + 1 .. llen : lazy_delete_list[j] \in LazyDelete
    BY <1>0, <1>7, ListTypes
  <2> HIDE DEF k, llen
  <2>3. /\ lazy_delete_list' \in Seq(LazyDelete)
        /\ Len(lazy_delete_list') = IF k + 1 <= llen THEN llen - (k + 1) + 1 ELSE 0
        /\ \A j \in 1 .. llen - (k + 1) + 1 :
              lazy_delete_list'[j] = lazy_delete_list[k + 1 + j - 1]
    BY <1>0, <1>7, <2>1, <2>2, SubSeqProperties
  <2>4. Len(lazy_delete_list') = llen - k /\ llen - (k + 1) + 1 = llen - k
    BY <1>0, <1>7, <2>3
  <2>5. \A j \in 1 .. llen - k : k + 1 + j - 1 = k + j
    BY <1>0, <1>7
  <2> QED
    BY <2>3, <2>4, <2>5
<1>9. ASSUME NEW j \in 1 .. k
      PROVE  \E i \in m + 1 .. len :
                lazy_delete_list[j].flushtime <= shared_delete[i].flushtime_deleted
  <2>1. PICK i \in ToFree(u) :
           lazy_delete_list[j].flushtime <= shared_delete[i].flushtime_deleted
    BY <1>7
  <2>2. i \in DOMAIN shared_delete /\ i > m
    BY <1>0, <1>1, <2>1, WalkIs DEF ToFree
  <2> QED
    BY <1>0, <1>1, <2>1, <2>2
<1>10. WalkLeaves(u, m, k)
  <2> HIDE DEF k, passing
  <2>1. /\ \A i \in 1 .. m : Waiting(shared_delete[i].flushtime_deleted) # {u}
        /\ \A i \in m + 1 .. len : Waiting(shared_delete[i].flushtime_deleted) = {u}
    <3> HIDE DEF len
    <3>1. \A i \in 1 .. m : i \in 1 .. len /\ i <= m
      BY <1>0, <1>1
    <3>2. \A i \in m + 1 .. len : i \in 1 .. len /\ i > m
      BY <1>0, <1>1
    <3> QED
      BY <1>6, <3>1, <3>2
  <2>2. \A j \in 1 .. k : \E i \in m + 1 .. len :
           lazy_delete_list[j].flushtime <= shared_delete[i].flushtime_deleted
    BY <1>9
  <2>3. m \in 0 .. len /\ k \in 0 .. llen
    BY <1>1, <1>7
  <2>4. \A i \in 1 .. m :
          /\ shared_delete'[i].frags = shared_delete[i].frags
          /\ shared_delete'[i].flushtime_deleted = shared_delete[i].flushtime_deleted
          /\ shared_delete'[i].ref_count =
                IF u \in Waiting(shared_delete[i].flushtime_deleted)
                  THEN shared_delete[i].ref_count - 1
                  ELSE shared_delete[i].ref_count
    BY <1>4
  <2> QED
    BY <1>5, <1>8, <2>1, <2>2, <2>3, <2>4 DEF WalkLeaves
<1> QED
  BY <1>10

-----------------------------------------------------------------------------
(* The lists, from one step to the next *)

(* A new entry at the front waits for every listed thread, and is younger  *)
(* than all the others.                                                    *)
LEMMA PendingAdded ==
  ASSUME DeletionTypeOK, ListsOK, NEW fs \in SUBSET Fragment, Listed # {},
         AddToPendingList(fs, Cardinality(Listed), flushtime_global + 1),
         flushtime_global' = flushtime_global + 1,
         Listed' = Listed, UNCHANGED flushtime_last_update
  PROVE  /\ shared_delete' \in Seq(PendingDelete)
         /\ DOMAIN shared_delete' = 1 .. Len(shared_delete) + 1
         /\ shared_delete'[1].frags = fs
         /\ shared_delete'[1].flushtime_deleted = flushtime_global + 1
         /\ \A i \in 2 .. Len(shared_delete) + 1 :
               shared_delete'[i] = shared_delete[i - 1]
         /\ RefCountExact'
         /\ Pending' = Pending \cup fs
<1> DEFINE new == [frags |-> fs, ref_count |-> Cardinality(Listed),
                   flushtime_deleted |-> flushtime_global + 1]
           len == Len(shared_delete)
<1>1. IsFiniteSet(Listed) /\ Cardinality(Listed) \in Nat /\ Cardinality(Listed) > 0
  BY ThreadAssumption, FS_Subset, FS_CardinalityType, FS_EmptySet DEF Listed
<1>2. new \in PendingDelete /\ len \in Nat /\ DOMAIN shared_delete = 1 .. len
  BY <1>1, ListTypes DEF PendingDelete
<1>3. /\ shared_delete' = <<new>> \o shared_delete
      /\ shared_delete \in Seq(PendingDelete)
  BY DEF AddToPendingList, DeletionTypeOK
<1> HIDE DEF new, len
<1>4. <<new>> \in Seq(PendingDelete) /\ Len(<<new>>) = 1 /\ <<new>>[1] = new
  BY <1>2
<1>5. /\ shared_delete' \in Seq(PendingDelete)
      /\ Len(shared_delete') = 1 + len
      /\ \A i \in 1 .. 1 + len :
            shared_delete'[i] = IF i <= 1 THEN <<new>>[i] ELSE shared_delete[i - 1]
  BY <1>3, <1>4, ConcatProperties DEF len
<1>6. /\ DOMAIN shared_delete' = 1 .. len + 1
      /\ shared_delete'[1] = new
      /\ \A i \in 2 .. len + 1 : shared_delete'[i] = shared_delete[i - 1]
  BY <1>2, <1>4, <1>5
<1>7. RefCountExact'
  <2> SUFFICES ASSUME NEW i \in 1 .. len + 1
               PROVE  /\ shared_delete'[i].ref_count =
                           Cardinality({t \in Listed :
                              flushtime_last_update[t] < shared_delete'[i].flushtime_deleted})
                      /\ shared_delete'[i].ref_count > 0
    BY <1>6 DEF RefCountExact
  <2>1. CASE i = 1
    <3>1. shared_delete'[i].flushtime_deleted = flushtime_global + 1
      BY <1>6, <2>1 DEF new
    <3>2. \A t \in Listed : flushtime_last_update[t] < flushtime_global + 1
      BY ListTypes DEF ListsOK, TimesOK, Listed
    <3>3. {t \in Listed :
             flushtime_last_update[t] < shared_delete'[i].flushtime_deleted} = Listed
      BY <3>1, <3>2
    <3>4. shared_delete'[i].ref_count = Cardinality(Listed)
      BY <1>6, <2>1 DEF new
    <3> QED
      BY <1>1, <3>3, <3>4
  <2>2. CASE i # 1
    <3>1. i \in 2 .. len + 1 /\ i - 1 \in DOMAIN shared_delete
      BY <1>2, <2>2
    <3> QED
      BY <1>6, <3>1 DEF ListsOK, RefCountExact
  <2> QED
    BY <2>1, <2>2
<1>8. Pending' = Pending \cup fs
  <2>1. ASSUME NEW f PROVE f \in Pending' <=> f \in Pending \cup fs
    <3>1. f \in Pending' <=> \E i \in 1 .. len + 1 : f \in shared_delete'[i].frags
      BY <1>6 DEF Pending
    <3>2. f \in Pending <=> \E i \in 1 .. len : f \in shared_delete[i].frags
      BY <1>2 DEF Pending
    <3>3. shared_delete'[1].frags = fs
      BY <1>6 DEF new
    <3>4. ASSUME NEW i \in 1 .. len
          PROVE  i + 1 \in 2 .. len + 1 /\ shared_delete'[i + 1] = shared_delete[i]
      <4>1. i + 1 \in 2 .. len + 1 /\ (i + 1) - 1 = i
        BY <1>2
      <4> QED
        BY <1>6, <4>1
    <3>5. ASSUME NEW i \in 1 .. len + 1, i # 1
          PROVE  i - 1 \in 1 .. len /\ i \in 2 .. len + 1
      BY <1>2, <3>5
    <3>6. 1 \in 1 .. len + 1 /\ \A i \in 2 .. len + 1 : i \in 1 .. len + 1
      BY <1>2
    <3>7. ASSUME NEW i \in 1 .. len + 1, f \in shared_delete'[i].frags
          PROVE  f \in fs \/ \E j \in 1 .. len : f \in shared_delete[j].frags
      BY <1>6, <3>3, <3>5, <3>7
    <3>8. ASSUME NEW i \in 1 .. len, f \in shared_delete[i].frags
          PROVE  \E j \in 1 .. len + 1 : f \in shared_delete'[j].frags
      BY <3>4, <3>6, <3>8
    <3> QED
      BY <3>1, <3>2, <3>3, <3>6, <3>7, <3>8
  <2> QED
    BY <2>1
<1> QED
  BY <1>5, <1>6, <1>7, <1>8 DEF new, len

(* Nothing happens to the lists. *)
LEMMA ListsKept ==
  ASSUME ListsOK, Listed' = Listed,
         UNCHANGED <<linked, lists, flushtime_last_update, flushtime_global>>
  PROVE  ListsOK' /\ \A t \in Thread : \A f : Safe(t, f) => Safe(t, f)'
<1>1. UNCHANGED <<Pending, Lazy, Freed>>
  BY DEF lists, Pending, Lazy, Freed
<1> QED
  BY <1>1
     DEF lists, ListsOK, TimesOK, RefCountExact, ListsSorted, OnOneList, Safe

(* A thread that holds nothing is safe. *)
LEMMA NothingIsSafe ==
  ASSUME DeletionTypeOK, NEW t \in Thread
  PROVE  Safe(t, NoFragment)
BY ListTypes, FragmentAssumption DEF Safe, Freed

(* A fragment is built, or found. *)
LEMMA ListsDispatch ==
  ASSUME DeletionTypeOK, ListsOK, NEW f \in linked \cup Freed,
         linked' = linked \cup {f}, Listed' = Listed,
         UNCHANGED <<lists, flushtime_last_update, flushtime_global>>
  PROVE  /\ ListsOK'
         /\ \A t \in Thread : \A g : Safe(t, g) => Safe(t, g)'
         /\ \A t \in Thread : Safe(t, f)'
<1>1. UNCHANGED <<Pending, Lazy>>
  BY DEF lists, Pending, Lazy
<1>2. f \in Fragment /\ f \notin Pending \cup Lazy
  BY DEF DeletionTypeOK, Freed, ListsOK, OnOneList
<1>3. ListsOK'
  BY <1>1, <1>2
     DEF lists, ListsOK, TimesOK, RefCountExact, ListsSorted, OnOneList
<1>4. Freed' = Freed \ {f}
  BY <1>1 DEF Freed
<1>5. \A t \in Thread : \A g : Safe(t, g) => Safe(t, g)'
  BY <1>4 DEF lists, Safe
<1>6. \A t \in Thread : Safe(t, f)'
  BY <1>1, <1>2, <1>4 DEF lists, Safe, Pending, Lazy
<1> QED
  BY <1>3, <1>5, <1>6

(* A thread is listed.  Its time is the clock's, so no entry counts it. *)
LEMMA ListsThreadInit ==
  ASSUME DeletionTypeOK, ListsOK, NEW t \in Thread, t \notin Listed,
         Listed' = Listed \cup {t},
         flushtime_last_update' = [flushtime_last_update EXCEPT ![t] = flushtime_global],
         UNCHANGED <<linked, lists, flushtime_global>>
  PROVE  /\ ListsOK'
         /\ \A u \in Thread \ {t} : \A f : Safe(u, f) => Safe(u, f)'
<1>1. UNCHANGED <<Pending, Lazy, Freed>>
  BY DEF lists, Pending, Lazy, Freed
<1>2. \A u \in Thread : flushtime_last_update'[u] =
         IF u = t THEN flushtime_global ELSE flushtime_last_update[u]
  BY DEF DeletionTypeOK
<1>3. TimesOK'
  BY <1>2, ListTypes DEF lists, ListsOK, TimesOK
<1>4. RefCountExact'
  <2> SUFFICES ASSUME NEW i \in DOMAIN shared_delete
               PROVE  {u \in Listed' :
                         flushtime_last_update'[u] < shared_delete[i].flushtime_deleted}
                      = {u \in Listed :
                         flushtime_last_update[u] < shared_delete[i].flushtime_deleted}
    BY DEF lists, ListsOK, RefCountExact
  <2>1. ~ (flushtime_global < shared_delete[i].flushtime_deleted)
    BY ListTypes DEF ListsOK, TimesOK
  <2> QED
    BY <1>2, <2>1 DEF Listed
<1>5. ListsSorted' /\ OnOneList'
  BY <1>1 DEF lists, ListsOK, ListsSorted, OnOneList
<1>6. \A u \in Thread \ {t} : \A f : Safe(u, f) => Safe(u, f)'
  BY <1>1, <1>2 DEF lists, Safe
<1> QED
  BY <1>3, <1>4, <1>5, <1>6 DEF ListsOK

(* A fragment is taken out of the tables and put on the lazy list. *)
LEMMA ListsRemove ==
  ASSUME DeletionTypeOK, ListsOK, NEW f \in linked,
         linked' = linked \ {f},
         lazy_delete_list' = Append(lazy_delete_list,
                                    [frag |-> f, flushtime |-> flushtime_global + 1]),
         Listed' = Listed,
         UNCHANGED <<shared_delete, flushtime_last_update, flushtime_global>>
  PROVE  /\ ListsOK'
         /\ lazy_delete_list' \in Seq(LazyDelete)
         /\ \A t \in Thread : \A g : Safe(t, g) => Safe(t, g)'
<1> DEFINE new == [frag |-> f, flushtime |-> flushtime_global + 1]
           len == Len(lazy_delete_list)
<1>1. new \in LazyDelete /\ len \in Nat /\ DOMAIN lazy_delete_list = 1 .. len
  BY ListTypes DEF LazyDelete, DeletionTypeOK
<1>2. lazy_delete_list \in Seq(LazyDelete)
  BY DEF DeletionTypeOK
<1>3. /\ lazy_delete_list' \in Seq(LazyDelete)
      /\ DOMAIN lazy_delete_list' = 1 .. len + 1
      /\ \A j \in 1 .. len : lazy_delete_list'[j] = lazy_delete_list[j]
      /\ lazy_delete_list'[len + 1] = new
  <2> HIDE DEF new
  <2>1. lazy_delete_list' = Append(lazy_delete_list, new)
    BY DEF new
  <2>2. /\ lazy_delete_list' \in Seq(LazyDelete)
        /\ Len(lazy_delete_list') = len + 1
        /\ \A j \in 1 .. len : lazy_delete_list'[j] = lazy_delete_list[j]
        /\ lazy_delete_list'[len + 1] = new
    BY <1>1, <1>2, <2>1, AppendProperties
  <2> QED
    BY <1>1, <2>2
<1>4. new.frag = f /\ new.flushtime = flushtime_global + 1
  OBVIOUS
<1> HIDE DEF new, len
<1>5. Pending' = Pending /\ Lazy' = Lazy \cup {f}
  <2>1. Pending' = Pending
    BY DEF Pending
  <2>2. Lazy' = Lazy \cup {f}
    <3>1. Lazy' = {lazy_delete_list'[j].frag : j \in 1 .. len + 1}
      BY <1>3 DEF Lazy
    <3>2. Lazy = {lazy_delete_list[j].frag : j \in 1 .. len}
      BY <1>1 DEF Lazy
    <3>3. \A j : j \in 1 .. len + 1 <=> j \in 1 .. len \/ j = len + 1
      BY <1>1
    <3> QED
      BY <1>3, <1>4, <3>1, <3>2, <3>3
  <2> QED
    BY <2>1, <2>2
<1>6. Freed' = Freed /\ f \notin Pending \cup Lazy
  BY <1>5 DEF Freed, ListsOK, OnOneList
<1>7. \A j \in 1 .. len : lazy_delete_list[j].frag \in Lazy
  BY <1>1 DEF Lazy
<1>8. TimesOK'
  <2>1. flushtime_global \in Nat
    BY ListTypes
  <2>2. \A j \in 1 .. len + 1 : lazy_delete_list'[j].flushtime <= flushtime_global + 1
    BY <1>1, <1>3, <1>4, <2>1 DEF ListsOK, TimesOK
  <2> QED
    BY <1>3, <2>2 DEF ListsOK, TimesOK
<1>9. RefCountExact'
  BY DEF ListsOK, RefCountExact
<1>10. ListsSorted'
  <2> SUFFICES ASSUME NEW i \in 1 .. len + 1, NEW j \in 1 .. len + 1, i < j
               PROVE  lazy_delete_list'[i].flushtime <= lazy_delete_list'[j].flushtime
    BY <1>3 DEF ListsOK, ListsSorted
  <2>1. i \in 1 .. len
    BY <1>1
  <2>2. CASE j \in 1 .. len
    BY <1>1, <1>3, <2>1, <2>2 DEF ListsOK, ListsSorted
  <2>3. CASE j = len + 1
    BY <1>1, <1>3, <1>4, <2>1, <2>3 DEF ListsOK, TimesOK
  <2> QED
    BY <1>1, <2>2, <2>3
<1>11. OnOneList'
  <2>1. ASSUME NEW i \in 1 .. len + 1, NEW j \in 1 .. len + 1, i # j
        PROVE  lazy_delete_list'[i].frag # lazy_delete_list'[j].frag
    <3>1. CASE i \in 1 .. len /\ j \in 1 .. len
      BY <1>1, <1>3, <2>1, <3>1 DEF ListsOK, OnOneList
    <3>2. CASE i = len + 1 \/ j = len + 1
      <4>1. i \in 1 .. len \/ j \in 1 .. len
        BY <1>1, <2>1, <3>2
      <4> QED
        BY <1>3, <1>4, <1>6, <1>7, <3>2, <4>1
    <3> QED
      BY <1>1, <3>1, <3>2
  <2> QED
    BY <1>3, <1>5, <1>6, <2>1 DEF ListsOK, OnOneList
<1>12. \A t \in Thread : \A g : Safe(t, g) => Safe(t, g)'
  <2> SUFFICES ASSUME NEW t \in Thread, NEW g, Safe(t, g), NEW j \in 1 .. len + 1,
                      g = lazy_delete_list'[j].frag
               PROVE  flushtime_last_update[t] < lazy_delete_list'[j].flushtime
    BY <1>3, <1>6 DEF Safe
  <2>1. CASE j \in 1 .. len
    BY <1>1, <1>3, <2>1 DEF Safe
  <2>2. CASE j = len + 1
    <3>1. flushtime_last_update[t] <= flushtime_global
      BY DEF ListsOK, TimesOK
    <3> QED
      BY <1>3, <1>4, <2>2, <3>1, ListTypes
  <2> QED
    BY <1>1, <2>1, <2>2
<1> QED
  BY <1>3, <1>8, <1>9, <1>10, <1>11, <1>12 DEF ListsOK

(* Fragments that were in the tables, or on the lazy list, get an entry.   *)
LEMMA ListsAdded ==
  ASSUME DeletionTypeOK, ListsOK, Listed # {}, NEW fs \in SUBSET (linked \cup Lazy),
         AddToPendingList(fs, Cardinality(Listed), flushtime_global + 1),
         flushtime_global' = flushtime_global + 1,
         linked' \subseteq linked,
         linked' \cup Lazy' = (linked \cup Lazy) \ fs,
         lazy_delete_list' \in {lazy_delete_list, << >>},
         Listed' = Listed, UNCHANGED flushtime_last_update
  PROVE  /\ ListsOK'
         /\ shared_delete' \in Seq(PendingDelete)
         /\ \A t \in Thread : \A g : Safe(t, g) => Safe(t, g)'
<1> DEFINE len == Len(shared_delete)
<1>0. len \in Nat /\ DOMAIN shared_delete = 1 .. len /\ flushtime_global \in Nat
  BY ListTypes
<1>1. fs \in SUBSET Fragment
  BY ListTypes DEF DeletionTypeOK, Lazy
<1>2. /\ shared_delete' \in Seq(PendingDelete)
      /\ DOMAIN shared_delete' = 1 .. len + 1
      /\ shared_delete'[1].frags = fs
      /\ shared_delete'[1].flushtime_deleted = flushtime_global + 1
      /\ \A i \in 2 .. len + 1 : shared_delete'[i] = shared_delete[i - 1]
      /\ RefCountExact'
      /\ Pending' = Pending \cup fs
  BY <1>1, PendingAdded
<1> HIDE DEF len
<1>3. Freed' = Freed
  BY <1>2 DEF Freed
<1>4. Lazy' \subseteq Lazy
  <2>1. CASE lazy_delete_list' = lazy_delete_list
    BY <2>1 DEF Lazy
  <2>2. CASE lazy_delete_list' = << >>
    BY <2>2 DEF Lazy
  <2> QED
    BY <2>1, <2>2
<1>5. ASSUME NEW i \in 1 .. len + 1, i # 1
      PROVE  i \in 2 .. len + 1 /\ i - 1 \in DOMAIN shared_delete
  <2>1. i - 1 \in 1 .. len /\ i \in 2 .. len + 1
    BY <1>0, <1>5
  <2> QED
    BY <1>0, <2>1
<1>6. \A j \in DOMAIN lazy_delete_list' :
         j \in DOMAIN lazy_delete_list /\ lazy_delete_list'[j] = lazy_delete_list[j]
  OBVIOUS
<1>7. TimesOK'
  <2>1. \A t \in Thread : flushtime_last_update'[t] <= flushtime_global'
    BY ListTypes DEF ListsOK, TimesOK
  <2>2. \A i \in DOMAIN shared_delete' :
           shared_delete'[i].flushtime_deleted <= flushtime_global'
    <3> SUFFICES ASSUME NEW i \in 1 .. len + 1
                 PROVE  shared_delete'[i].flushtime_deleted <= flushtime_global + 1
      BY <1>2
    <3>1. CASE i = 1
      BY <1>0, <1>2, <3>1
    <3>2. CASE i # 1
      <4>1. shared_delete'[i] = shared_delete[i - 1] /\ i - 1 \in DOMAIN shared_delete
        BY <1>2, <1>5, <3>2
      <4>2. /\ shared_delete[i - 1].flushtime_deleted <= flushtime_global
            /\ shared_delete[i - 1].flushtime_deleted \in Nat
        BY <4>1, ListTypes DEF ListsOK, TimesOK
      <4> QED
        BY <1>0, <4>1, <4>2
    <3> QED
      BY <3>1, <3>2
  <2>3. \A j \in DOMAIN lazy_delete_list' :
           lazy_delete_list'[j].flushtime <= flushtime_global' + 1
    BY <1>0, <1>6, ListTypes DEF ListsOK, TimesOK
  <2> QED
    BY <2>1, <2>2, <2>3 DEF TimesOK
<1>8. ListsSorted'
  <2>1. ASSUME NEW i \in 1 .. len + 1, NEW j \in 1 .. len + 1, i < j
        PROVE  shared_delete'[i].flushtime_deleted >= shared_delete'[j].flushtime_deleted
    <3>1. j \in 2 .. len + 1 /\ j - 1 \in DOMAIN shared_delete
      BY <1>0, <1>5, <2>1
    <3>2. shared_delete'[j] = shared_delete[j - 1]
      BY <1>2, <3>1
    <3>3. CASE i = 1
      <4>1. shared_delete[j - 1].flushtime_deleted <= flushtime_global
        BY <3>1 DEF ListsOK, TimesOK
      <4>2. shared_delete[j - 1].flushtime_deleted \in Nat
        BY <3>1, ListTypes
      <4>3. shared_delete'[i].flushtime_deleted = flushtime_global + 1
        BY <1>2, <3>3
      <4> QED
        BY <1>0, <3>2, <4>1, <4>2, <4>3
    <3>4. CASE i # 1
      <4>1. i \in 2 .. len + 1 /\ i - 1 \in DOMAIN shared_delete /\ i - 1 < j - 1
        BY <1>0, <1>5, <2>1, <3>4
      <4> QED
        BY <1>2, <3>1, <3>2, <4>1 DEF ListsOK, ListsSorted
    <3> QED
      BY <3>3, <3>4
  <2>2. \A i, j \in DOMAIN lazy_delete_list' : i < j =>
           lazy_delete_list'[i].flushtime <= lazy_delete_list'[j].flushtime
    BY <1>6 DEF ListsOK, ListsSorted
  <2> QED
    BY <1>2, <2>1, <2>2 DEF ListsSorted
<1>9. OnOneList'
  <2>1. fs \cap Pending = {}
    BY DEF ListsOK, OnOneList
  <2>2. \A i \in DOMAIN shared_delete : shared_delete[i].frags \subseteq Pending
    BY DEF Pending
  <2>3. ASSUME NEW i \in 1 .. len + 1, NEW j \in 1 .. len + 1, i # j
        PROVE  shared_delete'[i].frags \cap shared_delete'[j].frags = {}
    <3>1. CASE i = 1
      BY <1>2, <1>5, <2>1, <2>2, <2>3, <3>1
    <3>2. CASE j = 1
      BY <1>2, <1>5, <2>1, <2>2, <2>3, <3>2
    <3>3. CASE i # 1 /\ j # 1
      <4>1. i - 1 # j - 1
        BY <1>0, <2>3
      <4> QED
        BY <1>2, <1>5, <3>3, <4>1 DEF ListsOK, OnOneList
    <3> QED
      BY <3>1, <3>2, <3>3
  <2>4. linked' \cap (Pending' \cup Lazy') = {} /\ Pending' \cap Lazy' = {}
    BY <1>2, <1>4 DEF ListsOK, OnOneList
  <2>5. \A i, j \in DOMAIN lazy_delete_list' : i # j =>
           lazy_delete_list'[i].frag # lazy_delete_list'[j].frag
    BY <1>6 DEF ListsOK, OnOneList
  <2> QED
    BY <1>2, <2>3, <2>4, <2>5 DEF OnOneList
<1>10. \A t \in Thread : \A g : Safe(t, g) => Safe(t, g)'
  <2> SUFFICES ASSUME NEW t \in Thread, NEW g, Safe(t, g) PROVE Safe(t, g)'
    OBVIOUS
  <2>1. ASSUME NEW i \in 1 .. len + 1, g \in shared_delete'[i].frags
        PROVE  flushtime_last_update[t] < shared_delete'[i].flushtime_deleted
    <3>1. CASE i = 1
      <4>1. flushtime_last_update[t] <= flushtime_global
        BY DEF ListsOK, TimesOK
      <4> QED
        BY <1>0, <1>2, <3>1, <4>1, ListTypes
    <3>2. CASE i # 1
      BY <1>2, <1>5, <2>1, <3>2 DEF Safe
    <3> QED
      BY <3>1, <3>2
  <2> QED
    BY <1>2, <1>3, <1>6, <2>1 DEF Safe
<1> QED
  BY <1>2, <1>7, <1>8, <1>9, <1>10 DEF ListsOK

(* Thread u signs off.  What is freed waited for u alone, so it is not     *)
(* held by another listed thread; what is linked stays.                    *)
LEMMA ListsWalk ==
  ASSUME DeletionTypeOK, ListsOK, NEW u \in Listed, CheckSharedPending(u),
         Listed' = Listed, UNCHANGED <<linked, flushtime_global>>
  PROVE  /\ ListsOK'
         /\ shared_delete' \in Seq(PendingDelete)
         /\ lazy_delete_list' \in Seq(LazyDelete)
         /\ \A t \in Listed \ {u} : \A f : Safe(t, f) => Safe(t, f)'
         /\ \A f \in linked : Safe(u, f)'
<1> DEFINE len == Len(shared_delete)
           llen == Len(lazy_delete_list)
<1>0. /\ len \in Nat /\ DOMAIN shared_delete = 1 .. len
      /\ llen \in Nat /\ DOMAIN lazy_delete_list = 1 .. llen
      /\ u \in Thread /\ flushtime_global \in Nat
  BY ListTypes DEF Listed
<1>1. PICK m, k : WalkLeaves(u, m, k)
  BY WalkEffect DEF ListsOK
<1>2. \A t \in Thread : flushtime_last_update'[t] =
         IF t = u THEN flushtime_global ELSE flushtime_last_update[t]
  BY DEF CheckSharedPending, DeletionTypeOK
<1> HIDE DEF len, llen
<1>3. /\ m \in 0 .. len /\ k \in 0 .. llen
      /\ DOMAIN shared_delete' = 1 .. m
      /\ \A i \in 1 .. m : i \in DOMAIN shared_delete
      /\ \A i \in m + 1 .. len : i \in DOMAIN shared_delete
  <2>1. m \in 0 .. len /\ k \in 0 .. llen /\ DOMAIN shared_delete' = 1 .. m
    BY <1>1 DEF WalkLeaves, len, llen
  <2> QED
    BY <1>0, <2>1
<1>4. \A i \in 1 .. m :
         /\ shared_delete'[i].frags = shared_delete[i].frags
         /\ shared_delete'[i].flushtime_deleted = shared_delete[i].flushtime_deleted
  BY <1>1 DEF WalkLeaves
<1>5. /\ DOMAIN lazy_delete_list' = 1 .. llen - k
      /\ \A j \in 1 .. llen - k :
            lazy_delete_list'[j] = lazy_delete_list[k + j]
  BY <1>1 DEF WalkLeaves, llen
<1>6. ASSUME NEW j \in 1 .. llen - k
      PROVE  k + j \in DOMAIN lazy_delete_list
  BY <1>0, <1>3
<1>7. /\ shared_delete' \in Seq(PendingDelete)
      /\ lazy_delete_list' \in Seq(LazyDelete)
  BY <1>1 DEF WalkLeaves
<1>8. TimesOK'
  <2>1. \A t \in Thread : flushtime_last_update'[t] <= flushtime_global
    BY <1>0, <1>2 DEF ListsOK, TimesOK
  <2>2. \A i \in DOMAIN shared_delete' :
           shared_delete'[i].flushtime_deleted <= flushtime_global
    BY <1>3, <1>4 DEF ListsOK, TimesOK
  <2>3. \A j \in DOMAIN lazy_delete_list' :
           lazy_delete_list'[j].flushtime <= flushtime_global + 1
    BY <1>5, <1>6 DEF ListsOK, TimesOK
  <2> QED
    BY <2>1, <2>2, <2>3 DEF TimesOK
<1>9. RefCountExact'
  <2> SUFFICES ASSUME NEW i \in 1 .. m
               PROVE  /\ shared_delete'[i].ref_count =
                           Cardinality({t \in Listed : flushtime_last_update'[t]
                                          < shared_delete'[i].flushtime_deleted})
                      /\ shared_delete'[i].ref_count > 0
    BY <1>3 DEF RefCountExact
  <2> DEFINE W == Waiting(shared_delete[i].flushtime_deleted)
  <2>1. i \in DOMAIN shared_delete
    BY <1>3
  <2>2. /\ shared_delete[i].flushtime_deleted \in Nat
        /\ shared_delete[i].flushtime_deleted <= flushtime_global
    BY <2>1, ListTypes DEF ListsOK, TimesOK
  <2>3. {t \in Listed : flushtime_last_update'[t] < shared_delete'[i].flushtime_deleted}
           = W \ {u}
    <3>1. ~ (flushtime_global < shared_delete[i].flushtime_deleted)
      BY <1>0, <2>2
    <3> QED
      BY <1>2, <1>4, <3>1 DEF Waiting, Listed
  <2>4. /\ shared_delete[i].ref_count = Cardinality(W)
        /\ shared_delete[i].ref_count \in Nat /\ shared_delete[i].ref_count > 0
        /\ IsFiniteSet(W)
    BY <2>1, ListTypes, WaitingFinite DEF ListsOK, RefCountExact, Waiting
  <2>5. W # {u}
    BY <1>1 DEF WalkLeaves
  <2>6. shared_delete'[i].ref_count =
           IF u \in W THEN shared_delete[i].ref_count - 1 ELSE shared_delete[i].ref_count
    BY <1>1 DEF WalkLeaves
  <2> HIDE DEF W
  <2>7. /\ IsFiniteSet(W \ {u})
        /\ Cardinality(W \ {u}) = IF u \in W THEN Cardinality(W) - 1 ELSE Cardinality(W)
    BY <2>4, FS_RemoveElement
  <2>8. W # {} /\ W \ {u} # {}
    BY <2>4, <2>5, FS_EmptySet
  <2>9. Cardinality(W \ {u}) \in Nat /\ Cardinality(W \ {u}) # 0
    BY <2>7, <2>8, FS_EmptySet, FS_CardinalityType
  <2>10. shared_delete'[i].ref_count = Cardinality(W \ {u})
    BY <2>4, <2>6, <2>7
  <2>11. Cardinality(W \ {u}) > 0
    BY <2>9
  <2> QED
    BY <2>3, <2>10, <2>11
<1>10. ListsSorted'
  <2>1. \A i, j \in 1 .. m : i < j =>
           shared_delete'[i].flushtime_deleted >= shared_delete'[j].flushtime_deleted
    BY <1>3, <1>4 DEF ListsOK, ListsSorted
  <2>2. ASSUME NEW i \in 1 .. llen - k, NEW j \in 1 .. llen - k, i < j
        PROVE  lazy_delete_list'[i].flushtime <= lazy_delete_list'[j].flushtime
    <3>1. k + i < k + j
      BY <1>0, <1>3, <2>2
    <3>2. lazy_delete_list[k + i].flushtime <= lazy_delete_list[k + j].flushtime
      BY <1>6, <3>1 DEF ListsOK, ListsSorted
    <3> QED
      BY <1>5, <3>2
  <2> QED
    BY <1>3, <1>5, <2>1, <2>2 DEF ListsSorted
<1>11. Pending' \subseteq Pending /\ Lazy' \subseteq Lazy
  BY <1>3, <1>4, <1>5, <1>6 DEF Pending, Lazy
<1>12. OnOneList'
  <2>1. \A i, j \in 1 .. m : i # j =>
           shared_delete'[i].frags \cap shared_delete'[j].frags = {}
    BY <1>3, <1>4 DEF ListsOK, OnOneList
  <2>2. ASSUME NEW i \in 1 .. llen - k, NEW j \in 1 .. llen - k, i # j
        PROVE  lazy_delete_list'[i].frag # lazy_delete_list'[j].frag
    <3>1. k + i # k + j
      BY <1>0, <1>3, <2>2
    <3>2. lazy_delete_list[k + i].frag # lazy_delete_list[k + j].frag
      BY <1>6, <3>1 DEF ListsOK, OnOneList
    <3> QED
      BY <1>5, <3>2
  <2> QED
    BY <1>3, <1>5, <1>11, <2>1, <2>2 DEF ListsOK, OnOneList
<1>13. ASSUME NEW t \in Listed \ {u}, NEW f, Safe(t, f)
       PROVE  Safe(t, f)'
  <2>0. flushtime_last_update'[t] = flushtime_last_update[t] /\ t \in Thread
    BY <1>2 DEF Listed
  <2>1. ASSUME NEW i \in m + 1 .. len
        PROVE  ~ (flushtime_last_update[t] < shared_delete[i].flushtime_deleted)
    <3>1. Waiting(shared_delete[i].flushtime_deleted) = {u}
      BY <1>1 DEF WalkLeaves, len
    <3> QED
      BY <3>1 DEF Waiting
  <2>2. ASSUME NEW i \in DOMAIN shared_delete, f \in shared_delete[i].frags
        PROVE  i \in 1 .. m
    <3>1. flushtime_last_update[t] < shared_delete[i].flushtime_deleted
      BY <2>2, <1>13 DEF Safe
    <3>2. i \notin m + 1 .. len
      BY <2>1, <3>1
    <3> QED
      BY <1>0, <1>3, <3>2
  <2>3. ASSUME NEW j \in DOMAIN lazy_delete_list, f = lazy_delete_list[j].frag
        PROVE  j - k \in 1 .. llen - k /\ k + (j - k) = j
    <3>1. flushtime_last_update[t] < lazy_delete_list[j].flushtime
      BY <2>3, <1>13 DEF Safe
    <3>2. ASSUME j \in 1 .. k PROVE FALSE
      <4>1. PICK i \in m + 1 .. len :
               lazy_delete_list[j].flushtime <= shared_delete[i].flushtime_deleted
        BY <1>1, <3>2 DEF WalkLeaves, len
      <4>2. ~ (flushtime_last_update[t] < shared_delete[i].flushtime_deleted)
        BY <2>1
      <4>3. /\ shared_delete[i].flushtime_deleted \in Nat
            /\ lazy_delete_list[j].flushtime \in Nat
            /\ flushtime_last_update[t] \in Nat
        BY <1>3, <2>0, ListTypes
      <4> QED
        BY <3>1, <4>1, <4>2, <4>3
    <3> QED
      BY <1>0, <1>3, <3>2
  <2>4. f \notin Freed'
    <3>1. f \in Pending => f \in Pending'
      BY <1>3, <1>4, <2>2 DEF Pending
    <3>2. f \in Lazy => f \in Lazy'
      <4>1. ASSUME NEW j \in DOMAIN lazy_delete_list, f = lazy_delete_list[j].frag
            PROVE  /\ j - k \in DOMAIN lazy_delete_list'
                   /\ f = lazy_delete_list'[j - k].frag
        BY <1>5, <2>3, <4>1
      <4> QED
        BY <4>1 DEF Lazy
    <3> QED
      BY <1>13, <3>1, <3>2 DEF Safe, Freed
  <2>5. \A i \in 1 .. m : f \in shared_delete'[i].frags =>
           flushtime_last_update'[t] < shared_delete'[i].flushtime_deleted
    BY <1>3, <1>4, <1>13, <2>0 DEF Safe
  <2>6. \A j \in 1 .. llen - k : f = lazy_delete_list'[j].frag =>
           flushtime_last_update'[t] < lazy_delete_list'[j].flushtime
    BY <1>5, <1>6, <1>13, <2>0 DEF Safe
  <2> QED
    BY <1>3, <1>5, <2>4, <2>5, <2>6 DEF Safe
<1>14. ASSUME NEW f \in linked PROVE Safe(u, f)'
  <2>1. f \notin Pending' /\ f \notin Lazy' /\ f \notin Freed'
    BY <1>11 DEF ListsOK, OnOneList, Freed
  <2> QED
    BY <2>1 DEF Safe, Pending, Lazy
<1> QED
  BY <1>7, <1>8, <1>9, <1>10, <1>12, <1>13, <1>14 DEF ListsOK

-----------------------------------------------------------------------------
(* The invariant is inductive *)

LEMMA DeletionInitIInv == DeletionInit => DeletionIInv
<1> SUFFICES ASSUME DeletionInit PROVE DeletionIInv
  OBVIOUS
<1>1. IInv
  BY InitIInv DEF DeletionInit
<1>2. DeletionTypeOK
  <2>1. << >> \in Seq(PendingDelete) /\ << >> \in Seq(LazyDelete)
    OBVIOUS
  <2>2. TypeOK
    BY <1>1 DEF IInv
  <2> QED
    BY <2>1, <2>2 DEF DeletionInit, DeletionTypeOK
<1>3. Pending = {} /\ Lazy = {}
  BY DEF DeletionInit, Pending, Lazy
<1>4. ListsOK
  BY <1>3 DEF DeletionInit, Init, ListsOK, TimesOK, RefCountExact, ListsSorted, OnOneList
<1>5. \A t \in Thread : HoldsSafely(t)
  BY <1>2, NothingIsSafe DEF DeletionInit, HoldsSafely
<1>6. \A u \in Thread : AsleepInSyscall(u)
  BY DEF DeletionInit, Init, AllFalse, AsleepInSyscall
<1> QED
  BY <1>1, <1>2, <1>4, <1>5, <1>6 DEF DeletionIInv, HoldingOK

(* What the steps do with the threads' states is the protocol of           *)
(* FlushSynch, except that moving the lazy list is a tick of its clock.    *)
LEMMA HandshakeKept == DeletionIInv /\ [DeletionNext]_allVars => IInv'
<1> SUFFICES ASSUME DeletionIInv, [DeletionNext]_allVars PROVE IInv'
  OBVIOUS
<1>0. IInv
  BY DEF DeletionIInv
<1>1. CASE [Next]_vars
  BY <1>0, <1>1, TypeStep, HandshakeStep DEF IInv
<1>2. ASSUME NEW t \in Thread, MoveLazyList(t) PROVE IInv'
  <2>1. TypeOK'
    BY <1>0, <1>2 DEF IInv, TypeOK, MoveLazyList, perThread, events
  <2>2. HandshakeInv'
    BY <1>0, <1>2
       DEF IInv, HandshakeInv, FlusherOK, ThreadOK, WaitedFor, Held, Listed,
           MoveLazyList, perThread, events
  <2> QED
    BY <2>1, <2>2 DEF IInv
<1>3. CASE UNCHANGED allVars
  BY <1>1, <1>3 DEF allVars
<1>4. ASSUME NEW t \in Thread,
             \/ ThreadInitDeletion(t) \/ SyscallDeletion(t) \/ CouldBeLinkingDeletion(t)
             \/ NoLinkingDeletion(t) \/ OtherDeletion(t)
             \/ \E fs \in SUBSET linked : UnlinkSharedDeletion(t, fs)
             \/ \E u \in Thread : EndSynchDeletion(t, u)
             \/ \E f \in Fragment : \/ FollowLink(t, f)
                                    \/ Dispatch(t, f)
                                    \/ RemoveSharedNoFlush(t, f)
      PROVE  [Next]_vars
  <2>1. CASE ThreadInitDeletion(t)
    BY <2>1 DEF ThreadInitDeletion, Next, Decide
  <2>2. CASE SyscallDeletion(t)
    BY <2>2 DEF SyscallDeletion, Next, Decide
  <2>3. CASE CouldBeLinkingDeletion(t)
    BY <2>3 DEF CouldBeLinkingDeletion, Next, Decide, Linking
  <2>4. CASE NoLinkingDeletion(t)
    BY <2>4 DEF NoLinkingDeletion, Next, Linking
  <2>5. CASE OtherDeletion(t)
    BY <2>5 DEF OtherDeletion, Next, Decide, Linking, Flush
  <2>6. CASE \E fs \in SUBSET linked : UnlinkSharedDeletion(t, fs)
    BY <2>6 DEF UnlinkSharedDeletion, Next, Flush
  <2>7. CASE \E u \in Thread : EndSynchDeletion(t, u)
    BY <2>7 DEF EndSynchDeletion, Next, Flush
  <2>8. CASE \E f \in Fragment : \/ FollowLink(t, f)
                                  \/ Dispatch(t, f)
                                  \/ RemoveSharedNoFlush(t, f)
    BY <2>8 DEF FollowLink, Dispatch, RemoveSharedNoFlush
  <2> QED
    BY <1>4, <2>1, <2>2, <2>3, <2>4, <2>5, <2>6, <2>7, <2>8
<1> QED
  BY <1>1, <1>2, <1>3, <1>4 DEF DeletionNext

(* A thread that a flusher found in a system call gets at nothing before   *)
(* the flusher comes back to it.                                           *)
LEMMA AsleepStep ==
  ASSUME DeletionIInv, [DeletionNext]_allVars
  PROVE  \A v \in Thread : AsleepInSyscall(v)'
<1>0. /\ IInv /\ \A v \in Thread : AsleepInSyscall(v)
      /\ frag \in [Thread -> Fragment \cup {NoFragment}]
      /\ linked \subseteq Fragment
  BY DEF DeletionIInv, HoldingOK, DeletionTypeOK
<1> USE <1>0, NoThreadAssumption, FragmentAssumption
    DEF IInv, TypeOK, HandshakeInv, FlusherOK, ThreadOK, MayLink, Flushing,
        WaitedFor, Held, Listed, Goto, Raise, Clear, Forget, perThread, events, flush,
        AsleepInSyscall
<1>1. CASE UNCHANGED allVars
  BY <1>1 DEF allVars, vars, deletion
<1>2. ASSUME NEW t \in Thread, ThreadInitDeletion(t)
      PROVE  \A v \in Thread : AsleepInSyscall(v)'
  BY <1>2 DEF ThreadInitDeletion, ThreadInit
<1>3. ASSUME NEW t \in Thread, SyscallDeletion(t)
      PROVE  \A v \in Thread : AsleepInSyscall(v)'
  <2>1. CASE StartSyscall(t) /\ UNCHANGED frag
    BY <2>1 DEF StartSyscall
  <2>2. CASE EndSyscall(t) /\ Forget(frag, t)
    BY <2>2 DEF EndSyscall
  <2>3. CASE ExitSyscall(t) /\ Forget(frag, t)
    BY <2>3 DEF ExitSyscall
  <2> QED
    BY <1>3, <2>1, <2>2, <2>3 DEF SyscallDeletion
<1>4. ASSUME NEW t \in Thread, CouldBeLinkingDeletion(t)
      PROVE  \A v \in Thread : AsleepInSyscall(v)'
  BY <1>4 DEF CouldBeLinkingDeletion, EnterCouldBeLinking, RecheckCouldBeLinking,
              TryCouldBeLinking
<1>5. ASSUME NEW t \in Thread, NoLinkingDeletion(t)
      PROVE  \A v \in Thread : AsleepInSyscall(v)'
  <2>1. /\ pc[t] \in {"linking", "woken_with"} /\ TryNoLinking(t)
        /\ \A v \in Thread \ {t} : frag'[v] = frag[v]
    BY <1>5 DEF NoLinkingDeletion, EnterNoLinking, RecheckNoLinking
  <2> QED
    BY <2>1 DEF TryNoLinking
<1>6. ASSUME NEW t \in Thread, NEW fs, UnlinkSharedDeletion(t, fs)
      PROVE  \A v \in Thread : AsleepInSyscall(v)'
  BY <1>6 DEF UnlinkSharedDeletion, UnlinkShared
<1>7. ASSUME NEW t \in Thread, NEW u \in Thread, EndSynchDeletion(t, u)
      PROVE  \A v \in Thread : AsleepInSyscall(v)'
  <2>1. EndSynch(t, u) /\ (UNCHANGED frag \/ Forget(frag, u))
    BY <1>7 DEF EndSynchDeletion, CheckSharedPending
  <2> QED
    BY <2>1 DEF EndSynch
<1>8. ASSUME NEW t \in Thread, OtherDeletion(t)
      PROVE  \A v \in Thread : AsleepInSyscall(v)'
  <2>0. UNCHANGED frag
    BY <1>8 DEF OtherDeletion, deletion
  <2>1. CASE StartFlush(t)
    BY <2>0, <2>1 DEF StartFlush
  <2>2. CASE WakeAllUnlink(t)
    BY <2>0, <2>2 DEF WakeAllUnlink
  <2>3. CASE SignalFlusher(t)
    BY <2>0, <2>3 DEF SignalFlusher
  <2>4. CASE WakeWithUnlink(t)
    BY <2>0, <2>4 DEF WakeWithUnlink
  <2>5. CASE WakeUnlink(t)
    BY <2>0, <2>5 DEF WakeUnlink
  <2>6. CASE SynchedThread(t)
    BY <2>0, <2>6 DEF SynchedThread, Stage1Body
  <2>7. CASE FinishFlush(t)
    BY <2>0, <2>7 DEF FinishFlush
  <2>8. ASSUME NEW u \in Thread, OtherThreadExit(t, u)
        PROVE  \A v \in Thread : AsleepInSyscall(v)'
    BY <2>0, <2>8 DEF OtherThreadExit
  <2>9. ASSUME NEW u \in Thread, SynchThread(t, u)
        PROVE  \A v \in Thread : AsleepInSyscall(v)'
    BY <2>0, <2>9 DEF SynchThread, Stage1Body
  <2>10. ASSUME NEW u \in Thread, WaitForThread(t, u)
         PROVE  \A v \in Thread : AsleepInSyscall(v)'
    BY <2>0, <2>10 DEF WaitForThread
  <2> QED
    BY <1>8, <2>1, <2>2, <2>3, <2>4, <2>5, <2>6, <2>7, <2>8, <2>9, <2>10
       DEF OtherDeletion
<1>9. ASSUME NEW t \in Thread, MoveLazyList(t)
      PROVE  \A v \in Thread : AsleepInSyscall(v)'
  BY <1>9 DEF MoveLazyList
<1>10. ASSUME NEW t \in Thread, NEW f \in Fragment, FollowLink(t, f)
       PROVE  \A v \in Thread : AsleepInSyscall(v)'
  BY <1>10 DEF FollowLink, vars
<1>11. ASSUME NEW t \in Thread, NEW f \in Fragment,
              Dispatch(t, f) \/ RemoveSharedNoFlush(t, f)
       PROVE  \A v \in Thread : AsleepInSyscall(v)'
  BY <1>11 DEF Dispatch, RemoveSharedNoFlush, vars
<1> QED
  BY <1>1, <1>2, <1>3, <1>4, <1>5, <1>6, <1>7, <1>8, <1>9, <1>10, <1>11
     DEF DeletionNext

(* What is in the tables is safe. *)
LEMMA LinkedIsSafe ==
  ASSUME ListsOK, NEW t \in Thread, NEW f \in linked
  PROVE  Safe(t, f)
<1>1. f \notin Pending /\ f \notin Lazy /\ f \notin Freed
  BY DEF ListsOK, OnOneList, Freed
<1> QED
  BY <1>1 DEF Safe, Pending, Lazy

LEMMA NothingIsSafeNext ==
  DeletionTypeOK' => \A t \in Thread : Safe(t, NoFragment)'
<1>1. DeletionTypeOK => \A t \in Thread : Safe(t, NoFragment)
  BY NothingIsSafe
<1>2. (DeletionTypeOK => \A t \in Thread : Safe(t, NoFragment))'
  BY <1>1, PTL
<1> QED
  BY <1>2

(* An empty flush is a tick of the clock. *)
LEMMA ListsTick ==
  ASSUME DeletionTypeOK, ListsOK, Listed' = Listed,
         flushtime_global' = flushtime_global + 1,
         UNCHANGED <<linked, lists, flushtime_last_update>>
  PROVE  ListsOK' /\ \A t \in Thread : \A f : Safe(t, f) => Safe(t, f)'
<1>1. UNCHANGED <<Pending, Lazy, Freed>>
  BY DEF lists, Pending, Lazy, Freed
<1>2. TimesOK'
  BY ListTypes DEF lists, ListsOK, TimesOK
<1>3. RefCountExact' /\ ListsSorted' /\ OnOneList'
  BY <1>1 DEF lists, ListsOK, RefCountExact, ListsSorted, OnOneList
<1> QED
  BY <1>1, <1>2, <1>3 DEF lists, ListsOK, Safe

-----------------------------------------------------------------------------
(* What each step does to the lists and to what the threads hold *)

LEMMA HoldingThreadInit ==
  ASSUME DeletionIInv, TypeOK', NEW t \in Thread, ThreadInitDeletion(t)
  PROVE  HoldingOK'
<1>0. DeletionTypeOK /\ ListsOK /\ TypeOK /\ \A v \in Thread : HoldsSafely(v)
  BY DEF DeletionIInv, HoldingOK, IInv
<1>1. /\ pc[t] = "unborn" /\ pc' = [pc EXCEPT ![t] = "nolinking"]
      /\ UNCHANGED <<linked, frag, targetf, errand, lists, flushtime_global>>
      /\ flushtime_last_update' = [flushtime_last_update EXCEPT ![t] = flushtime_global]
  BY DEF ThreadInitDeletion, ThreadInit, Goto, flush
<1>2. t \notin Listed /\ Listed' = Listed \cup {t}
  BY <1>0, <1>1 DEF TypeOK, Listed
<1>3. DeletionTypeOK'
  <2>1. flushtime_last_update' \in [Thread -> Nat]
    BY <1>0, <1>1 DEF DeletionTypeOK, TypeOK
  <2> QED
    BY <1>0, <1>1, <2>1 DEF DeletionTypeOK, lists
<1>4. ListsOK' /\ \A u \in Thread \ {t} : \A f : Safe(u, f) => Safe(u, f)'
  BY <1>0, <1>1, <1>2, ListsThreadInit
<1>5. frag[t] = NoFragment /\ targetf[t] = NoFragment
  BY <1>0, <1>1 DEF HoldsSafely, MayLink
<1>6. ASSUME NEW v \in Thread PROVE HoldsSafely(v)'
  <2>1. CASE v = t
    BY <1>1, <1>3, <1>5, <2>1, NothingIsSafeNext DEF HoldsSafely
  <2>2. CASE v # t
    BY <1>0, <1>1, <1>4, <2>2 DEF HoldsSafely, TypeOK
  <2> QED
    BY <2>1, <2>2
<1> QED
  BY <1>3, <1>4, <1>6 DEF HoldingOK

LEMMA HoldingSyscall ==
  ASSUME DeletionIInv, TypeOK', NEW t \in Thread, SyscallDeletion(t)
  PROVE  HoldingOK'
<1>0. DeletionTypeOK /\ ListsOK /\ TypeOK /\ \A v \in Thread : HoldsSafely(v)
  BY DEF DeletionIInv, HoldingOK, IInv
<1>1. /\ pc[t] \in {"nolinking", "syscall"}
      /\ \E l \in {"nolinking", "syscall", "dead"} : pc' = [pc EXCEPT ![t] = l]
      /\ frag' = frag \/ Forget(frag, t)
      /\ UNCHANGED <<linked, targetf, errand, lists, flushtime_last_update,
                     flushtime_global>>
  BY DEF SyscallDeletion, StartSyscall, EndSyscall, ExitSyscall, Goto, flush
<1>2. Listed' = Listed
  BY <1>0, <1>1 DEF TypeOK, Listed
<1>3. DeletionTypeOK'
  BY <1>0, <1>1 DEF DeletionTypeOK, lists, Forget
<1>4. ListsOK' /\ \A v \in Thread : \A f : Safe(v, f) => Safe(v, f)'
  BY <1>0, <1>1, <1>2, ListsKept
<1>5. targetf[t] = NoFragment
  BY <1>0, <1>1 DEF HoldsSafely, MayLink
<1>6. ASSUME NEW v \in Thread PROVE HoldsSafely(v)'
  <2>1. frag'[v] = frag[v] \/ frag'[v] = NoFragment
    BY <1>0, <1>1 DEF Forget, DeletionTypeOK
  <2>2. Safe(v, frag[v])' /\ Safe(v, targetf[v])'
    BY <1>0, <1>1, <1>3, <1>4, <2>1, NothingIsSafeNext DEF HoldsSafely
  <2>3. frag'[v] # NoFragment => pc'[v] # "unborn"
    BY <1>0, <1>1, <2>1 DEF HoldsSafely, TypeOK
  <2>4. targetf'[v] # NoFragment => errand'[v] = "none" /\ pc'[v] \in MayLink
    BY <1>0, <1>1, <1>5 DEF HoldsSafely, TypeOK
  <2> QED
    BY <2>2, <2>3, <2>4 DEF HoldsSafely
<1> QED
  BY <1>3, <1>4, <1>6 DEF HoldingOK

LEMMA HoldingCouldBeLinking ==
  ASSUME DeletionIInv, TypeOK', NEW t \in Thread, CouldBeLinkingDeletion(t)
  PROVE  HoldingOK'
<1>0. DeletionTypeOK /\ ListsOK /\ TypeOK /\ \A v \in Thread : HoldsSafely(v)
  BY DEF DeletionIInv, HoldingOK, IInv
<1>1. /\ pc[t] \in {"nolinking", "woken_all"}
      /\ \E l \in {"linking", "wait_all"} : pc' = [pc EXCEPT ![t] = l]
      /\ \E e \in {"none", errand[t]} : errand' = [errand EXCEPT ![t] = e]
      /\ UNCHANGED <<linked, frag, targetf, lists, flushtime_last_update,
                     flushtime_global>>
  BY DEF CouldBeLinkingDeletion, EnterCouldBeLinking, RecheckCouldBeLinking,
         TryCouldBeLinking, Goto, flush
<1>2. Listed' = Listed
  BY <1>0, <1>1 DEF TypeOK, Listed
<1>3. DeletionTypeOK'
  BY <1>0, <1>1 DEF DeletionTypeOK, lists
<1>4. ListsOK' /\ \A v \in Thread : \A f : Safe(v, f) => Safe(v, f)'
  BY <1>0, <1>1, <1>2, ListsKept
<1>5. targetf[t] = NoFragment
  BY <1>0, <1>1 DEF HoldsSafely, MayLink
<1>6. ASSUME NEW v \in Thread PROVE HoldsSafely(v)'
  <2>1. Safe(v, frag[v])' /\ Safe(v, targetf[v])'
    BY <1>0, <1>1, <1>4 DEF HoldsSafely
  <2>2. frag'[v] # NoFragment => pc'[v] # "unborn"
    BY <1>0, <1>1 DEF HoldsSafely, TypeOK
  <2>3. targetf'[v] # NoFragment => errand'[v] = "none" /\ pc'[v] \in MayLink
    BY <1>0, <1>1, <1>5 DEF HoldsSafely, TypeOK, DeletionTypeOK
  <2> QED
    BY <2>1, <2>2, <2>3 DEF HoldsSafely
<1> QED
  BY <1>3, <1>4, <1>6 DEF HoldingOK

LEMMA HoldingNoLinking ==
  ASSUME DeletionIInv, TypeOK', NEW t \in Thread, NoLinkingDeletion(t)
  PROVE  HoldingOK'
<1>0. DeletionTypeOK /\ ListsOK /\ TypeOK /\ \A v \in Thread : HoldsSafely(v)
  BY DEF DeletionIInv, HoldingOK, IInv
<1>1. /\ pc[t] \in {"linking", "woken_with"}
      /\ \E l \in {"nolinking", "signal"} : pc' = [pc EXCEPT ![t] = l]
      /\ UNCHANGED <<linked, lists, flushtime_last_update, flushtime_global>>
  BY DEF NoLinkingDeletion, EnterNoLinking, RecheckNoLinking, TryNoLinking, Goto, flush
<1>2. \/ /\ Forget(targetf, t)
         /\ frag' = frag \/ frag' = [frag EXCEPT ![t] = targetf[t]]
         /\ errand' = errand \/ errand' = [errand EXCEPT ![t] = "return"]
      \/ /\ pc'[t] = "signal" \/ errand[t] # "none"
         /\ UNCHANGED <<frag, targetf, errand>>
  BY <1>0, <1>1 DEF NoLinkingDeletion, TypeOK
<1>3. Listed' = Listed
  BY <1>0, <1>1 DEF TypeOK, Listed
<1>4. DeletionTypeOK'
  <2>1. /\ frag' \in [Thread -> Fragment \cup {NoFragment}]
        /\ targetf' \in [Thread -> Fragment \cup {NoFragment}]
        /\ errand' \in [Thread -> {"none", "move", "return"}]
    BY <1>0, <1>2 DEF DeletionTypeOK, Forget
  <2> QED
    BY <1>0, <1>1, <2>1 DEF DeletionTypeOK, lists
<1>5. ListsOK' /\ \A v \in Thread : \A f : Safe(v, f) => Safe(v, f)'
  BY <1>0, <1>1, <1>3, ListsKept
<1>6. ASSUME NEW v \in Thread PROVE HoldsSafely(v)'
  <2>1. CASE v = t
    <3>1. /\ frag'[t] \in {frag[t], targetf[t]}
          /\ \/ targetf'[t] = NoFragment
             \/ /\ targetf'[t] = targetf[t] /\ errand'[t] = errand[t]
                /\ pc'[t] = "signal" \/ errand[t] # "none"
      BY <1>0, <1>2 DEF DeletionTypeOK, Forget
    <3>2. Safe(t, frag[t])' /\ Safe(t, targetf[t])'
      BY <1>0, <1>4, <1>5, <3>1, NothingIsSafeNext DEF HoldsSafely
    <3>3. targetf'[t] # NoFragment => errand'[t] = "none" /\ pc'[t] \in MayLink
      BY <1>0, <3>1 DEF HoldsSafely, MayLink
    <3>4. pc'[t] # "unborn"
      BY <1>0, <1>1 DEF TypeOK
    <3> QED
      BY <2>1, <3>2, <3>3, <3>4 DEF HoldsSafely
  <2>2. CASE v # t
    <3>1. /\ frag'[v] = frag[v] /\ targetf'[v] = targetf[v] /\ errand'[v] = errand[v]
          /\ pc'[v] = pc[v]
      BY <1>0, <1>1, <1>2, <2>2 DEF TypeOK, DeletionTypeOK, Forget
    <3> QED
      BY <1>0, <1>5, <3>1 DEF HoldsSafely
  <2> QED
    BY <2>1, <2>2
<1> QED
  BY <1>4, <1>5, <1>6 DEF HoldingOK

LEMMA HoldingUnlink ==
  ASSUME DeletionIInv, TypeOK', NEW t \in Thread, NEW fs \in SUBSET linked,
         UnlinkSharedDeletion(t, fs)
  PROVE  HoldingOK'
<1>0. DeletionTypeOK /\ ListsOK /\ TypeOK /\ \A v \in Thread : HoldsSafely(v)
  BY DEF DeletionIInv, HoldingOK, IInv
<1>1. /\ pc[t] = "stage1" /\ pc' = [pc EXCEPT ![t] = "stage3"]
      /\ flushtime_global' = flushtime_global + 1
      /\ linked' = linked \ fs
      /\ UNCHANGED <<frag, targetf, errand, lazy_delete_list, move_pending,
                     flushtime_last_update>>
  BY DEF UnlinkSharedDeletion, UnlinkShared, Goto, flush
<1>2. Listed' = Listed /\ Listed # {}
  BY <1>0, <1>1 DEF TypeOK, Listed
<1>3. /\ ListsOK' /\ shared_delete' \in Seq(PendingDelete)
      /\ \A v \in Thread : \A f : Safe(v, f) => Safe(v, f)'
  <2>1. CASE fs = {}
    <3>1. UNCHANGED <<linked, lists>>
      BY <1>1, <2>1 DEF UnlinkSharedDeletion, lists
    <3>2. shared_delete' \in Seq(PendingDelete)
      BY <1>0, <3>1 DEF DeletionTypeOK, lists
    <3> QED
      BY <1>0, <1>1, <1>2, <3>1, <3>2, ListsTick
  <2>2. CASE fs # {}
    <3>1. AddToPendingList(fs, Cardinality(Listed), flushtime_global + 1)
      BY <1>1, <2>2 DEF UnlinkSharedDeletion, AddToPendingList
    <3>2. Lazy' = Lazy /\ linked \cap Lazy = {}
      BY <1>0, <1>1 DEF Lazy, ListsOK, OnOneList
    <3> QED
      BY <1>0, <1>1, <1>2, <3>1, <3>2, ListsAdded
  <2> QED
    BY <2>1, <2>2
<1>4. DeletionTypeOK'
  BY <1>0, <1>1, <1>3 DEF DeletionTypeOK
<1>5. ASSUME NEW v \in Thread PROVE HoldsSafely(v)'
  BY <1>0, <1>1, <1>3 DEF HoldsSafely, TypeOK, MayLink
<1> QED
  BY <1>3, <1>4, <1>5 DEF HoldingOK

LEMMA HoldingEndSynch ==
  ASSUME DeletionIInv, TypeOK', NEW t \in Thread, NEW u \in Thread,
         EndSynchDeletion(t, u)
  PROVE  HoldingOK'
<1>0. /\ DeletionTypeOK /\ ListsOK /\ TypeOK /\ \A v \in Thread : HoldsSafely(v)
      /\ AsleepInSyscall(u) /\ FlusherOK
  BY DEF DeletionIInv, HoldingOK, IInv, HandshakeInv
<1>1. /\ u \in Listed
      /\ UNCHANGED <<pc, linked, targetf, errand, move_pending, flushtime_global>>
  BY <1>0 DEF EndSynchDeletion, EndSynch, FlusherOK
<1>2. Listed' = Listed
  BY <1>1 DEF Listed
<1>3. CASE ~ at_syscall_at_flush[u]
  <2>1. UNCHANGED <<frag, lists, flushtime_last_update>>
    BY <1>1, <1>3 DEF EndSynchDeletion, lists
  <2>2. ListsOK' /\ \A v \in Thread : \A f : Safe(v, f) => Safe(v, f)'
    BY <1>0, <1>1, <1>2, <2>1, ListsKept
  <2>3. DeletionTypeOK'
    BY <1>0, <1>1, <2>1 DEF DeletionTypeOK, lists
  <2>4. \A v \in Thread : HoldsSafely(v)'
    BY <1>0, <1>1, <2>1, <2>2 DEF HoldsSafely
  <2> QED
    BY <2>2, <2>3, <2>4 DEF HoldingOK
<1>4. CASE at_syscall_at_flush[u]
  <2>1. CheckSharedPending(u)
    BY <1>4 DEF EndSynchDeletion
  <2>2. /\ ListsOK'
        /\ shared_delete' \in Seq(PendingDelete)
        /\ lazy_delete_list' \in Seq(LazyDelete)
        /\ \A v \in Listed \ {u} : \A f : Safe(v, f) => Safe(v, f)'
        /\ \A f \in linked : Safe(u, f)'
    BY <1>0, <1>1, <1>2, <2>1, ListsWalk
  <2>3. DeletionTypeOK'
    <3>1. flushtime_last_update' \in [Thread -> Nat]
      BY <1>0, <2>1 DEF CheckSharedPending, DeletionTypeOK, TypeOK
    <3>2. frag' \in [Thread -> Fragment \cup {NoFragment}]
      BY <1>0, <2>1 DEF CheckSharedPending, DeletionTypeOK, Forget
    <3> QED
      BY <1>0, <1>1, <2>2, <3>1, <3>2 DEF DeletionTypeOK
  <2>4. \A v \in Thread : Safe(v, NoFragment)'
    BY <2>3, NothingIsSafeNext
  <2>5. targetf[u] = NoFragment /\ (frag'[u] = NoFragment \/ frag'[u] \in linked)
    <3>1. /\ pc[u] \in {"syscall", "dead", "nolinking", "wait_all", "woken_all"}
          /\ pc[u] # "syscall" => frag[u] = NoFragment
      BY <1>0, <1>4 DEF AsleepInSyscall
    <3>2. targetf[u] = NoFragment
      BY <1>0, <3>1 DEF HoldsSafely, MayLink
    <3>3. IF pc[u] = "syscall" /\ frag[u] \notin linked
            THEN frag'[u] = NoFragment ELSE frag'[u] = frag[u]
      BY <1>0, <2>1 DEF CheckSharedPending, Forget, DeletionTypeOK
    <3> QED
      BY <3>1, <3>2, <3>3
  <2>6. ASSUME NEW v \in Thread PROVE HoldsSafely(v)'
    <3>1. CASE v = u
      BY <1>1, <2>2, <2>4, <2>5, <3>1 DEF HoldsSafely, Listed
    <3>2. CASE v # u
      <4>1. frag'[v] = frag[v]
        BY <1>0, <2>1, <3>2 DEF CheckSharedPending, Forget, DeletionTypeOK
      <4>2. v \notin Listed => frag[v] = NoFragment /\ targetf[v] = NoFragment
        BY <1>0 DEF HoldsSafely, Listed, MayLink
      <4>3. Safe(v, frag[v])' /\ Safe(v, targetf[v])'
        BY <1>0, <1>1, <2>2, <2>4, <3>2, <4>1, <4>2 DEF HoldsSafely
      <4> QED
        BY <1>0, <1>1, <4>1, <4>3 DEF HoldsSafely
    <3> QED
      BY <3>1, <3>2
  <2> QED
    BY <2>2, <2>3, <2>6 DEF HoldingOK
<1> QED
  BY <1>3, <1>4

LEMMA HoldingOther ==
  ASSUME DeletionIInv, TypeOK', NEW t \in Thread, OtherDeletion(t)
  PROVE  HoldingOK'
<1>0. DeletionTypeOK /\ ListsOK /\ TypeOK /\ \A v \in Thread : HoldsSafely(v)
  BY DEF DeletionIInv, HoldingOK, IInv
<1>1. /\ UNCHANGED <<linked, frag, targetf, errand, lists, flushtime_last_update>>
      /\ UNCHANGED flushtime_global
  BY DEF OtherDeletion, deletion, StartFlush, WakeAllUnlink, SignalFlusher,
         WakeWithUnlink, WakeUnlink, SynchedThread, FinishFlush, OtherThreadExit,
         SynchThread, WaitForThread, flush
<1>2. \A v \in Thread : /\ pc'[v] = "unborn" <=> pc[v] = "unborn"
                        /\ pc[v] \in MayLink => pc'[v] \in MayLink
  BY <1>0 DEF OtherDeletion, StartFlush, WakeAllUnlink, SignalFlusher,
         WakeWithUnlink, WakeUnlink, SynchedThread, FinishFlush, OtherThreadExit,
         SynchThread, WaitForThread, Stage1Body, Goto, TypeOK, MayLink
<1>3. Listed' = Listed
  BY <1>2 DEF Listed
<1>4. ListsOK' /\ \A v \in Thread : \A f : Safe(v, f) => Safe(v, f)'
  BY <1>0, <1>1, <1>3, ListsKept
<1>5. DeletionTypeOK'
  BY <1>0, <1>1 DEF DeletionTypeOK, lists
<1>6. \A v \in Thread : HoldsSafely(v)'
  BY <1>0, <1>1, <1>2, <1>4 DEF HoldsSafely
<1> QED
  BY <1>4, <1>5, <1>6 DEF HoldingOK

LEMMA HoldingMove ==
  ASSUME DeletionIInv, TypeOK', NEW t \in Thread, MoveLazyList(t)
  PROVE  HoldingOK'
<1>0. DeletionTypeOK /\ ListsOK /\ TypeOK /\ \A v \in Thread : HoldsSafely(v)
  BY DEF DeletionIInv, HoldingOK, IInv
<1>1. /\ pc[t] = "nolinking" /\ errand[t] = "move"
      /\ flushtime_global' = flushtime_global + 1
      /\ AddToPendingList(Lazy, Cardinality(Listed), flushtime_global + 1)
      /\ lazy_delete_list' = << >>
      /\ move_pending' = FALSE
      /\ errand' = [errand EXCEPT ![t] = "return"]
      /\ UNCHANGED <<pc, linked, frag, targetf, flushtime_last_update>>
  BY DEF MoveLazyList
<1>2. Listed' = Listed /\ Listed # {}
  BY <1>1 DEF Listed
<1>3. Lazy' = {} /\ linked \cap Lazy = {}
  BY <1>0, <1>1 DEF Lazy, ListsOK, OnOneList
<1>4. /\ ListsOK' /\ shared_delete' \in Seq(PendingDelete)
      /\ \A v \in Thread : \A f : Safe(v, f) => Safe(v, f)'
  BY <1>0, <1>1, <1>2, <1>3, ListsAdded
<1>5. DeletionTypeOK'
  <2>1. << >> \in Seq(LazyDelete)
    OBVIOUS
  <2> QED
    BY <1>0, <1>1, <1>4, <2>1 DEF DeletionTypeOK
<1>6. targetf[t] = NoFragment
  BY <1>0, <1>1 DEF HoldsSafely
<1>7. \A v \in Thread : HoldsSafely(v)'
  BY <1>0, <1>1, <1>4, <1>6 DEF HoldsSafely, DeletionTypeOK
<1> QED
  BY <1>4, <1>5, <1>7 DEF HoldingOK

LEMMA HoldingRun ==
  ASSUME DeletionIInv, TypeOK', NEW t \in Thread, NEW f \in Fragment,
         FollowLink(t, f) \/ Dispatch(t, f) \/ RemoveSharedNoFlush(t, f)
  PROVE  HoldingOK'
<1>0. DeletionTypeOK /\ ListsOK /\ TypeOK /\ \A v \in Thread : HoldsSafely(v)
  BY DEF DeletionIInv, HoldingOK, IInv
<1>1. CASE FollowLink(t, f)
  <2>1. /\ pc[t] = "nolinking" /\ f \in linked
        /\ frag' = [frag EXCEPT ![t] = f]
        /\ UNCHANGED <<pc, linked, targetf, errand, lists, flushtime_last_update,
                       flushtime_global>>
    BY <1>1 DEF FollowLink, vars, flush
  <2>2. Listed' = Listed
    BY <2>1 DEF Listed
  <2>3. ListsOK' /\ \A v \in Thread : \A g : Safe(v, g) => Safe(v, g)'
    BY <1>0, <2>1, <2>2, ListsKept
  <2>4. DeletionTypeOK'
    BY <1>0, <2>1 DEF DeletionTypeOK, lists
  <2>5. Safe(t, f)'
    BY <1>0, <2>1, <2>3, LinkedIsSafe
  <2>6. \A v \in Thread : HoldsSafely(v)'
    BY <1>0, <2>1, <2>3, <2>5 DEF HoldsSafely, DeletionTypeOK
  <2> QED
    BY <2>3, <2>4, <2>6 DEF HoldingOK
<1>2. CASE Dispatch(t, f)
  <2>1. /\ pc[t] = "linking" /\ errand[t] = "none" /\ f \in linked \cup Freed
        /\ linked' = linked \cup {f}
        /\ targetf' = [targetf EXCEPT ![t] = f]
        /\ UNCHANGED <<pc, frag, errand, lists, flushtime_last_update, flushtime_global>>
    BY <1>2 DEF Dispatch, vars, flush
  <2>2. Listed' = Listed
    BY <2>1 DEF Listed
  <2>3. /\ ListsOK' /\ \A v \in Thread : \A g : Safe(v, g) => Safe(v, g)'
        /\ \A v \in Thread : Safe(v, f)'
    BY <1>0, <2>1, <2>2, ListsDispatch
  <2>4. DeletionTypeOK'
    BY <1>0, <2>1 DEF DeletionTypeOK, lists
  <2>5. \A v \in Thread : HoldsSafely(v)'
    BY <1>0, <2>1, <2>3 DEF HoldsSafely, DeletionTypeOK, MayLink
  <2> QED
    BY <2>3, <2>4, <2>5 DEF HoldingOK
<1>3. CASE RemoveSharedNoFlush(t, f)
  <2>1. /\ pc[t] = "linking" /\ f \in linked /\ linked' = linked \ {f}
        /\ lazy_delete_list' = Append(lazy_delete_list,
                                      [frag |-> f, flushtime |-> flushtime_global + 1])
        /\ move_pending' \in BOOLEAN
        /\ errand' \in [Thread -> {"none", "move", "return"}]
        /\ \A v \in Thread \ {t} : errand'[v] = errand[v]
        /\ Forget(targetf, t)
        /\ UNCHANGED <<pc, frag, shared_delete, flushtime_last_update, flushtime_global>>
    BY <1>0, <1>3 DEF RemoveSharedNoFlush, vars, flush, DeletionTypeOK
  <2>2. Listed' = Listed
    BY <2>1 DEF Listed
  <2>3. /\ ListsOK' /\ lazy_delete_list' \in Seq(LazyDelete)
        /\ \A v \in Thread : \A g : Safe(v, g) => Safe(v, g)'
    BY <1>0, <2>1, <2>2, ListsRemove
  <2>4. DeletionTypeOK'
    <3>1. targetf' \in [Thread -> Fragment \cup {NoFragment}]
      BY <1>0, <2>1 DEF DeletionTypeOK, Forget
    <3> QED
      BY <1>0, <2>1, <2>3, <3>1 DEF DeletionTypeOK
  <2>5. \A v \in Thread : targetf'[v] = IF v = t THEN NoFragment ELSE targetf[v]
    BY <1>0, <2>1 DEF DeletionTypeOK, Forget
  <2>6. \A v \in Thread : Safe(v, NoFragment)'
    BY <2>4, NothingIsSafeNext
  <2>7. ASSUME NEW v \in Thread PROVE HoldsSafely(v)'
    BY <1>0, <2>1, <2>3, <2>5, <2>6 DEF HoldsSafely
  <2> QED
    BY <2>3, <2>4, <2>7 DEF HoldingOK
<1> QED
  BY <1>1, <1>2, <1>3

(* Every step keeps the lists exact and what the threads hold safe. *)
LEMMA DeletionNextIInv == DeletionIInv /\ [DeletionNext]_allVars => DeletionIInv'
<1> SUFFICES ASSUME DeletionIInv, [DeletionNext]_allVars PROVE DeletionIInv'
  OBVIOUS
<1>1. IInv'
  BY HandshakeKept
<1>2. \A v \in Thread : AsleepInSyscall(v)'
  BY AsleepStep
<1>3. TypeOK'
  BY <1>1 DEF IInv
<1>4. HoldingOK'
  <2>1. CASE UNCHANGED allVars
    <3>1. /\ DeletionTypeOK /\ ListsOK /\ \A v \in Thread : HoldsSafely(v)
      BY DEF DeletionIInv, HoldingOK
    <3>2. UNCHANGED <<pc, linked, frag, targetf, errand, lists, flushtime_last_update,
                      flushtime_global>>
      BY <2>1 DEF allVars, vars, flush, deletion
    <3>3. Listed' = Listed
      BY <3>2 DEF Listed
    <3>4. ListsOK' /\ \A v \in Thread : \A f : Safe(v, f) => Safe(v, f)'
      BY <3>1, <3>2, <3>3, ListsKept
    <3>5. DeletionTypeOK'
      BY <1>3, <3>1, <3>2 DEF DeletionTypeOK, lists
    <3>6. \A v \in Thread : HoldsSafely(v)'
      BY <3>1, <3>2, <3>4 DEF HoldsSafely
    <3> QED
      BY <3>4, <3>5, <3>6 DEF HoldingOK
  <2>2. CASE DeletionNext
    <3>1. PICK t \in Thread :
            \/ ThreadInitDeletion(t)
            \/ SyscallDeletion(t)
            \/ CouldBeLinkingDeletion(t)
            \/ NoLinkingDeletion(t)
            \/ \E fs \in SUBSET linked : UnlinkSharedDeletion(t, fs)
            \/ \E u \in Thread : EndSynchDeletion(t, u)
            \/ OtherDeletion(t)
            \/ MoveLazyList(t)
            \/ \E f \in Fragment : \/ FollowLink(t, f)
                                   \/ Dispatch(t, f)
                                   \/ RemoveSharedNoFlush(t, f)
      BY <2>2 DEF DeletionNext
    <3> QED
      BY <1>3, <3>1, HoldingThreadInit, HoldingSyscall, HoldingCouldBeLinking,
         HoldingNoLinking, HoldingUnlink, HoldingEndSynch, HoldingOther,
         HoldingMove, HoldingRun
  <2> QED
    BY <2>1, <2>2
<1> QED
  BY <1>1, <1>2, <1>4 DEF DeletionIInv

(* The counts, the times and what threads hold agree in every reachable    *)
(* state.                                                                  *)
THEOREM DeletionInvariance == DeletionSpec => []DeletionIInv
<1>1. DeletionInit => DeletionIInv
  BY DeletionInitIInv
<1>2. DeletionIInv /\ [DeletionNext]_allVars => DeletionIInv'
  BY DeletionNextIInv
<1> QED
  BY <1>1, <1>2, PTL DEF DeletionSpec

(* NoUseAfterFree: what vm_area_check_shared_pending and                   *)
(* check_lazy_deletion_list free, no thread runs or is about to enter.     *)
THEOREM FreedWhenUnused == DeletionSpec => []NoUseAfterFree
<1>1. DeletionIInv => NoUseAfterFree
  BY DEF DeletionIInv, HoldingOK, HoldsSafely, Safe, NoUseAfterFree
<1> QED
  BY <1>1, DeletionInvariance, PTL

(* RefCountExact: ref_count is the number of threads whose                 *)
(* flushtime_last_update is before the entry's flushtime_deleted.          *)
THEOREM CountsAreExact == DeletionSpec => []RefCountExact
<1>1. DeletionIInv => RefCountExact
  BY DEF DeletionIInv, HoldingOK, ListsOK
<1> QED
  BY <1>1, DeletionInvariance, PTL

(* ListsSorted: the early exits of both walks miss nothing. *)
THEOREM ListsAreSorted == DeletionSpec => []ListsSorted
<1>1. DeletionIInv => ListsSorted
  BY DEF DeletionIInv, HoldingOK, ListsOK
<1> QED
  BY <1>1, DeletionInvariance, PTL

(* OnOneList: no fragment waits to be freed twice, or while it is in the   *)
(* tables.                                                                 *)
THEOREM ListedOnce == DeletionSpec => []OnOneList
<1>1. DeletionIInv => OnOneList
  BY DEF DeletionIInv, HoldingOK, ListsOK
<1> QED
  BY <1>1, DeletionInvariance, PTL

(* Entries are freed oldest first: whichever listed thread walks the       *)
(* pending list next, what it would free is the end of the list.  (The     *)
(* comment in vm_area_check_shared_pending expects that a later entry can  *)
(* reach zero before an earlier one.)                                      *)
OldestFreedFirst ==
    \A u \in Listed : \A i \in ToFree(u) : \A j \in DOMAIN shared_delete :
       j > i => j \in ToFree(u)

THEOREM FreedOldestFirst == DeletionSpec => []OldestFreedFirst
<1>1. DeletionIInv => OldestFreedFirst
  <2> SUFFICES ASSUME DeletionIInv, NEW u \in Listed, NEW i \in ToFree(u),
                      NEW j \in DOMAIN shared_delete, j > i
               PROVE  j \in ToFree(u)
    BY DEF OldestFreedFirst
  <2>1. DeletionTypeOK /\ ListsSorted /\ RefCountExact
    BY DEF DeletionIInv, HoldingOK, ListsOK
  <2>2. i \in DOMAIN shared_delete
    BY <2>1, WalkIs DEF ToFree, Listed
  <2>3. PICK m \in 0 .. Len(shared_delete) :
           \A k \in DOMAIN shared_delete : k \in ToFree(u) <=> k > m
    BY <2>1, FreedFromTheEnd
  <2>4. i \in Nat /\ j \in Nat /\ m \in Nat
    BY <2>1, <2>2, <2>3, ListTypes
  <2>5. i > m
    BY <2>2, <2>3
  <2> QED
    BY <2>3, <2>4, <2>5
<1> QED
  BY <1>1, DeletionInvariance, PTL
=============================================================================
