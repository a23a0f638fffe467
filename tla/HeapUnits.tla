----------------------------- MODULE HeapUnits -----------------------------
(***************************************************************************)
(* The units of DynamoRIO's heap and the list of its own memory that is    *)
(* brought up to date from them (core/heap.c, core/vmareas.c).  The two    *)
(* need each other: the vector of areas lives on the heap, and the heap's  *)
(* units belong in the vector.  Hence a unit that comes or goes only marks *)
(* the vector stale, and whoever reads it next walks the units first; the  *)
(* walk may itself need a larger vector, and so a unit.                    *)
(*                                                                         *)
(* Unit is the memory outside the reserved region, a unit at each address: *)
(* units inside it are never in the vector.  heap_unit_lock is only taken  *)
(* by an owner of the areas' lock, so it is never waited for.  Adjacent    *)
(* areas are not merged here; normal units have one size, so the list of   *)
(* dead ones, kept small to large, is a stack.                             *)
(***************************************************************************)
EXTENDS Integers, FiniteSets, Sequences, SequencesExt

CONSTANTS
    Thread, NoThread,
    Unit, NoUnit,
    Needs,       \* what a larger vector may take: "room" in a unit that is
                 \* there, a new "unit" it shares, or one of its "own"
    DeadMax,     \* so many dead units are kept
    Slots,       \* of the first vector, and added to each larger one
    MaxLive,     \* bound: units the program asks for at a time
    MaxOthers    \* bound: areas of the vector that are not heap units

ASSUME ThreadAssumption == NoThread \notin Thread
ASSUME UnitAssumption == IsFiniteSet(Unit) /\ NoUnit \notin Unit
ASSUME NeedsAssumption == Needs \subseteq {"room", "unit", "own"} /\ Needs # {}
ASSUME BoundsAssumption ==
    DeadMax \in Nat /\ Slots \in Nat \ {0} /\ MaxLive \in Nat /\ MaxOthers \in Nat

VARIABLES
    heap,     \* the units, the vector and the flags that connect them
    writer,   \* holds dynamo_areas->lock to write
    readers,  \* hold it to read
    global,   \* owns global_alloc_lock
    pc,       \* where each thread is
    errand,   \* what it is there for
    at, list  \* the unit a walk is about to look at, and on which list

vars == <<heap, writer, readers, global, pc, errand, at, list>>

Normal == 1   \* a unit of at most max_heap_unit_size
Large == 2    \* a unit made for one allocation that is too big for those

\* Allocate a unit of a size, free a unit, or use the vector.
Errand == [alloc : {Normal, Large}] \union [free : Unit] \union [use : {"read", "add", "remove"}]
Read == [use |-> "read"]

Live(h) == Range(h.units)
Dead(h) == Range(h.dead)
Mapped(h) == {u \in Unit : h.size[u] # 0}
Full(h) == Cardinality(h.areas) + h.others = h.slots
First(s) == IF s = <<>> THEN NoUnit ELSE s[1]
Place(s, u) == CHOOSE i \in DOMAIN s : s[i] = u
Without(s, u) == RemoveAt(s, Place(s, u))

\* Types of the lists, the vector and both locks; the vector has a slot for
\* every area in it, and readers and a writer exclude each other.
TypeOK ==
    /\ heap \in [units : Seq(Unit), dead : Seq(Unit), size : [Unit -> 0 .. Large],
                 listed : SUBSET Unit, areas : SUBSET Unit, others : 0 .. MaxOthers,
                 slots : Nat, buf : Unit \union {NoUnit}, uptodate : BOOLEAN,
                 pending : BOOLEAN,
                 ended : {"no", "out_of_memory", "fault"}]
    /\ Cardinality(heap.areas) + heap.others <= heap.slots
    /\ writer \in Thread \union {NoThread}
    /\ readers \subseteq Thread
    /\ writer # NoThread => readers = {}
    /\ global \in Thread \union {NoThread}
    /\ pc \in [Thread -> {"out", "tried", "want_areas", "want_global", "reading",
                          "query", "stale", "update", "walk", "reread"}]
    /\ errand \in [Thread -> Errand]
    /\ at \in Unit \union {NoUnit}
    /\ list \in {"live", "dead"}

Init ==
    /\ heap = [units |-> <<>>, dead |-> <<>>, size |-> [u \in Unit |-> 0],
               listed |-> {}, areas |-> {}, others |-> 0, slots |-> Slots,
               buf |-> NoUnit, uptodate |-> TRUE, pending |-> FALSE,
               ended |-> "no"]
    /\ writer = NoThread /\ readers = {} /\ global = NoThread
    /\ pc = [t \in Thread |-> "out"]
    /\ errand = [t \in Thread |-> Read]
    /\ at = NoUnit /\ list = "live"

-----------------------------------------------------------------------------
(* Units.  These hold the areas' lock, so each is one step with its caller. *)

\* really_free_unit: the vector still names the unit until the next walk.
ReallyFreed(h, gone) ==
    IF gone = {} THEN h
    ELSE [h EXCEPT !.size = [u \in Unit |-> IF u \in gone THEN 0 ELSE @[u]],
                   !.uptodate = FALSE, !.pending = TRUE]

\* heap_low_on_memory: give the dead units back.
LowOnMemory(h) == [ReallyFreed(h, Dead(h)) EXCEPT !.dead = <<>>]

\* get_guarded_real_memory: some address, after freeing what is dead if
\* there is none; if there still is none the process ends.
Fresh(h, n) ==
    LET g == IF Mapped(h) = Unit THEN LowOnMemory(h) ELSE h
    IN  IF Mapped(g) = Unit THEN {[g EXCEPT !.ended = "out_of_memory"]}
        ELSE {[g EXCEPT !.units = <<u>> \o @, !.size[u] = n, !.listed = @ \ {u},
                        !.uptodate = FALSE] : u \in Unit \ Mapped(g)}

\* heap_create_unit: the first dead unit that is large enough, or a new one.
\* A dead unit that comes back does not make the vector stale.
CreateUnit(h, n) ==
    LET fits == {i \in DOMAIN h.dead : h.size[h.dead[i]] >= n}
    IN  IF fits = {} THEN Fresh(h, n)
        ELSE LET i == CHOOSE i \in fits : \A j \in fits : i <= j
             IN  {[h EXCEPT !.units = <<h.dead[i]>> \o @, !.dead = RemoveAt(@, i)]}

\* Keeps the unit it gives back on the list of live ones.
FreeUnitLinked(h, u) ==
    IF h.size[u] = Normal /\ Len(h.dead) < DeadMax
    THEN [h EXCEPT !.dead = <<u>> \o @, !.units = Without(@, u)]
    ELSE ReallyFreed(h, {u})

\* heap_free_unit: a normal unit is kept, up to a number of them.
FreeUnit(h, u) ==
    LET g == [h EXCEPT !.units = Without(@, u)]
    IN  IF h.size[u] = Normal /\ Len(h.dead) < DeadMax
        THEN [g EXCEPT !.dead = <<u>> \o @]
        ELSE ReallyFreed(g, {u})

\* vm_area_vector_check_size through global_heap_realloc: the new buffer
\* first, then the old one goes, with its unit if that was its own.
Grown(h) ==
    IF ~Full(h) THEN {h}
    ELSE LET larger == [h EXCEPT !.slots = @ + Slots]
             Own == {[g EXCEPT !.buf = First(g.units)] : g \in CreateUnit(larger, Large)}
         IN  IF h.buf # NoUnit
             THEN {IF g.ended = "no" THEN FreeUnit(g, h.buf) ELSE g : g \in Own}
             ELSE UNION {CASE n = "room" -> {larger}
                           [] n = "unit" -> CreateUnit(larger, Normal)
                           [] n = "own"  -> Own : n \in Needs}

-----------------------------------------------------------------------------
(* Allocation and free: from a thread's own units, or from the global ones. *)

Go(t, p) == pc' = [pc EXCEPT ![t] = p]
Free == writer = NoThread /\ readers = {}       \* dynamo_areas->lock

\* What the program can free: a unit other than the vector's, that nobody is
\* already freeing.
Freeable == {u \in Live(heap) \ {heap.buf} : \A t \in Thread : errand[t] # [free |-> u]}

\* heap_alloc and heap_free when a unit is taken or given back, and the end
\* of a thread: no global_alloc_lock, the areas' lock for as long as it takes.
PrivateUnit(t) ==
    /\ pc[t] = "out" /\ Free
    /\ \/ /\ Cardinality(Freeable) < MaxLive
          /\ \E n \in {Normal, Large} : heap' \in CreateUnit(heap, n)
       \/ \E u \in Freeable : heap' = FreeUnit(heap, u)
    /\ UNCHANGED <<writer, readers, global, pc, errand, at, list>>

\* common_global_heap_alloc and common_global_heap_free take
\* global_alloc_lock and find that a unit must come or go.
GlobalTry(t) ==
    /\ pc[t] = "out" /\ global = NoThread
    /\ \/ /\ Cardinality(Freeable) < MaxLive
          /\ \E n \in {Normal, Large} : errand' = [errand EXCEPT ![t] = [alloc |-> n]]
       \/ \E u \in Freeable :
             /\ heap.size[u] = Large
             /\ errand' = [errand EXCEPT ![t] = [free |-> u]]
    /\ global' = t
    /\ Go(t, "tried")
    /\ UNCHANGED <<heap, writer, readers, at, list>>

\* They may not wait for the areas' lock with the global one: they back out.
BackOut(t) ==
    /\ pc[t] = "tried"
    /\ global' = NoThread
    /\ Go(t, "want_areas")
    /\ UNCHANGED <<heap, writer, readers, errand, at, list>>

LockAreas(t) ==
    /\ pc[t] = "want_areas" /\ Free
    /\ writer' = t
    /\ Go(t, "want_global")
    /\ UNCHANGED <<heap, readers, global, errand, at, list>>

\* With both locks the second try succeeds.  An allocation may have become
\* possible without a new unit.
GlobalRetry(t) ==
    /\ pc[t] = "want_global" /\ global \in {NoThread, t}
    /\ \/ \E n \in {Normal, Large} :
             /\ errand[t] = [alloc |-> n]
             /\ heap' \in CreateUnit(heap, n) \union {heap}
       \/ \E u \in Unit : errand[t] = [free |-> u] /\ heap' = FreeUnit(heap, u)
    /\ errand' = [errand EXCEPT ![t] = Read]
    /\ global' = NoThread /\ writer' = NoThread
    /\ Go(t, "out")
    /\ UNCHANGED <<readers, at, list>>

-----------------------------------------------------------------------------
(* Reading the vector, and changing it for memory that is not heap units.   *)

\* dynamo_vm_areas_start_reading
ReadLock(t) ==
    /\ pc[t] \in {"out", "reread"} /\ writer = NoThread
    /\ readers' = readers \union {t}
    /\ Go(t, "reading")
    /\ UNCHANGED <<heap, writer, global, errand, at, list>>

ReadUpToDate(t) ==
    /\ pc[t] = "reading" /\ heap.uptodate
    /\ Go(t, "query")
    /\ UNCHANGED <<heap, writer, readers, global, errand, at, list>>

ReadStale(t) ==
    /\ pc[t] = "reading" /\ ~heap.uptodate
    /\ readers' = readers \ {t}
    /\ Go(t, "stale")
    /\ UNCHANGED <<heap, writer, global, errand, at, list>>

\* dynamo_vm_areas_done_reading, with the answer
DoneReading(t) ==
    /\ pc[t] = "query"
    /\ readers' = readers \ {t}
    /\ Go(t, "out")
    /\ UNCHANGED <<heap, writer, global, errand, at, list>>

WriteLock(t) ==
    /\ \/ pc[t] = "stale" /\ UNCHANGED errand
       \/ /\ pc[t] = "out"
          /\ \/ heap.others < MaxOthers /\ errand' = [errand EXCEPT ![t] = [use |-> "add"]]
             \/ heap.others > 0 /\ errand' = [errand EXCEPT ![t] = [use |-> "remove"]]
    /\ Free
    /\ writer' = t
    /\ Go(t, "update")
    /\ UNCHANGED <<heap, readers, global, at, list>>

\* Leaves the units marked.
AllRemovedStillMarked(h) == [h EXCEPT !.pending = FALSE, !.areas = {}]

\* remove_dynamo_heap_areas, and no unit is marked as in the vector.
AllRemoved(h) == [h EXCEPT !.pending = FALSE, !.areas = {}, !.listed = {}]

\* Walks without noting that what the walk finds is up to date.
StartWalkStale(t) ==
    /\ pc[t] = "update" /\ ~heap.uptodate /\ global = NoThread
    /\ heap' = IF heap.pending THEN AllRemoved(heap) ELSE heap
    /\ global' = t
    /\ at' = First(heap.units) /\ list' = "live"
    /\ Go(t, "walk")
    /\ UNCHANGED <<writer, readers, errand>>

\* update_dynamo_vm_areas: up to date from here on, unless the walk itself
\* makes the vector stale.  heap_vmareas_synch_units begins with the live.
StartWalk(t) ==
    /\ pc[t] = "update" /\ ~heap.uptodate /\ global = NoThread
    /\ LET h == [heap EXCEPT !.uptodate = TRUE]
       IN  heap' = IF h.pending THEN AllRemoved(h) ELSE h
    /\ global' = t
    /\ at' = First(heap.units) /\ list' = "live"
    /\ Go(t, "walk")
    /\ UNCHANGED <<writer, readers, errand>>

\* The next unit on the list u is on now; u itself if its memory is gone.
NextOf(h, u) ==
    LET After(s) == IF Place(s, u) = Len(s) THEN NoUnit ELSE s[Place(s, u) + 1]
    IN  IF u \in Live(h) THEN After(h.units)
        ELSE IF u \in Dead(h) THEN After(h.dead) ELSE u

\* Keeps the next unit it saw before the resize.
WalkUnitKeepNext(t) ==
    /\ pc[t] = "walk" /\ at # NoUnit /\ heap.size[at] # 0
    /\ at' = NextOf(heap, at)
    /\ IF at \in heap.listed THEN UNCHANGED heap
       ELSE \E h \in Grown([heap EXCEPT !.listed = @ \union {at}]) :
              heap' = [h EXCEPT !.areas = @ \union {at}]
    /\ UNCHANGED <<writer, readers, global, pc, errand, list>>

\* A unit that is not in the vector is marked and added, whatever becomes of
\* it in a resize.  If the next one was, or now is, the vector's own unit, it
\* may have changed lists, and is read again.
WalkUnit(t) ==
    /\ pc[t] = "walk" /\ at # NoUnit /\ heap.size[at] # 0
    /\ LET next == NextOf(heap, at)
           Moved(h) == next # NoUnit /\ next = IF list = "live" THEN heap.buf ELSE h.buf
       IN  IF at \in heap.listed
           THEN at' = next /\ UNCHANGED heap
           ELSE \E h \in Grown([heap EXCEPT !.listed = @ \union {at}]) :
                  /\ heap' = [h EXCEPT !.areas = @ \union {at}]
                  /\ at' = IF Moved(h) THEN NextOf(h, at) ELSE next
    /\ UNCHANGED <<writer, readers, global, pc, errand, list>>

\* The walk reads a unit that has been given back.
WalkFault(t) ==
    /\ pc[t] = "walk" /\ at # NoUnit /\ heap.size[at] = 0
    /\ heap' = [heap EXCEPT !.ended = "fault"]
    /\ UNCHANGED <<writer, readers, global, pc, errand, at, list>>

WalkDead(t) ==
    /\ pc[t] = "walk" /\ at = NoUnit /\ list = "live"
    /\ at' = First(heap.dead) /\ list' = "dead"
    /\ UNCHANGED <<heap, writer, readers, global, pc, errand>>

\* The end of the walk: update_dynamo_vm_areas looks again.
EndWalk(t) ==
    /\ pc[t] = "walk" /\ at = NoUnit /\ list = "dead"
    /\ global' = NoThread /\ list' = "live"
    /\ Go(t, "update")
    /\ UNCHANGED <<heap, writer, readers, errand, at>>

\* Up to date: a reader tries again; add_dynamo_vm_area and
\* remove_dynamo_vm_area make their change, the first in a vector that may
\* have to grow.
Updated(t) ==
    /\ pc[t] = "update" /\ heap.uptodate
    /\ \/ errand[t].use = "read" /\ Go(t, "reread") /\ UNCHANGED heap
       \/ /\ errand[t].use = "add"
          /\ Full(heap) => global = NoThread
          /\ \E h \in Grown(heap) : heap' = [h EXCEPT !.others = @ + 1]
          /\ Go(t, "out")
       \/ /\ errand[t].use = "remove"
          /\ heap' = [heap EXCEPT !.others = @ - 1]
          /\ Go(t, "out")
    /\ errand' = [errand EXCEPT ![t] = Read]
    /\ writer' = NoThread
    /\ UNCHANGED <<readers, global, at, list>>

-----------------------------------------------------------------------------
\* The process has ended: nothing happens any more.
Ended == heap.ended # "no" /\ UNCHANGED vars

\* What a thread does once it has begun.
Proceed(t) ==
    /\ heap.ended = "no"
    /\ \/ BackOut(t) \/ LockAreas(t) \/ GlobalRetry(t)
       \/ ReadUpToDate(t) \/ ReadStale(t) \/ DoneReading(t)
       \/ pc[t] = "stale" /\ WriteLock(t)
       \/ pc[t] = "reread" /\ ReadLock(t)
       \/ StartWalk(t) \/ WalkUnit(t) \/ WalkFault(t) \/ WalkDead(t) \/ EndWalk(t)
       \/ Updated(t)

Begin(t) ==
    /\ heap.ended = "no"
    /\ \/ PrivateUnit(t) \/ GlobalTry(t)
       \/ pc[t] = "out" /\ (ReadLock(t) \/ WriteLock(t))

Next == Ended \/ \E t \in Thread : Proceed(t) \/ Begin(t)

Spec == Init /\ [][Next]_vars

\* A thread that can go on does.
FairSpec == Spec /\ \A t \in Thread : WF_vars(Proceed(t))

-----------------------------------------------------------------------------
\* Whoever asks whether an address is DynamoRIO's is answered from exactly
\* the units there are, live and dead (core/heap.c:2389, "ensuring the list is
\* up to date at the exact time of each query"): none that came since the last
\* walk is missing, and no memory that was given back is taken for its own.
QueriesExact ==
    \A t \in Thread : pc[t] = "query" => heap.areas = Live(heap) \union Dead(heap)

\* A walk stays on units that are there, although the vector it fills moves
\* units under it (case 4196 in core/heap.c:2445).  Only one thing can end it:
\* running out of memory among the dead ones, which are then all given back.
WalkSurvives == heap.ended = "fault" => list = "dead" /\ heap.dead = <<>>

\* Every unit's memory is on one list, once: none is lost when a unit moves
\* between the lists of live and dead ones, is given back or is reused.
UnitsListedOnce ==
    /\ Mapped(heap) = Live(heap) \union Dead(heap)
    /\ Cardinality(Mapped(heap)) = Len(heap.units) + Len(heap.dead)

\* Whoever has the areas' lock gives it back: neither the order of the two
\* locks (core/heap.c:2538, "circular dependence solution") nor the loop that
\* walks until nothing changes keeps it for ever.
AreasLockReturned ==
    writer # NoThread ~> writer = NoThread \/ heap.ended # "no"
=============================================================================
