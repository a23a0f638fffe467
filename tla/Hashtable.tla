----------------------------- MODULE Hashtable -----------------------------
(***************************************************************************)
(* The open-address hashtable of core/hashtablex.h, the template behind    *)
(* the tables of fragments, of future fragments, of indirect branch        *)
(* targets (IBL tables) and of application addresses.  Linear probing with *)
(* wraparound, deletion by Knuth's Algorithm R, growth by rehashing.  An   *)
(* IBL table is read by the code cache without a lock: an entry of another *)
(* thread's deletion is not removed from it but its tag is overwritten by  *)
(* FAKE_TAG, a marker that keeps the probe sequences intact and is reused  *)
(* (thread-private tables) or dropped by the next rehash.                  *)
(*                                                                         *)
(* One table and the operations made on it under its write lock.  Three    *)
(* kinds: "primary" (fragments and futures: no markers), "private" (the    *)
(* IBL table of a thread) and "shared" (one IBL table for all threads).    *)
(* Left out: unlinked_remove, behind two options that are off by default,  *)
(* the payload of an entry, the sentinel slot for the generated code, and  *)
(* the reference counts of the tables a resized shared table leaves behind.*)
(***************************************************************************)
EXTENDS Integers, FiniteSets

CONSTANTS WordBits,   \* width of a tag in bits (ptr_uint_t)
          Tag,        \* tags of the fragments there are
          InitBits,   \* hash_bits of a new table
          Load,       \* load_factor_percent
          Bound,      \* the ends of the address ranges that are removed
          Later,      \* the add_later counts of check_size calls
          Config      \* the kinds of table and option values to start from

\* 1 << n
Shifted[n \in Nat] == IF n = 0 THEN 1 ELSE 2 * Shifted[n - 1]

NULL_TAG == 0
FAKE_TAG == Shifted[WordBits] - 1
Kind == {"primary", "private", "shared"}

ASSUME TagAssumption == WordBits \in Nat \ {0} /\ Tag \subseteq 1 .. FAKE_TAG - 1
ASSUME InputAssumption == Bound \subseteq 0 .. FAKE_TAG /\ Later \subseteq Nat \ {0}

HASHTABLE_SIZE(bits) == Shifted[bits]

Threshold(bits, percent) == ((HASHTABLE_SIZE(bits) + 1) * percent) \div 100

(***************************************************************************)
(* The load factor leaves a slot free, and lets a new table take an entry: *)
(* hashtablex.h only asserts that it is between 0 and 100, which does not  *)
(* exclude a small table that can be full, or that each entry would resize.*)
(***************************************************************************)
ASSUME LoadAssumption ==
    /\ InitBits \in Nat \ {0} /\ Load \in 1 .. 99
    /\ Threshold(InitBits, Load) < HASHTABLE_SIZE(InitBits)
    /\ HASHTABLE_SIZE(InitBits) * Load >= 100

(***************************************************************************)
(* Only IBL tables have a maximal size or a groom factor; options.c        *)
(* disables grooming for shared tables.                                    *)
(***************************************************************************)
ASSUME ConfigAssumption ==
    /\ Config \subseteq [kind : Kind, max_capacity_bits : Nat, groom_factor : Nat]
    /\ \A c \in Config :
          /\ c.kind = "primary" => c.max_capacity_bits = 0 /\ c.groom_factor = 0
          /\ c.kind = "shared" => c.groom_factor = 0
          /\ c.max_capacity_bits = 0 \/ c.max_capacity_bits >= InitBits

VARIABLES config,   \* table_flags and options, fixed when the table is made
          htable    \* the table_t

vars == <<config, htable>>

Lockless == config.kind # "primary"
SharedLockless == config.kind = "shared"
AtMaxBits(h) == h.hash_bits = config.max_capacity_bits

Index(bits) == 0 .. HASHTABLE_SIZE(bits) - 1
Word == 0 .. FAKE_TAG
IsReal(e) == e \notin {NULL_TAG, FAKE_TAG}

Reals(slots) == {t \in Tag : \E i \in DOMAIN slots : slots[i] = t}
Markers(slots) == {i \in DOMAIN slots : slots[i] = FAKE_TAG}

(***************************************************************************)
(* The probe sequence: HASH_FUNC of an IBL table takes the low bits of the *)
(* tag, and the index wraps around before the sentinel.                    *)
(***************************************************************************)
HASH_FUNC(e, bits) == e % HASHTABLE_SIZE(bits)

ProbeIndex(e, k, bits) == (HASH_FUNC(e, bits) + k) % HASHTABLE_SIZE(bits)

\* The first slot of e's probe sequence whose content is in stop.  Callers
\* that probe a table without such a slot would never return.
Probe(slots, bits, e, stop) ==
    LET k == CHOOSE k \in Index(bits) :
                 /\ slots[ProbeIndex(e, k, bits)] \in stop
                 /\ \A j \in 0 .. k - 1 : slots[ProbeIndex(e, j, bits)] \notin stop
    IN  ProbeIndex(e, k, bits)

CanStop(slots, stop) == \E i \in DOMAIN slots : slots[i] \in stop

\* hashtable_lookup: the entry found at the end of the probe sequence of t
Lookup(slots, bits, t) ==
    IF CanStop(slots, {NULL_TAG, t})
    THEN slots[Probe(slots, bits, t, {NULL_TAG, t})]
    ELSE NULL_TAG

-----------------------------------------------------------------------------
(* A table just initialized.  init_internal computes groom_threshold from a
   groom_factor_percent of 0 (line 378) and calls init_internal_custom last, which
   for an IBL table sets that factor and max_capacity_bits from the options
   (fragment.c:730) but not the threshold. *)
EmptyTable(bits) ==
    [table |-> [i \in Index(bits) |-> NULL_TAG], hash_bits |-> bits,
     entries |-> 0, unlinked_entries |-> 0,
     groom_threshold |-> Threshold(bits, 0)]

(* Mutant of Store: a marker that is replaced stays counted. *)
StoreUncounted(h, t) ==
    LET stop == IF SharedLockless THEN {NULL_TAG} ELSE {NULL_TAG, FAKE_TAG}
    IN  [h EXCEPT !.table[Probe(h.table, h.hash_bits, t, stop)] = t]

(* The store at the end of hashtable_add: the first empty slot, or in a table
   that no other thread reads the first marker. *)
Store(h, t) ==
    LET stop == IF SharedLockless THEN {NULL_TAG} ELSE {NULL_TAG, FAKE_TAG}
        i    == Probe(h.table, h.hash_bits, t, stop)
    IN  [h EXCEPT !.table[i] = t,
                  !.unlinked_entries = IF h.table[i] = FAKE_TAG THEN @ - 1 ELSE @]

(* remove_helper_open_address: slot hole is emptied; every entry after it that
   would be lost behind the hole moves into it and leaves the next hole. *)
Lost(preferred, hole, i) ==
    \/ preferred <= hole /\ hole < i
    \/ i < preferred /\ preferred <= hole
    \/ hole < i /\ i < preferred

\* One turn of the loop, at slot i.
Advanced(a, i, bits) ==
    LET e == a.slots[i]
    IN  IF a.done \/ e = NULL_TAG
        THEN [a EXCEPT !.done = TRUE]
        ELSE IF Lost(HASH_FUNC(e, bits), a.hole, i)
        THEN [slots |-> [a.slots EXCEPT ![a.hole] = e, ![i] = NULL_TAG],
              hole |-> i, wrapped |-> a.wrapped \/ i < a.hole, done |-> FALSE]
        ELSE a

CloseHole(slots, bits, first) ==
    LET size == HASHTABLE_SIZE(bits)
        After[k \in Index(bits)] ==
            IF k = 0
            THEN [slots |-> [slots EXCEPT ![first] = NULL_TAG], hole |-> first,
                  wrapped |-> FALSE, done |-> FALSE]
            ELSE Advanced(After[k - 1], (first + k) % size, bits)
    IN  After[size - 1]

RemoveAt(h, i) == [h EXCEPT !.table = CloseHole(h.table, h.hash_bits, i).slots,
                            !.entries = @ - 1]

(* range_remove: from the last slot down, looking again at a slot whose entry
   was removed, and starting over when a chain was pulled across the end. *)
InRange(e, lo, hi) == e # NULL_TAG /\ e >= lo /\ e < hi

Walk(bits) == [slots : [Index(bits) -> Word], i : -1 .. HASHTABLE_SIZE(bits) - 1]

(* Mutant of Walked: the walk does not start over (case 10384). *)
WalkedOnePass(w, lo, hi, bits) ==
    IF InRange(w.slots[w.i], lo, hi)
    THEN [w EXCEPT !.slots = CloseHole(w.slots, bits, w.i).slots]
    ELSE [w EXCEPT !.i = @ - 1]

\* One turn of the loop, at slot w.i.
Walked(w, lo, hi, bits) ==
    IF InRange(w.slots[w.i], lo, hi)
    THEN LET c == CloseHole(w.slots, bits, w.i)
         IN  [slots |-> c.slots,
              i |-> IF c.wrapped THEN HASHTABLE_SIZE(bits) - 1 ELSE w.i]
    ELSE [w EXCEPT !.i = @ - 1]

Swept(slots, lo, hi, bits) ==
    LET Sweep[w \in Walk(bits)] ==
            IF w.i < 0 THEN w.slots ELSE Sweep[Walked(w, lo, hi, bits)]
    IN  Sweep[[slots |-> slots, i |-> HASHTABLE_SIZE(bits) - 1]]

RangeRemoved(h, lo, hi) ==
    LET swept == Swept(h.table, lo, hi, h.hash_bits)
        removed == Cardinality(Reals(h.table)) - Cardinality(Reals(swept))
    IN  [h EXCEPT !.table = swept, !.entries = @ - removed]

GroomTable(h) == [RangeRemoved(h, 0, FAKE_TAG) EXCEPT !.groom_threshold = 0]

(* groom_helper: the entry that is about to be added is already counted. *)
GroomHelper(h) ==
    LET g == GroomTable([h EXCEPT !.entries = @ - 1])
    IN  [g EXCEPT !.entries = @ + 1]

(* The first part of check_size: a table above its groom threshold is emptied,
   and n more entries are counted. *)
Entered(h, n) ==
    LET g == IF h.entries > h.groom_threshold /\ h.groom_threshold > 0
             THEN GroomTable(h) ELSE h
    IN  [g EXCEPT !.entries = @ + n]

(* check_size, resizing: how many bits the new table has (a table of 100 * wanted
   bits more has room), and the real entries of the old one added to it in the
   order of their slots.  Each is added by hashtable_add, which checks the size
   again; that this never resizes (line 1114) follows from LoadKept. *)
NewBits(h, wanted) ==
    IF Lockless /\ (h.entries <= Threshold(h.hash_bits, Load) \/ AtMaxBits(h))
    THEN h.hash_bits
    ELSE CHOOSE b \in h.hash_bits .. h.hash_bits + 100 * wanted :
            /\ wanted <= Threshold(b, Load) \/ b = config.max_capacity_bits
            /\ \A c \in h.hash_bits .. b - 1 :
                  wanted > Threshold(c, Load) /\ c # config.max_capacity_bits

Rehashed(h, bits) ==
    LET Added[i \in -1 .. HASHTABLE_SIZE(h.hash_bits) - 1] ==
            IF i < 0 THEN EmptyTable(bits)
            ELSE IF IsReal(h.table[i])
            THEN Store(Entered(Added[i - 1], 1), h.table[i])
            ELSE Added[i - 1]
    IN  Added[HASHTABLE_SIZE(h.hash_bits) - 1]

(* Mutant of Resized: a table that may not grow is rebuilt but not emptied. *)
ResizedUngroomed(h, wanted, add_now) ==
    LET r == Rehashed(h, NewBits(h, wanted))
    IN  [r EXCEPT !.entries = @ + add_now]

Resized(h, wanted, add_now) ==
    LET r == Rehashed(h, NewBits(h, wanted))
        n == [r EXCEPT !.entries = @ + add_now]
    IN  IF n.hash_bits = h.hash_bits /\ AtMaxBits(n) THEN GroomHelper(n) ELSE n

(* Mutant of CheckSize: only the real entries are held against the threshold. *)
CheckSizeOfReals(h, add_now, add_later) ==
    LET c == Entered(h, add_now + add_later)
    IN  IF c.entries <= Threshold(c.hash_bits, Load)
        THEN [c EXCEPT !.entries = @ - add_later]
        ELSE IF AtMaxBits(c) /\ ~SharedLockless THEN GroomHelper(c)
        ELSE Resized(c, c.entries, add_now)

(* hashtable_check_size *)
CheckSize(h, add_now, add_later) ==
    LET c == Entered(h, add_now + add_later)
        wanted == IF Lockless THEN c.entries + c.unlinked_entries ELSE c.entries
    IN  IF wanted <= Threshold(c.hash_bits, Load)
        THEN [c EXCEPT !.entries = @ - add_later]
        ELSE IF AtMaxBits(c) /\ ~SharedLockless THEN GroomHelper(c)
        ELSE Resized(c, wanted, add_now)

-----------------------------------------------------------------------------
Init == config \in Config /\ htable = EmptyTable(InitBits)

\* hashtable_add of an entry that the callers looked up first
Add(t) ==
    /\ Lookup(htable.table, htable.hash_bits, t) # t
    /\ htable' = Store(CheckSize(htable, 1, 0), t)
    /\ UNCHANGED config

\* hashtable_remove, by the owner or with all threads synchronized
Remove(t) ==
    /\ Lookup(htable.table, htable.hash_bits, t) = t
    /\ htable' = RemoveAt(htable, Probe(htable.table, htable.hash_bits, t, {t}))
    /\ UNCHANGED config

\* fragment_prepare_for_removal_from_table: an IBL entry becomes a marker
Unlink(t) ==
    /\ Lockless
    /\ Lookup(htable.table, htable.hash_bits, t) = t
    /\ LET i == Probe(htable.table, htable.hash_bits, t, {t})
       IN  htable' = [htable EXCEPT !.table[i] = FAKE_TAG,
                                    !.unlinked_entries = @ + 1,
                                    !.entries = @ - 1]
    /\ UNCHANGED config

\* fragment_remove_ibl_entries_in_region, fragment_delete_futures_in_region
RangeRemove(lo, hi) ==
    /\ lo < hi
    /\ htable.entries > 0
    /\ htable' = RangeRemoved(htable, lo, hi)
    /\ UNCHANGED config

\* coarse_persisted_fill_ibl_helper makes room for entries it will add
MakeRoom(n) ==
    /\ Lockless
    /\ htable' = CheckSize(htable, 0, n)
    /\ UNCHANGED config

Next == \/ \E t \in Tag : Add(t) \/ Remove(t) \/ Unlink(t)
        \/ \E lo, hi \in Bound : RangeRemove(lo, hi)
        \/ \E n \in Later : MakeRoom(n)

Spec == Init /\ [][Next]_vars

-----------------------------------------------------------------------------
(***************************************************************************)
(* The fields have the types hashtable.h gives them and the array has a    *)
(* slot for every value of the hash mask.                                  *)
(***************************************************************************)
TypeOK ==
    /\ config \in Config
    /\ htable.hash_bits \in Nat
    /\ htable.table \in [Index(htable.hash_bits) -> Tag \cup {NULL_TAG, FAKE_TAG}]
    /\ htable.entries \in Nat /\ htable.unlinked_entries \in Nat
    /\ htable.groom_threshold \in Nat

(***************************************************************************)
(* The two counters that decide when a table grows, is rebuilt or is       *)
(* emptied count the real entries and the markers in the array, through    *)
(* replaced markers, moved entries, rehashes and bulk removals: no tag is  *)
(* there twice (hashtablex.h add, remove_helper, check_size).              *)
(***************************************************************************)
CountsExact ==
    /\ htable.entries = Cardinality({i \in DOMAIN htable.table :
                                         IsReal(htable.table[i])})
    /\ htable.entries = Cardinality(Reals(htable.table))
    /\ htable.unlinked_entries = Cardinality(Markers(htable.table))

(***************************************************************************)
(* A lookup of a tag that is not in the table ends: an empty slot is left  *)
(* in a table that may grow, although markers fill slots that no counter   *)
(* of entries sees (hashtablex.h:715 loops until an empty slot).           *)
(***************************************************************************)
LookupsEnd == CanStop(htable.table, {NULL_TAG})

(***************************************************************************)
(* No table is ever loaded beyond its threshold, markers included: so the  *)
(* size checks that a rehash makes while it adds the entries of the old    *)
(* table to the new one, which is not smaller, "should never trigger       *)
(* another resize" (hashtablex.h:928), although a table that has grown to  *)
(* its maximal size may have been too small for what was asked of it.      *)
(***************************************************************************)
LoadKept == htable.entries + htable.unlinked_entries
                <= Threshold(htable.hash_bits, Load)

(***************************************************************************)
(* "Every time we resize a table we reset the flush threshold"             *)
(* (fragment.c:727): a groom factor takes effect in a table that has been  *)
(* resized.  It never does.                                                *)
(***************************************************************************)
GroomThresholdReset ==
    [][htable'.hash_bits # htable.hash_bits =>
          htable'.groom_threshold = Threshold(htable'.hash_bits, config.groom_factor)]_vars

(***************************************************************************)
(* Seen through lookups, every operation changes the set of tags exactly   *)
(* as its name says: deletion loses no entry behind a hole, a range removal*)
(* takes all and only the tags of its range although entries move across   *)
(* the end of the array while it walks, and a rehash keeps every entry.    *)
(* Only a table that has a maximal size is ever emptied on the way         *)
(* (hashtablex.h remove_helper_open_address, range_remove, check_size).    *)
(***************************************************************************)
Found == {t \in Tag : Lookup(htable.table, htable.hash_bits, t) = t}

Contents == INSTANCE TagSet WITH
    tags <- Found

Corresponds ==
    /\ \A t \in Tag :
          /\ Add(t) => \/ Contents!Add(t)
                       \/ config.max_capacity_bits # 0 /\ Contents!AddAfresh(t)
          /\ Remove(t) \/ Unlink(t) => Contents!Remove(t)
    /\ \A lo, hi \in Bound :
          RangeRemove(lo, hi) => Contents!RemoveRange(lo, hi)
    /\ \A n \in Later : MakeRoom(n) =>
          UNCHANGED Found \/ (config.max_capacity_bits # 0 /\ Contents!Forget)

ImplementsTagSet == Contents!Init /\ [][Corresponds]_vars
=============================================================================
