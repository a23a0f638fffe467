--------------------------- MODULE HeapUnitsProofs ---------------------------
(***************************************************************************)
(* What is proved about HeapUnits, for any set of addresses and of         *)
(* threads: no unit is lost or listed twice, the walk stays on units that  *)
(* are there and, when the vector never takes a unit that it shares, every *)
(* query is answered exactly.                                              *)
(***************************************************************************)
EXTENDS HeapUnits, TLAPS, FiniteSetTheorems, SequenceTheorems

(* The heap without its bounds. *)
HeapType == [units : Seq(Unit), dead : Seq(Unit), size : [Unit -> 0 .. Large],
             listed : SUBSET Unit, areas : SUBSET Unit, others : 0 .. MaxOthers,
             slots : Nat, buf : Unit \union {NoUnit}, uptodate : BOOLEAN,
             pending : BOOLEAN,
             ended : {"no", "out_of_memory", "fault"}]
Fits(h) == Cardinality(h.areas) + h.others <= h.slots

(* No unit is on a list twice, or on both; only normal ones are kept dead. *)
Once(s) == \A i, j \in DOMAIN s : s[i] = s[j] => i = j
ListsOK(h) ==
  /\ Once(h.units) /\ Once(h.dead)
  /\ Live(h) \cap Dead(h) = {}
  /\ Mapped(h) = Live(h) \union Dead(h)
  /\ \A u \in Dead(h) : h.size[u] = Normal

(* What the vector names, which is A, are the units that are marked, unless *)
(* one of them has gone.                                                    *)
Covered(h, A) ==
  /\ h.pending => ~h.uptodate
  /\ ~h.pending => A = h.listed \cap Mapped(h)
Sound(h, A) == h \in HeapType /\ ListsOK(h) /\ Covered(h, A)

(* The vector's own unit is a large one, made for it. *)
BufOK(h) ==
  h.ended = "no" /\ h.buf # NoUnit => h.buf \in Live(h) /\ h.size[h.buf] = Large

(* Who holds which lock is a matter of place. *)
LocksOK == \A t \in Thread :
  /\ pc[t] \in {"want_global", "update", "walk"} <=> writer = t
  /\ pc[t] \in {"reading", "query"} <=> t \in readers
  /\ pc[t] \in {"tried", "walk"} <=> global = t

(* A change of the vector is possible when its time comes. *)
ErrandOK(t) ==
  CASE pc[t] \in {"tried", "want_areas", "want_global"} ->
          errand[t] \in [alloc : {Normal, Large}] \union [free : Unit]
    [] pc[t] \in {"update", "walk"} ->
          /\ errand[t] \in [use : {"read", "add", "remove"}]
          /\ errand[t].use = "add" => heap.others < MaxOthers
          /\ errand[t].use = "remove" => heap.others > 0
    [] OTHER -> errand[t] = Read

(* A unit to be freed is freed once, and is not the vector's. *)
FreesOK ==
  heap.ended = "no" =>
    \A t \in Thread : \A u \in Unit :
       errand[t] = [free |-> u] =>
          /\ u \in Live(heap) \ {heap.buf}
          /\ \A v \in Thread \ {t} : errand[v] # [free |-> u]

(* While a thread reads, the vector is up to date. *)
QueryOK == \A t \in Thread : pc[t] = "query" => heap.uptodate

UnitIInv ==
  /\ TypeOK
  /\ Sound(heap, heap.areas)
  /\ BufOK(heap)
  /\ LocksOK
  /\ \A t \in Thread : ErrandOK(t)
  /\ FreesOK
  /\ QueryOK

(* What a walk has before it. *)
Onward(s, u) == IF u \in Range(s) THEN {s[j] : j \in Place(s, u) .. Len(s)} ELSE {}
Ahead == IF list = "live" THEN Onward(heap.units, at) \union Dead(heap)
         ELSE Onward(heap.dead, at)
Here == \/ at = NoUnit
        \/ list = "live" /\ at \in Live(heap)
        \/ list = "dead" /\ at \in Dead(heap)
Walking == \E t \in Thread : pc[t] = "walk"

(* A walk stays on its list, as long as that has not been given back whole. *)
(* If the vector takes no unit that it shares, a walk that has made nothing  *)
(* stale will meet every unit not marked yet, and after it all are marked.   *)
WalkOK ==
  /\ Walking /\ heap.ended = "no" => Here \/ (list = "dead" /\ heap.dead = <<>>)
  /\ WalkSurvives
  /\ "unit" \notin Needs =>
       /\ Walking /\ heap.uptodate => Here /\ Mapped(heap) \ heap.listed \subseteq Ahead
       /\ ~Walking /\ heap.uptodate => Mapped(heap) \subseteq heap.listed

-----------------------------------------------------------------------------
(* A list with a unit put in front of it. *)
LEMMA Prepended ==
  ASSUME NEW S, NEW s \in Seq(S), NEW u \in S
  PROVE  /\ <<u>> \o s \in Seq(S)
         /\ (<<u>> \o s)[1] = u /\ <<u>> \o s # <<>>
         /\ Range(<<u>> \o s) = {u} \union Range(s)
         /\ Once(s) /\ u \notin Range(s) => Once(<<u>> \o s)
<1> DEFINE r == <<u>> \o s
<1>1. <<u>> \in Seq(S) /\ Len(<<u>>) = 1 /\ <<u>>[1] = u
  OBVIOUS
<1>2. Len(s) \in Nat /\ DOMAIN s = 1 .. Len(s)
  OBVIOUS
<1>3. /\ r \in Seq(S)
      /\ Len(r) = 1 + Len(s)
      /\ \A i \in 1 .. 1 + Len(s) : r[i] = IF i <= 1 THEN <<u>>[i] ELSE s[i - 1]
  BY <1>1, ConcatProperties
<1>4. DOMAIN r = 1 .. Len(s) + 1 /\ r[1] = u /\ \A i \in 1 .. Len(s) : r[i + 1] = s[i]
  <2> HIDE DEF r
  <2>1. DOMAIN r = 1 .. Len(r)
    BY <1>3
  <2> QED
    BY <2>1, <1>1, <1>2, <1>3
<1>5. \A i \in DOMAIN r : i # 1 => i - 1 \in DOMAIN s /\ r[i] = s[i - 1]
  <2> HIDE DEF r
  <2> QED
    BY <1>2, <1>4
<1>6. r # <<>>
  <2> HIDE DEF r
  <2> QED
    BY <1>2, <1>3
<1>7. Range(r) = {u} \union Range(s)
  <2> HIDE DEF r
  <2>1. Range(r) \subseteq {u} \union Range(s)
    BY <1>4, <1>5 DEF Range
  <2>2. u \in Range(r)
    BY <1>2, <1>4 DEF Range
  <2>3. ASSUME NEW i \in DOMAIN s PROVE s[i] \in Range(r)
    <3>1. i + 1 \in DOMAIN r /\ r[i + 1] = s[i]
      BY <1>2, <1>4
    <3> QED
      BY <3>1 DEF Range
  <2> QED
    BY <2>1, <2>2, <2>3 DEF Range
<1>8. ASSUME Once(s), u \notin Range(s) PROVE Once(r)
  <2> HIDE DEF r
  <2>1. \A i \in DOMAIN s : s[i] # u
    BY <1>8 DEF Range
  <2> SUFFICES ASSUME NEW i \in DOMAIN r, NEW j \in DOMAIN r, r[i] = r[j] PROVE i = j
    BY DEF Once
  <2>2. CASE i = 1 \/ j = 1
    BY <2>1, <2>2, <1>4, <1>5
  <2>3. CASE i # 1 /\ j # 1
    <3>1. i - 1 = j - 1
      BY <2>3, <1>5, <1>8 DEF Once
    <3> QED
      BY <3>1, <1>2, <1>4
  <2> QED
    BY <2>2, <2>3
<1> QED
  BY <1>3, <1>4, <1>6, <1>7, <1>8

(* Where a unit is on a list it is on. *)
LEMMA PlaceIs ==
  ASSUME NEW S, NEW s \in Seq(S), NEW u \in Range(s)
  PROVE  Place(s, u) \in DOMAIN s /\ s[Place(s, u)] = u
BY DEF Place, Range

(* A list without one of its places. *)
LEMMA Removed ==
  ASSUME NEW S, NEW s \in Seq(S), NEW i \in DOMAIN s
  PROVE  /\ RemoveAt(s, i) \in Seq(S)
         /\ Once(s) => Range(RemoveAt(s, i)) = Range(s) \ {s[i]} /\ Once(RemoveAt(s, i))
<1> DEFINE r == RemoveAt(s, i)
           a == SubSeq(s, 1, i - 1)
           b == SubSeq(s, i + 1, Len(s))
<1>1. Len(s) \in Nat /\ DOMAIN s = 1 .. Len(s) /\ i \in 1 .. Len(s)
  OBVIOUS
<1>2. a \in Seq(S) /\ Len(a) = i - 1 /\ \A k \in 1 .. i - 1 : a[k] = s[k]
  <2>1. \A k \in 1 .. i - 1 : s[k] \in S
    BY <1>1, ElementOfSeq
  <2>2. /\ a \in Seq(S)
        /\ Len(a) = IF 1 <= i - 1 THEN i - 1 - 1 + 1 ELSE 0
        /\ \A k \in 1 .. i - 1 - 1 + 1 : a[k] = s[1 + k - 1]
    <3>1. 1 \in Int /\ i - 1 \in Int
      BY <1>1
    <3> HIDE DEF a
    <3> QED
      BY <2>1, <3>1, SubSeqProperties DEF a
  <2>3. i - 1 - 1 + 1 = i - 1
    BY <1>1
  <2>4. \A k \in 1 .. i - 1 : 1 + k - 1 = k
    BY <1>1
  <2>5. Len(a) = i - 1
    <3> HIDE DEF a
    <3> QED
      BY <2>2, <1>1
  <2> HIDE DEF a
  <2> QED
    BY <2>2, <2>3, <2>4, <2>5
<1>3. /\ b \in Seq(S) /\ Len(b) = Len(s) - i
      /\ \A k \in 1 .. Len(s) - i : b[k] = s[k + i]
  <2>1. \A k \in i + 1 .. Len(s) : s[k] \in S
    BY <1>1, ElementOfSeq
  <2>2. /\ b \in Seq(S)
        /\ Len(b) = IF i + 1 <= Len(s) THEN Len(s) - (i + 1) + 1 ELSE 0
        /\ \A k \in 1 .. Len(s) - (i + 1) + 1 : b[k] = s[i + 1 + k - 1]
    <3>1. i + 1 \in Int /\ Len(s) \in Int
      BY <1>1
    <3> HIDE DEF b
    <3> QED
      BY <2>1, <3>1, SubSeqProperties DEF b
  <2>3. Len(s) - (i + 1) + 1 = Len(s) - i
    BY <1>1
  <2>4. \A k \in 1 .. Len(s) - i : i + 1 + k - 1 = k + i
    BY <1>1
  <2>5. Len(b) = Len(s) - i
    <3> HIDE DEF b
    <3> QED
      BY <2>2, <1>1
  <2> HIDE DEF b
  <2> QED
    BY <2>2, <2>3, <2>4, <2>5
<1>4. r = a \o b
  BY DEF RemoveAt
<1>5. /\ r \in Seq(S)
      /\ Len(r) = Len(a) + Len(b)
      /\ \A k \in 1 .. Len(a) + Len(b) : r[k] = IF k <= Len(a) THEN a[k] ELSE b[k - Len(a)]
  <2> HIDE DEF r, a, b
  <2> QED
    BY <1>2, <1>3, <1>4, ConcatProperties
<1>6. /\ DOMAIN r = 1 .. Len(s) - 1
      /\ \A k \in 1 .. Len(s) - 1 : r[k] = IF k < i THEN s[k] ELSE s[k + 1]
  <2> HIDE DEF r, a, b
  <2>1. DOMAIN r = 1 .. Len(r)
    BY <1>5
  <2>2. Len(r) = Len(s) - 1
    BY <1>1, <1>2, <1>3, <1>5
  <2> SUFFICES ASSUME NEW k \in 1 .. Len(s) - 1
               PROVE  r[k] = IF k < i THEN s[k] ELSE s[k + 1]
    BY <2>1, <2>2
  <2>3. CASE k < i
    BY <2>3, <1>1, <1>2, <1>3, <1>5
  <2>4. CASE k >= i
    <3>1. k - Len(a) \in 1 .. Len(s) - i /\ k - Len(a) + i = k + 1
      BY <2>4, <1>1, <1>2
    <3>2. b[k - Len(a)] = s[k + 1]
      BY <3>1, <1>3
    <3> QED
      BY <2>4, <3>2, <1>1, <1>2, <1>3, <1>5
  <2> QED
    BY <2>3, <2>4, <1>1
<1>7. ASSUME Once(s) PROVE Range(r) = Range(s) \ {s[i]} /\ Once(r)
  <2> HIDE DEF r, a, b
  <2>1. ASSUME NEW k \in DOMAIN r
        PROVE  \E l \in DOMAIN s : l # i /\ r[k] = s[l] /\ l = IF k < i THEN k ELSE k + 1
    BY <1>1, <1>6
  <2>2. \A l \in DOMAIN s : l # i => s[l] # s[i]
    BY <1>7 DEF Once
  <2>3. Range(r) \subseteq Range(s) \ {s[i]}
    BY <2>1, <2>2 DEF Range
  <2>4. ASSUME NEW l \in DOMAIN s, l # i PROVE s[l] \in Range(r)
    <3>1. CASE l < i
      BY <3>1, <1>1, <1>6 DEF Range
    <3>2. CASE l > i
      <4>1. l - 1 \in DOMAIN r /\ r[l - 1] = s[l]
        BY <3>2, <1>1, <1>6
      <4> QED
        BY <4>1 DEF Range
    <3> QED
      BY <3>1, <3>2, <2>4, <1>1
  <2>5. Once(r)
    <3> SUFFICES ASSUME NEW j \in DOMAIN r, NEW k \in DOMAIN r, r[j] = r[k] PROVE j = k
      BY DEF Once
    <3> DEFINE at1 == IF j < i THEN j ELSE j + 1
               at2 == IF k < i THEN k ELSE k + 1
    <3>1. at1 \in DOMAIN s /\ at2 \in DOMAIN s /\ s[at1] = s[at2]
      BY <2>1
    <3>2. at1 = at2
      <4> HIDE DEF at1, at2
      <4> QED
        BY <3>1, <1>7 DEF Once
    <3> QED
      BY <3>2, <1>1, <1>6
  <2> QED
    BY <2>3, <2>4, <2>5 DEF Range
<1> QED
  BY <1>5, <1>7

LEMMA Shortened ==
  ASSUME NEW S, NEW s \in Seq(S), NEW u \in Range(s), Once(s)
  PROVE  /\ Without(s, u) \in Seq(S)
         /\ Range(Without(s, u)) = Range(s) \ {u}
         /\ Once(Without(s, u))
BY PlaceIs, Removed DEF Without

-----------------------------------------------------------------------------
(* What an allocation of memory leaves alone, and what it may do. *)
Kept(h, g) ==
  g.areas = h.areas /\ g.others = h.others /\ g.slots = h.slots /\ g.buf = h.buf

(* Of the dead units only the first comes back to life, or all of them go. *)
DeadKept(h, g) ==
  \/ g.dead = <<>>
  \/ h.dead # <<>> /\ \A i \in DOMAIN h.dead : i # 1 => h.dead[i] \in Dead(g)

Made(h, g, n) ==
  /\ Kept(h, g) /\ DeadKept(h, g)
  /\ Live(h) \subseteq Live(g) /\ \A u \in Live(h) : g.size[u] = h.size[u]
  /\ g.uptodate => h.uptodate /\ Mapped(g) = Mapped(h) /\ g.listed = h.listed
  /\ g.ended \in {h.ended, "out_of_memory"}
  /\ n = Large =>
       /\ g.dead \in {h.dead, <<>>}
       /\ g.uptodate => g.units = h.units /\ g.dead = h.dead
       /\ g.ended = "no" =>
            /\ g.units # <<>>
            /\ g.units[1] \in Live(g) \ Live(h) /\ g.size[g.units[1]] = Large

LEMMA ListTypes ==
  ASSUME NEW h \in HeapType
  PROVE  /\ h.units \in Seq(Unit) /\ h.dead \in Seq(Unit)
         /\ Live(h) \subseteq Unit /\ Dead(h) \subseteq Unit
         /\ \A u \in Unit : u \in Mapped(h) <=> h.size[u] # 0
BY ElementOfSeq DEF HeapType, Live, Dead, Range, Mapped

LEMMA AllDeadKept ==
  ASSUME NEW h, NEW g, g.dead \in {h.dead, <<>>}
  PROVE  DeadKept(h, g)
BY DEF DeadKept, Dead, Range

LEMMA SameDeadKept ==
  ASSUME NEW h, NEW g, DeadKept(h, g), NEW f, NEW e, f.dead = h.dead, e.dead = g.dead
  PROVE  DeadKept(f, e)
BY DEF DeadKept, Dead, Range

LEMMA NothingThere == Range(<<>>) = {} /\ Once(<<>>)
BY DEF Range, Once

(* Memory that is given back makes the vector stale. *)
LEMMA ReallyFreedIs ==
  ASSUME NEW h \in HeapType, NEW gone \in SUBSET Unit
  PROVE  LET g == ReallyFreed(h, gone)
         IN  /\ g \in HeapType /\ Kept(h, g)
             /\ g.units = h.units /\ g.dead = h.dead /\ g.listed = h.listed
             /\ g.ended = h.ended
             /\ Mapped(g) = Mapped(h) \ gone
             /\ \A u \in Unit \ gone : g.size[u] = h.size[u]
             /\ gone = {} => g = h
             /\ gone # {} => g.pending /\ ~g.uptodate
<1>1. CASE gone = {}
  BY <1>1 DEF ReallyFreed, Kept
<1>2. CASE gone # {}
  <2> DEFINE size == [u \in Unit |-> IF u \in gone THEN 0 ELSE h.size[u]]
             g == [h EXCEPT !.size = size, !.uptodate = FALSE, !.pending = TRUE]
  <2>1. ReallyFreed(h, gone) = g
    BY <1>2 DEF ReallyFreed
  <2>2. size \in [Unit -> 0 .. Large]
    BY DEF HeapType, Large
  <2>3. g \in HeapType
    <3> HIDE DEF size
    <3> QED
      BY <2>2 DEF HeapType
  <2>4. /\ Kept(h, g) /\ g.units = h.units /\ g.dead = h.dead /\ g.listed = h.listed
        /\ g.ended = h.ended /\ g.pending /\ ~g.uptodate /\ g.size = size
    <3> HIDE DEF size
    <3> QED
      BY DEF HeapType, Kept
  <2> HIDE DEF g
  <2>5. \A u \in Unit : g.size[u] = IF u \in gone THEN 0 ELSE h.size[u]
    BY <2>4
  <2>6. Mapped(g) = Mapped(h) \ gone
    BY <2>5 DEF Mapped
  <2> QED
    BY <1>2, <2>1, <2>3, <2>4, <2>5, <2>6
<1> QED
  BY <1>1, <1>2

(* The dead units given back. *)
LEMMA LowOnMemoryIs ==
  ASSUME NEW h, NEW A, Sound(h, A)
  PROVE  LET g == LowOnMemory(h)
         IN  /\ Sound(g, A) /\ Kept(h, g)
             /\ g.units = h.units /\ g.dead = <<>> /\ g.listed = h.listed
             /\ g.ended = h.ended
             /\ Mapped(g) = Live(h)
             /\ \A u \in Live(h) : g.size[u] = h.size[u]
             /\ g.uptodate => h.uptodate /\ g.dead = h.dead /\ Mapped(g) = Mapped(h)
<1> DEFINE f == ReallyFreed(h, Dead(h))
           g == LowOnMemory(h)
<1>1. /\ h \in HeapType /\ Live(h) \subseteq Unit /\ Dead(h) \in SUBSET Unit
      /\ Mapped(h) = Live(h) \union Dead(h) /\ Live(h) \cap Dead(h) = {}
  BY ListTypes DEF Sound, ListsOK
<1>2. /\ f \in HeapType /\ Kept(h, f)
      /\ f.units = h.units /\ f.dead = h.dead /\ f.listed = h.listed
      /\ f.ended = h.ended
      /\ Mapped(f) = Mapped(h) \ Dead(h)
      /\ \A u \in Unit \ Dead(h) : f.size[u] = h.size[u]
      /\ Dead(h) = {} => f = h
      /\ Dead(h) # {} => f.pending /\ ~f.uptodate
  <2> HIDE DEF f
  <2> QED
    BY <1>1, ReallyFreedIs DEF f
<1>3. g = [f EXCEPT !.dead = <<>>]
  BY DEF LowOnMemory
<1>4. /\ g \in HeapType /\ Kept(f, g)
      /\ g.units = f.units /\ g.dead = <<>> /\ g.listed = f.listed
      /\ g.ended = f.ended /\ g.size = f.size
      /\ g.uptodate = f.uptodate /\ g.pending = f.pending
  <2> HIDE DEF f, g
  <2>1. <<>> \in Seq(Unit)
    BY EmptySeq
  <2> QED
    BY <2>1, <1>2, <1>3 DEF HeapType, Kept
<1>5. Mapped(g) = Live(h) /\ \A u \in Live(h) : g.size[u] = h.size[u]
  <2> HIDE DEF f, g
  <2>1. Mapped(g) = Mapped(f)
    BY <1>4 DEF Mapped
  <2> QED
    BY <2>1, <1>1, <1>2, <1>4
<1>6. Dead(h) = {} => h.dead = <<>>
  <2>1. h.dead \in Seq(Unit) /\ DOMAIN h.dead = 1 .. Len(h.dead)
    BY <1>1, ListTypes
  <2>2. h.dead # <<>> => 1 \in DOMAIN h.dead
    BY <2>1, EmptySeq
  <2> QED
    BY <2>2 DEF Dead, Range
<1>7. Live(g) = Live(h) /\ Dead(g) = {}
  <2> HIDE DEF f, g
  <2> QED
    BY <1>2, <1>4, NothingThere DEF Live, Dead
<1>8. ListsOK(g)
  <2> HIDE DEF f, g
  <2> QED
    BY <1>2, <1>4, <1>5, <1>7, NothingThere DEF Sound, ListsOK
<1>9. /\ g.uptodate => h.uptodate /\ g.dead = h.dead /\ Mapped(g) = Mapped(h)
      /\ Covered(g, A)
  <2> HIDE DEF f, g
  <2>1. CASE Dead(h) = {}
    BY <2>1, <1>1, <1>2, <1>4, <1>5, <1>6 DEF Sound, Covered
  <2>2. CASE Dead(h) # {}
    BY <2>2, <1>2, <1>4 DEF Covered
  <2> QED
    BY <2>1, <2>2
<1> QED
  <2> HIDE DEF f
  <2>1. Kept(h, g)
    BY <1>2, <1>4 DEF Kept
  <2> HIDE DEF g
  <2> QED
    BY <2>1, <1>2, <1>4, <1>5, <1>8, <1>9 DEF g, Sound

(* New memory: at an address where nothing is. *)
LEMMA FreshIs ==
  ASSUME NEW h, NEW A, Sound(h, A), NEW n \in {Normal, Large}, NEW g \in Fresh(h, n)
  PROVE  Sound(g, A) /\ Made(h, g, n)
<1> DEFINE l == IF Mapped(h) = Unit THEN LowOnMemory(h) ELSE h
<1>1. /\ Sound(l, A) /\ Kept(h, l)
      /\ l.units = h.units /\ l.listed = h.listed /\ l.ended = h.ended
      /\ l.dead \in {h.dead, <<>>}
      /\ \A u \in Live(h) : l.size[u] = h.size[u]
      /\ l.uptodate => h.uptodate /\ l.dead = h.dead /\ Mapped(l) = Mapped(h)
  <2>1. CASE Mapped(h) = Unit
    BY <2>1, LowOnMemoryIs
  <2>2. CASE Mapped(h) # Unit
    BY <2>2 DEF Kept
  <2> QED
    BY <2>1, <2>2
<1>2. l \in HeapType /\ Live(l) = Live(h)
  <2> HIDE DEF l
  <2> QED
    BY <1>1 DEF Sound, Live
<1>3. CASE Mapped(l) = Unit
  <2>1. g = [l EXCEPT !.ended = "out_of_memory"]
    BY <1>3 DEF Fresh
  <2> HIDE DEF l
  <2>2. /\ g \in HeapType /\ Kept(l, g)
        /\ g.units = l.units /\ g.dead = l.dead /\ g.listed = l.listed /\ g.size = l.size
        /\ g.uptodate = l.uptodate /\ g.pending = l.pending
        /\ g.ended = "out_of_memory"
    BY <2>1, <1>2 DEF HeapType, Kept
  <2>3. Live(g) = Live(h) /\ Dead(g) = Dead(l) /\ Mapped(g) = Mapped(l)
    BY <2>2, <1>1 DEF Live, Dead, Mapped
  <2>4. Sound(g, A)
    BY <2>2, <2>3, <1>1, <1>2 DEF Sound, ListsOK, Covered
  <2>5. Made(h, g, n)
    BY <2>2, <2>3, <1>1, AllDeadKept DEF Made, Kept
  <2> QED
    BY <2>4, <2>5
<1>4. CASE Mapped(l) # Unit
  <2>1. PICK u \in Unit \ Mapped(l) :
          g = [l EXCEPT !.units = <<u>> \o @, !.size[u] = n, !.listed = @ \ {u},
                        !.uptodate = FALSE]
    BY <1>4 DEF Fresh
  <2> HIDE DEF l
  <2>2. /\ <<u>> \o l.units \in Seq(Unit)
        /\ (<<u>> \o l.units)[1] = u /\ <<u>> \o l.units # <<>>
        /\ Range(<<u>> \o l.units) = {u} \union Live(l)
        /\ u \notin Live(l) => Once(<<u>> \o l.units)
    <3>1. l.units \in Seq(Unit)
      BY <1>2, ListTypes
    <3> QED
      BY <3>1, <1>1, Prepended DEF Live, Sound, ListsOK
  <2>3. /\ g \in HeapType /\ Kept(l, g)
        /\ g.units = <<u>> \o l.units /\ g.dead = l.dead /\ g.listed = l.listed \ {u}
        /\ g.size = [l.size EXCEPT ![u] = n]
        /\ g.uptodate = FALSE /\ g.pending = l.pending
        /\ g.ended = l.ended
    <3> DEFINE units == <<u>> \o l.units
               size == [l.size EXCEPT ![u] = n]
    <3>1. size \in [Unit -> 0 .. Large]
      BY <1>2 DEF HeapType, Normal, Large
    <3>2. g = [l EXCEPT !.units = units, !.size = size, !.listed = l.listed \ {u},
                        !.uptodate = FALSE]
      BY <2>1, <1>2 DEF HeapType
    <3> HIDE DEF units, size
    <3>3. units \in Seq(Unit)
      BY <2>2 DEF units
    <3>4. g \in HeapType
      BY <3>1, <3>2, <3>3, <1>2 DEF HeapType
    <3>5. /\ Kept(l, g) /\ g.units = units /\ g.dead = l.dead /\ g.listed = l.listed \ {u}
          /\ g.size = size /\ g.uptodate = FALSE /\ g.pending = l.pending
          /\ g.ended = l.ended
      BY <3>2, <1>2 DEF HeapType, Kept
    <3> QED
      BY <3>4, <3>5 DEF units, size
  <2>4. Live(g) = {u} \union Live(h) /\ Dead(g) = Dead(l) /\ Mapped(g) = {u} \union Mapped(l)
    <3>1. Mapped(g) = {u} \union Mapped(l)
      BY <2>3, <1>2 DEF Mapped, HeapType, Normal, Large
    <3> QED
      BY <3>1, <2>2, <2>3, <1>2 DEF Live, Dead
  <2>5. u \notin Live(h) /\ u \notin Dead(l) /\ Mapped(l) = Live(h) \union Dead(l)
    BY <2>1, <1>1, <1>2 DEF Sound, ListsOK
  <2>6. \A v \in Unit \ {u} : g.size[v] = l.size[v]
    BY <2>3, <1>2 DEF HeapType
  <2>7. g.size[u] = n
    BY <2>3, <1>2 DEF HeapType
  <2>8. Live(h) \subseteq Unit /\ Dead(l) \subseteq Unit
    BY <1>2, ListTypes
  <2>9. ListsOK(g)
    BY <2>2, <2>3, <2>4, <2>5, <2>6, <2>8, <1>1, <1>2 DEF Sound, ListsOK
  <2>10. Covered(g, A)
    BY <2>1, <2>3, <2>4, <1>1 DEF Sound, Covered
  <2>11. Made(h, g, n)
    <3>1. u \in Live(g) \ Live(h) /\ g.units[1] = u /\ g.units # <<>>
      BY <2>2, <2>3, <2>4, <2>5
    <3>2. Live(h) \subseteq Live(g) /\ \A v \in Live(h) : g.size[v] = h.size[v]
      BY <2>4, <2>5, <2>6, <2>8, <1>1
    <3>3. Kept(h, g)
      BY <2>3, <1>1 DEF Kept
    <3>4. DeadKept(h, g)
      BY <2>3, <1>1, AllDeadKept
    <3> QED
      BY <3>1, <3>2, <3>3, <3>4, <2>3, <2>7, <1>1 DEF Made
  <2> QED
    BY <2>3, <2>9, <2>10, <2>11 DEF Sound
<1> QED
  BY <1>3, <1>4

(* A unit: a dead one for a normal one, a new one otherwise. *)
LEMMA CreateUnitIs ==
  ASSUME NEW h, NEW A, Sound(h, A), NEW n \in {Normal, Large}, NEW g \in CreateUnit(h, n)
  PROVE  Sound(g, A) /\ Made(h, g, n)
<1> DEFINE fits == {i \in DOMAIN h.dead : h.size[h.dead[i]] >= n}
           i == CHOOSE j \in fits : \A k \in fits : j <= k
<1>1. h \in HeapType /\ h.units \in Seq(Unit) /\ h.dead \in Seq(Unit)
  BY ListTypes DEF Sound
<1>2. \A j \in DOMAIN h.dead : h.size[h.dead[j]] = Normal
  BY DEF Sound, ListsOK, Dead, Range
<1>3. CASE fits = {}
  BY <1>3, FreshIs DEF CreateUnit
<1>4. CASE fits # {}
  <2>1. n = Normal /\ fits = DOMAIN h.dead
    BY <1>2, <1>4 DEF Normal, Large
  <2>2. i \in DOMAIN h.dead /\ i = 1
    <3>1. DOMAIN h.dead = 1 .. Len(h.dead) /\ Len(h.dead) \in Nat
      BY <1>1
    <3>2. 1 \in fits /\ \A k \in fits : 1 <= k
      BY <3>1, <2>1, <1>4
    <3>3. i \in fits /\ \A k \in fits : i <= k
      <4> HIDE DEF fits
      <4> QED
        BY <3>2
    <3>4. i \in Nat
      BY <3>1, <3>3
    <3> HIDE DEF i
    <3> QED
      BY <3>1, <3>2, <3>3, <3>4
  <2> DEFINE u == h.dead[i]
  <2>3. g = [h EXCEPT !.units = <<u>> \o @, !.dead = RemoveAt(@, i)]
    BY <1>4 DEF CreateUnit
  <2> HIDE DEF fits, i
  <2>4. u \in Unit /\ u \in Dead(h)
    BY <2>2, <1>1, ElementOfSeq DEF Dead, Range
  <2>5. u \notin Live(h) /\ Once(h.units) /\ Once(h.dead)
    BY <2>4 DEF Sound, ListsOK
  <2>6. /\ <<u>> \o h.units \in Seq(Unit)
        /\ Range(<<u>> \o h.units) = {u} \union Live(h)
        /\ Once(<<u>> \o h.units)
    BY <2>4, <2>5, <1>1, Prepended DEF Live
  <2>7. /\ RemoveAt(h.dead, i) \in Seq(Unit)
        /\ Range(RemoveAt(h.dead, i)) = Dead(h) \ {u}
        /\ Once(RemoveAt(h.dead, i))
    BY <2>2, <2>5, <1>1, Removed DEF Dead
  <2> HIDE DEF u
  <2>8. /\ g \in HeapType /\ Kept(h, g)
        /\ g.units = <<u>> \o h.units /\ g.dead = RemoveAt(h.dead, i)
        /\ g.listed = h.listed /\ g.size = h.size
        /\ g.uptodate = h.uptodate /\ g.pending = h.pending
        /\ g.ended = h.ended
    BY <2>3, <2>6, <2>7, <1>1 DEF HeapType, Kept
  <2>9. Live(g) = {u} \union Live(h) /\ Dead(g) = Dead(h) \ {u} /\ Mapped(g) = Mapped(h)
    BY <2>6, <2>7, <2>8 DEF Live, Dead, Mapped
  <2>10. Sound(g, A)
    BY <2>4, <2>5, <2>6, <2>7, <2>8, <2>9 DEF Sound, ListsOK, Covered
  <2>11. DeadKept(h, g)
    <3>1. \A j \in DOMAIN h.dead : j # i => h.dead[j] \in Dead(h) \ {u}
      BY <2>2, <2>5 DEF u, Once, Dead, Range
    <3>2. h.dead # <<>>
      BY <2>2, EmptySeq
    <3> QED
      BY <3>1, <3>2, <2>2, <2>9 DEF DeadKept
  <2>12. Made(h, g, n)
    BY <2>1, <2>8, <2>9, <2>11 DEF Made, Kept, Normal, Large
  <2> QED
    BY <2>10, <2>12
<1> QED
  BY <1>3, <1>4

(* A unit that is freed leaves the list of live ones; a large one is gone. *)
Unmade(h, g, u) ==
  /\ Kept(h, g) /\ g.ended = h.ended
  /\ Live(g) = Live(h) \ {u} /\ \A v \in Unit \ {u} : g.size[v] = h.size[v]
  /\ g.uptodate => h.uptodate /\ Mapped(g) = Mapped(h) /\ g.listed = h.listed
  /\ h.size[u] = Large => g.dead = h.dead /\ ~g.uptodate

LEMMA FreeUnitIs ==
  ASSUME NEW h, NEW A, Sound(h, A), NEW u \in Live(h)
  PROVE  Sound(FreeUnit(h, u), A) /\ Unmade(h, FreeUnit(h, u), u)
<1> DEFINE l == [h EXCEPT !.units = Without(@, u)]
           g == FreeUnit(h, u)
<1>1. h \in HeapType /\ h.units \in Seq(Unit) /\ h.dead \in Seq(Unit) /\ u \in Unit
  BY ListTypes DEF Sound
<1>2. /\ Without(h.units, u) \in Seq(Unit)
      /\ Range(Without(h.units, u)) = Live(h) \ {u}
      /\ Once(Without(h.units, u))
  BY <1>1, Shortened DEF Sound, ListsOK, Live
<1>3. /\ l \in HeapType /\ Kept(h, l)
      /\ l.units = Without(h.units, u) /\ l.dead = h.dead
      /\ l.listed = h.listed /\ l.size = h.size
      /\ l.uptodate = h.uptodate /\ l.pending = h.pending /\ l.ended = h.ended
  <2> DEFINE units == Without(h.units, u)
  <2>1. units \in Seq(Unit)
    BY <1>2
  <2>2. l = [h EXCEPT !.units = units]
    BY <1>1 DEF HeapType
  <2> HIDE DEF units, l
  <2>3. l \in HeapType
    BY <2>1, <2>2, <1>1 DEF HeapType
  <2> QED
    BY <2>2, <2>3, <1>1 DEF HeapType, Kept, units
<1>4. Live(l) = Live(h) \ {u} /\ Dead(l) = Dead(h) /\ Mapped(l) = Mapped(h)
  <2> HIDE DEF l
  <2> QED
    BY <1>2, <1>3 DEF Live, Dead, Mapped
<1>5. /\ Once(h.dead) /\ u \notin Dead(h) /\ Mapped(h) = Live(h) \union Dead(h)
      /\ Live(h) \cap Dead(h) = {} /\ \A v \in Dead(h) : h.size[v] = Normal
  BY DEF Sound, ListsOK
<1>6. CASE h.size[u] = Normal /\ Len(h.dead) < DeadMax
  <2> DEFINE dead == <<u>> \o h.dead
  <2>1. dead \in Seq(Unit) /\ Range(dead) = {u} \union Dead(h) /\ Once(dead)
    <3> HIDE DEF dead
    <3> QED
      BY <1>1, <1>5, Prepended DEF Dead, dead
  <2>2. g = [l EXCEPT !.dead = dead]
    BY <1>6, <1>3 DEF FreeUnit, HeapType
  <2> HIDE DEF dead, l, g
  <2>3. g \in HeapType
    BY <2>1, <2>2, <1>3 DEF HeapType
  <2>4. /\ Kept(l, g) /\ g.units = l.units /\ g.dead = dead
        /\ g.listed = l.listed /\ g.size = l.size
        /\ g.uptodate = l.uptodate /\ g.pending = l.pending /\ g.ended = l.ended
    BY <2>2, <2>3, <1>3 DEF HeapType, Kept
  <2>5. Live(g) = Live(h) \ {u} /\ Dead(g) = {u} \union Dead(h) /\ Mapped(g) = Mapped(h)
    BY <2>1, <2>4, <1>3, <1>4 DEF Live, Dead, Mapped
  <2>6. ListsOK(g)
    BY <2>1, <2>4, <2>5, <1>2, <1>3, <1>5, <1>6 DEF ListsOK
  <2>7. Covered(g, A)
    BY <2>4, <2>5, <1>3 DEF Sound, Covered
  <2>8. Unmade(h, g, u)
    BY <2>4, <2>5, <1>3, <1>6 DEF Unmade, Kept, Normal, Large
  <2> QED
    BY <2>3, <2>6, <2>7, <2>8 DEF g, Sound
<1>7. CASE ~(h.size[u] = Normal /\ Len(h.dead) < DeadMax)
  <2>1. g = ReallyFreed(l, {u})
    BY <1>7, <1>1 DEF FreeUnit
  <2> HIDE DEF l, g
  <2>2. /\ g \in HeapType /\ Kept(l, g)
        /\ g.units = l.units /\ g.dead = l.dead /\ g.listed = l.listed
        /\ g.ended = l.ended
        /\ Mapped(g) = Mapped(l) \ {u}
        /\ \A v \in Unit \ {u} : g.size[v] = l.size[v]
        /\ g.pending /\ ~g.uptodate
    BY <2>1, <1>1, <1>3, ReallyFreedIs
  <2>3. Live(g) = Live(h) \ {u} /\ Dead(g) = Dead(h)
    BY <2>2, <1>3, <1>4 DEF Live, Dead
  <2>4. Dead(h) \subseteq Unit
    BY <1>1, ListTypes
  <2>5. ListsOK(g)
    BY <2>2, <2>3, <2>4, <1>2, <1>3, <1>4, <1>5 DEF ListsOK
  <2>6. Covered(g, A)
    BY <2>2 DEF Covered
  <2>7. Unmade(h, g, u)
    BY <2>2, <2>3, <1>3 DEF Unmade, Kept
  <2> QED
    BY <2>2, <2>5, <2>6, <2>7 DEF g, Sound
<1> QED
  BY <1>6, <1>7

(* What room for one more area in the vector may take. *)
Larger(h, g) ==
  /\ g.areas = h.areas /\ g.others = h.others /\ g.ended \in {h.ended, "out_of_memory"}
  /\ \A u \in Live(h) \ {h.buf} : u \in Live(g) /\ (g.ended = "no" => u # g.buf)
  /\ DeadKept(h, g)
  /\ "unit" \notin Needs =>
       (g.uptodate => h.uptodate /\ g.units = h.units /\ g.dead = h.dead
                       /\ g.listed = h.listed /\ Mapped(g) = Mapped(h))

(* A unit of its own for the vector. *)
Buffered(h) == [h EXCEPT !.buf = First(h.units)]

LEMMA OwnIs ==
  ASSUME NEW h, NEW A, Sound(h, A), NEW f \in CreateUnit(h, Large),
         NEW g, g = Buffered(f)
  PROVE  /\ Sound(g, A) /\ BufOK(g) /\ g.slots = h.slots /\ Larger(h, g)
         /\ Live(h) \subseteq Live(g) /\ \A u \in Live(h) : g.size[u] = h.size[u]
         /\ g.ended = "no" => g.buf \in Unit /\ g.buf \notin Live(h)
<1>1. Sound(f, A) /\ Made(h, f, Large)
  BY CreateUnitIs
<1>2. f \in HeapType /\ f.units \in Seq(Unit) /\ Live(f) \subseteq Unit
  BY <1>1, ListTypes DEF Sound
<1>3. First(f.units) \in Unit \union {NoUnit}
  <2>1. f.units # <<>> => 1 \in 1 .. Len(f.units)
    BY <1>2, EmptySeq
  <2> QED
    BY <2>1, <1>2, ElementOfSeq DEF First
<1>4. /\ g \in HeapType /\ g.buf = First(f.units)
      /\ g.units = f.units /\ g.dead = f.dead /\ g.listed = f.listed /\ g.size = f.size
      /\ g.uptodate = f.uptodate /\ g.pending = f.pending /\ g.ended = f.ended
      /\ g.areas = f.areas /\ g.others = f.others /\ g.slots = f.slots
  BY <1>2, <1>3 DEF HeapType, Buffered
<1>5. Live(g) = Live(f) /\ Dead(g) = Dead(f) /\ Mapped(g) = Mapped(f)
  BY <1>4 DEF Live, Dead, Mapped
<1>6. Sound(g, A)
  BY <1>1, <1>4, <1>5 DEF Sound, ListsOK, Covered
<1>7. g.ended = "no" => /\ g.buf \in Unit /\ g.buf \notin Live(h)
                        /\ g.buf \in Live(g) /\ g.size[g.buf] = Large
  BY <1>1, <1>2, <1>4, <1>5 DEF Made, First
<1>8. BufOK(g)
  BY <1>7 DEF BufOK
<1>9. Larger(h, g)
  BY <1>1, <1>4, <1>5, <1>7, SameDeadKept DEF Larger, Made, Kept
<1> QED
  BY <1>1, <1>4, <1>5, <1>6, <1>7, <1>8, <1>9 DEF Made, Kept

LEMMA GrownIs ==
  ASSUME NEW h, NEW A, Sound(h, A), BufOK(h), h.ended = "no", NEW g \in Grown(h)
  PROVE  /\ Sound(g, A) /\ BufOK(g) /\ Larger(h, g)
         /\ Fits(h) => Cardinality(g.areas) + g.others < g.slots
<1>1. h \in HeapType /\ h.slots \in Nat /\ h.others \in Nat /\ h.buf \in Unit \union {NoUnit}
  BY BoundsAssumption DEF Sound, HeapType
<1>2. IsFiniteSet(h.areas) /\ Cardinality(h.areas) \in Nat
  <2>1. h.areas \in SUBSET Unit
    BY <1>1 DEF HeapType
  <2> QED
    BY <2>1, UnitAssumption, FS_Subset, FS_CardinalityType
<1>3. CASE ~Full(h)
  <2>1. g = h
    BY <1>3 DEF Grown
  <2>2. Larger(h, h)
    BY AllDeadKept DEF Larger
  <2>3. Fits(h) => Cardinality(h.areas) + h.others < h.slots
    BY <1>1, <1>2, <1>3 DEF Fits, Full
  <2> QED
    BY <2>1, <2>2, <2>3
<1>4. CASE Full(h)
  <2> DEFINE larger == [h EXCEPT !.slots = @ + Slots]
             Own == {[f EXCEPT !.buf = First(f.units)] : f \in CreateUnit(larger, Large)}
  <2>1. /\ larger \in HeapType /\ larger.slots = h.slots + Slots
        /\ larger.units = h.units /\ larger.dead = h.dead /\ larger.listed = h.listed
        /\ larger.size = h.size /\ larger.uptodate = h.uptodate
        /\ larger.pending = h.pending /\ larger.ended = h.ended
        /\ larger.areas = h.areas /\ larger.others = h.others /\ larger.buf = h.buf
    <3> DEFINE slots == h.slots + Slots
    <3>1. slots \in Nat
      BY <1>1, BoundsAssumption
    <3>2. larger = [h EXCEPT !.slots = slots]
      BY <1>1 DEF HeapType
    <3> HIDE DEF slots, larger
    <3> QED
      BY <3>1, <3>2, <1>1 DEF HeapType, slots
  <2>2. Live(larger) = Live(h) /\ Dead(larger) = Dead(h) /\ Mapped(larger) = Mapped(h)
    <3> HIDE DEF larger
    <3> QED
      BY <2>1 DEF Live, Dead, Mapped
  <2>3. Sound(larger, A) /\ BufOK(larger)
    <3> HIDE DEF larger
    <3> QED
      BY <2>1, <2>2 DEF Sound, ListsOK, Covered, BufOK
  <2>4. ASSUME NEW f, Larger(larger, f) PROVE Larger(h, f)
    <3> HIDE DEF larger
    <3> QED
      BY <2>1, <2>2, <2>4, SameDeadKept DEF Larger
  <2>5. ASSUME NEW f, f.slots = larger.slots, f.areas = h.areas, f.others = h.others
        PROVE  Fits(h) => Cardinality(f.areas) + f.others < f.slots
    <3> HIDE DEF larger
    <3> QED
      BY <2>1, <2>5, <1>1, <1>2, BoundsAssumption DEF Fits
  <2>6. ASSUME NEW f \in Own
        PROVE  /\ Sound(f, A) /\ BufOK(f) /\ f.slots = larger.slots /\ Larger(larger, f)
               /\ Live(h) \subseteq Live(f) /\ \A u \in Live(h) : f.size[u] = h.size[u]
               /\ f.ended = "no" => f.buf \in Unit /\ f.buf \notin Live(h)
    <3> HIDE DEF larger
    <3>1. PICK e \in CreateUnit(larger, Large) : f = Buffered(e)
      BY <2>6 DEF Buffered
    <3>2. Sound(larger, A)
      BY <2>3
    <3>3. /\ Sound(f, A) /\ BufOK(f) /\ f.slots = larger.slots /\ Larger(larger, f)
          /\ Live(larger) \subseteq Live(f)
          /\ \A u \in Live(larger) : f.size[u] = larger.size[u]
          /\ f.ended = "no" => f.buf \in Unit /\ f.buf \notin Live(larger)
      BY <3>1, <3>2, OwnIs
    <3> QED
      BY <3>3, <2>1, <2>2
  <2>7. CASE h.buf # NoUnit
    <3>1. PICK f \in Own : g = IF f.ended = "no" THEN FreeUnit(f, h.buf) ELSE f
      BY <2>7, <1>4 DEF Grown
    <3> HIDE DEF Own, larger
    <3>2. Larger(h, f) /\ f.areas = h.areas /\ f.others = h.others
      BY <2>4, <2>6 DEF Larger
    <3>3. CASE f.ended # "no"
      BY <3>1, <3>2, <3>3, <2>5, <2>6
    <3>4. CASE f.ended = "no"
      <4>1. g = FreeUnit(f, h.buf)
        BY <3>1, <3>4
      <4>2. h.buf \in Live(h) /\ h.size[h.buf] = Large
        BY <2>7 DEF BufOK
      <4>3. h.buf \in Live(f) /\ f.size[h.buf] = Large /\ f.buf # h.buf
        BY <4>2, <3>4, <2>6
      <4>4. Sound(g, A) /\ Unmade(f, g, h.buf)
        BY <4>1, <4>3, <2>6, FreeUnitIs
      <4>5. /\ g.areas = f.areas /\ g.others = f.others /\ g.slots = f.slots
            /\ g.buf = f.buf /\ g.ended = f.ended
            /\ Live(g) = Live(f) \ {h.buf} /\ g.dead = f.dead /\ ~g.uptodate
            /\ \A v \in Unit \ {h.buf} : g.size[v] = f.size[v]
        BY <4>3, <4>4 DEF Unmade, Kept
      <4>6. BufOK(g)
        BY <4>3, <4>5, <3>4, <2>6 DEF BufOK
      <4>7. Larger(h, g)
        BY <4>5, <3>2, SameDeadKept DEF Larger
      <4> QED
        BY <4>4, <4>5, <4>6, <4>7, <3>2, <2>5, <2>6
    <3> QED
      BY <3>3, <3>4
  <2>8. CASE h.buf = NoUnit
    <3>1. g = larger \/ g \in Own \/ ("unit" \in Needs /\ g \in CreateUnit(larger, Normal))
      <4>1. PICK n \in Needs : g \in CASE n = "room" -> {larger}
                                       [] n = "unit" -> CreateUnit(larger, Normal)
                                       [] n = "own"  -> Own
        BY <2>8, <1>4 DEF Grown
      <4> HIDE DEF Own, larger
      <4>2. n \in {"room", "unit", "own"}
        BY NeedsAssumption
      <4> QED
        BY <4>1, <4>2
    <3> HIDE DEF Own, larger
    <3>2. CASE g = larger
      <4>1. Larger(larger, larger)
        <5> HIDE DEF larger
        <5> QED
          BY AllDeadKept DEF Larger
      <4> QED
        BY <3>2, <4>1, <2>1, <2>3, <2>4, <2>5
    <3>3. CASE g \in Own
      <4>1. Larger(h, g)
        BY <3>3, <2>4, <2>6
      <4>2. g.areas = h.areas /\ g.others = h.others
        BY <4>1 DEF Larger
      <4> QED
        BY <3>3, <4>1, <4>2, <2>5, <2>6
    <3>4. CASE "unit" \in Needs /\ g \in CreateUnit(larger, Normal)
      <4>1. Sound(g, A) /\ Made(larger, g, Normal)
        BY <3>4, <2>3, CreateUnitIs
      <4>2. g.areas = h.areas /\ g.others = h.others /\ g.slots = larger.slots /\ g.buf = NoUnit
        BY <4>1, <2>1, <2>8 DEF Made, Kept
      <4>3. Larger(h, g)
        <5>1. Live(h) \subseteq Unit
          BY <1>1, ListTypes
        <5>2. NoUnit \notin Unit
          BY UnitAssumption
        <5>3. DeadKept(h, g)
          BY <4>1, <2>1, SameDeadKept DEF Made
        <5> QED
          BY <5>1, <5>2, <5>3, <4>1, <4>2, <3>4, <2>1, <2>2 DEF Larger, Made
      <4>4. BufOK(g)
        BY <4>2 DEF BufOK
      <4> QED
        BY <4>1, <4>2, <4>3, <4>4, <2>5
    <3> QED
      BY <3>1, <3>2, <3>3, <3>4
  <2> QED
    BY <2>7, <2>8
<1> QED
  BY <1>3, <1>4

-----------------------------------------------------------------------------
(* Errands of different kinds differ. *)
LEMMA Errands ==
  \A u, v \in Unit :
     /\ \A n : [alloc |-> n] # [free |-> u]
     /\ \A n : [use |-> n] # [free |-> u]
     /\ [free |-> u] = [free |-> v] => u = v
<1> SUFFICES ASSUME NEW u \in Unit, NEW v \in Unit
             PROVE  /\ \A n : [alloc |-> n] # [free |-> u]
                    /\ \A n : [use |-> n] # [free |-> u]
                    /\ [free |-> u] = [free |-> v] => u = v
  OBVIOUS
<1>1. [free |-> u] = [free |-> v] => u = v
  <2>1. [free |-> u].free = u /\ [free |-> v].free = v
    OBVIOUS
  <2> QED
    BY <2>1
<1>2. \A n : DOMAIN [alloc |-> n] = {"alloc"} /\ DOMAIN [use |-> n] = {"use"}
  OBVIOUS
<1>3. DOMAIN [free |-> u] = {"free"}
  OBVIOUS
<1>4. \A n : [alloc |-> n] # [free |-> u]
  BY <1>2, <1>3
<1>5. \A n : [use |-> n] # [free |-> u]
  BY <1>2, <1>3
<1> QED
  BY <1>1, <1>4, <1>5

(* The conditions on the heap alone. *)
HeapOK(h) == Sound(h, h.areas) /\ BufOK(h) /\ Fits(h)

LEMMA UnitInitIInv == Init => UnitIInv
<1> SUFFICES ASSUME Init PROVE UnitIInv
  OBVIOUS
<1> USE DEF Init
<1>1. <<>> \in Seq(Unit) /\ Slots \in Nat /\ MaxOthers \in Nat /\ Cardinality({}) = 0
  BY EmptySeq, FS_EmptySet, BoundsAssumption
<1>2. /\ heap \in HeapType
      /\ heap.units = <<>> /\ heap.dead = <<>> /\ heap.size = [u \in Unit |-> 0]
      /\ heap.listed = {} /\ heap.areas = {} /\ heap.others = 0 /\ heap.slots = Slots
      /\ heap.buf = NoUnit /\ heap.uptodate = TRUE /\ heap.pending = FALSE
      /\ heap.ended = "no"
  BY <1>1 DEF HeapType, Large
<1>3. Live(heap) = {} /\ Dead(heap) = {} /\ Mapped(heap) = {}
  BY <1>2, NothingThere DEF Live, Dead, Mapped
<1>4. Sound(heap, heap.areas) /\ BufOK(heap)
  BY <1>2, <1>3, NothingThere DEF Sound, ListsOK, Covered, BufOK
<1>5. TypeOK
  BY <1>1, <1>2 DEF TypeOK, HeapType, Errand, Read
<1>6. LocksOK /\ (\A t \in Thread : ErrandOK(t)) /\ QueryOK
  BY ThreadAssumption DEF LocksOK, ErrandOK, QueryOK
<1>7. FreesOK
  BY Errands DEF FreesOK, Read
<1> QED
  BY <1>4, <1>5, <1>6, <1>7 DEF UnitIInv

(* The steps, one by one. *)
LEMMA Steps ==
  ASSUME [Next]_vars
  PROVE  \/ UNCHANGED vars
         \/ /\ heap.ended = "no"
            /\ \E t \in Thread :
                 \/ PrivateUnit(t) \/ GlobalTry(t) \/ BackOut(t) \/ LockAreas(t)
                 \/ GlobalRetry(t) \/ ReadLock(t) \/ ReadUpToDate(t) \/ ReadStale(t)
                 \/ DoneReading(t) \/ WriteLock(t) \/ StartWalk(t) \/ WalkUnit(t)
                 \/ WalkFault(t) \/ WalkDead(t) \/ EndWalk(t) \/ Updated(t)
BY DEF Next, Ended, Proceed, Begin

-----------------------------------------------------------------------------
(* What each step that touches the heap does to it. *)
LEMMA Known ==
  ASSUME UnitIInv
  PROVE  /\ heap \in HeapType /\ HeapOK(heap) /\ Sound(heap, heap.areas) /\ BufOK(heap)
         /\ IsFiniteSet(heap.areas) /\ Cardinality(heap.areas) \in Nat
         /\ heap.others \in Nat /\ heap.slots \in Nat
         /\ heap.areas \in SUBSET Unit /\ heap.listed \in SUBSET Unit
         /\ Live(heap) \subseteq Unit /\ Dead(heap) \subseteq Unit
<1>1. heap \in HeapType /\ HeapOK(heap) /\ Sound(heap, heap.areas) /\ BufOK(heap)
  BY DEF UnitIInv, TypeOK, Sound, HeapOK, Fits
<1>2. /\ heap.others \in Nat /\ heap.slots \in Nat
      /\ heap.areas \in SUBSET Unit /\ heap.listed \in SUBSET Unit
  BY <1>1, BoundsAssumption DEF HeapType
<1>3. IsFiniteSet(heap.areas) /\ Cardinality(heap.areas) \in Nat
  BY <1>2, UnitAssumption, FS_Subset, FS_CardinalityType
<1> QED
  BY <1>1, <1>2, <1>3, ListTypes

LEMMA MadeHeap ==
  ASSUME UnitIInv, NEW n \in {Normal, Large}, NEW h \in CreateUnit(heap, n)
  PROVE  HeapOK(h) /\ Made(heap, h, n)
<1>1. Sound(h, heap.areas) /\ Made(heap, h, n)
  BY Known, CreateUnitIs
<1>2. /\ h.areas = heap.areas /\ h.others = heap.others /\ h.slots = heap.slots
      /\ h.buf = heap.buf /\ h.ended \in {heap.ended, "out_of_memory"}
      /\ Live(heap) \subseteq Live(h) /\ \A u \in Live(heap) : h.size[u] = heap.size[u]
  BY <1>1 DEF Made, Kept
<1>3. BufOK(h) /\ Fits(h)
  BY <1>2, Known DEF BufOK, HeapOK, Fits
<1> QED
  BY <1>1, <1>2, <1>3 DEF HeapOK

LEMMA FreedHeap ==
  ASSUME UnitIInv, NEW u \in Live(heap) \ {heap.buf}
  PROVE  HeapOK(FreeUnit(heap, u)) /\ Unmade(heap, FreeUnit(heap, u), u)
<1> DEFINE h == FreeUnit(heap, u)
<1>1. Sound(h, heap.areas) /\ Unmade(heap, h, u)
  BY Known, FreeUnitIs
<1> HIDE DEF h
<1>2. /\ h.areas = heap.areas /\ h.others = heap.others /\ h.slots = heap.slots
      /\ h.buf = heap.buf /\ h.ended = heap.ended
      /\ Live(h) = Live(heap) \ {u} /\ \A v \in Unit \ {u} : h.size[v] = heap.size[v]
  BY <1>1 DEF Unmade, Kept
<1>3. BufOK(h) /\ Fits(h)
  BY <1>2, Known DEF BufOK, HeapOK, Fits
<1> QED
  BY <1>1, <1>2, <1>3 DEF HeapOK, h

(* A walk begins by forgetting what it knew, if a unit has gone. *)
LEMMA WalkBegun ==
  ASSUME UnitIInv, NEW t \in Thread, StartWalk(t)
  PROVE  /\ HeapOK(heap')
         /\ heap'.units = heap.units /\ heap'.dead = heap.dead /\ heap'.size = heap.size
         /\ heap'.others = heap.others /\ heap'.buf = heap.buf /\ heap'.ended = heap.ended
<1> DEFINE h == [heap EXCEPT !.uptodate = TRUE]
<1>1. /\ h \in HeapType /\ h.uptodate = TRUE /\ h.pending = heap.pending
      /\ h.units = heap.units /\ h.dead = heap.dead /\ h.size = heap.size
      /\ h.others = heap.others /\ h.buf = heap.buf /\ h.ended = heap.ended
      /\ h.listed = heap.listed /\ h.areas = heap.areas /\ h.slots = heap.slots
  BY Known DEF HeapType
<1>2. heap' = IF h.pending THEN AllRemoved(h) ELSE h
  BY DEF StartWalk
<1> HIDE DEF h
<1>3. /\ heap' \in HeapType /\ heap'.pending = FALSE
      /\ heap'.units = heap.units /\ heap'.dead = heap.dead /\ heap'.size = heap.size
      /\ heap'.others = heap.others /\ heap'.buf = heap.buf /\ heap'.ended = heap.ended
      /\ heap'.slots = heap.slots
      /\ \/ heap'.listed = {} /\ heap'.areas = {}
         \/ heap'.listed = heap.listed /\ heap'.areas = heap.areas /\ ~heap.pending
  <2>1. CASE h.pending
    BY <2>1, <1>1, <1>2 DEF AllRemoved, HeapType
  <2>2. CASE ~h.pending
    BY <2>2, <1>1, <1>2 DEF HeapType
  <2> QED
    BY <2>1, <2>2
<1>4. Live(heap') = Live(heap) /\ Dead(heap') = Dead(heap) /\ Mapped(heap') = Mapped(heap)
  BY <1>3 DEF Live, Dead, Mapped
<1>5. Sound(heap', heap'.areas)
  BY <1>3, <1>4, Known DEF Sound, ListsOK, Covered
<1>6. BufOK(heap')
  BY <1>3, <1>4, Known DEF BufOK
<1>7. Fits(heap')
  BY <1>3, Known, FS_EmptySet DEF HeapOK, Fits
<1> QED
  BY <1>3, <1>5, <1>6, <1>7 DEF HeapOK

(* A walk adds a unit, which may have been given back by then. *)
LEMMA WalkAdds ==
  ASSUME UnitIInv, heap.ended = "no", NEW t \in Thread, WalkUnit(t), at \notin heap.listed
  PROVE  /\ HeapOK(heap')
         /\ heap'.others = heap.others /\ heap'.ended \in {"no", "out_of_memory"}
         /\ \A u \in Live(heap) \ {heap.buf} :
               u \in Live(heap') /\ (heap'.ended = "no" => u # heap'.buf)
         /\ DeadKept(heap, heap')
         /\ "unit" \notin Needs =>
              (heap'.uptodate => heap.uptodate /\ heap'.units = heap.units
                     /\ heap'.dead = heap.dead /\ Mapped(heap') = Mapped(heap)
                     /\ heap'.listed = heap.listed \union {at})
         /\ at' = IF NextOf(heap, at) # NoUnit
                       /\ NextOf(heap, at) = IF list = "live" THEN heap.buf ELSE heap'.buf
                  THEN NextOf(heap', at) ELSE NextOf(heap, at)
<1> DEFINE h == [heap EXCEPT !.listed = @ \union {at}]
<1>1. at \in Unit /\ at \in Mapped(heap)
  BY DEF WalkUnit, UnitIInv, TypeOK, Mapped
<1>2. /\ h \in HeapType /\ h.listed = heap.listed \union {at}
      /\ h.units = heap.units /\ h.dead = heap.dead /\ h.size = heap.size
      /\ h.others = heap.others /\ h.buf = heap.buf /\ h.ended = heap.ended
      /\ h.uptodate = heap.uptodate /\ h.pending = heap.pending
      /\ h.areas = heap.areas /\ h.slots = heap.slots
  BY <1>1, Known DEF HeapType
<1>3. PICK g \in Grown(h) :
        /\ heap' = [g EXCEPT !.areas = @ \union {at}]
        /\ at' = IF NextOf(heap, at) # NoUnit
                      /\ NextOf(heap, at) = IF list = "live" THEN heap.buf ELSE g.buf
                 THEN NextOf(g, at) ELSE NextOf(heap, at)
  BY DEF WalkUnit
<1> HIDE DEF h
<1> DEFINE A == heap.areas \union {at}
<1>4. Live(h) = Live(heap) /\ Dead(h) = Dead(heap) /\ Mapped(h) = Mapped(heap)
  BY <1>2 DEF Live, Dead, Mapped
<1>5. Sound(h, A) /\ BufOK(h) /\ Fits(h)
  BY <1>1, <1>2, <1>4, Known DEF Sound, ListsOK, Covered, BufOK, HeapOK, Fits
<1>6. /\ Sound(g, A) /\ BufOK(g) /\ Larger(h, g)
      /\ Cardinality(g.areas) + g.others < g.slots
  <2> HIDE DEF A
  <2> QED
    BY <1>2, <1>5, GrownIs
<1>7. g \in HeapType /\ g.areas = heap.areas /\ g.others = heap.others /\ g.slots \in Nat
  BY <1>2, <1>6 DEF Larger, Sound, HeapType
<1>8. /\ heap' \in HeapType /\ heap'.areas = A
      /\ heap'.units = g.units /\ heap'.dead = g.dead /\ heap'.size = g.size
      /\ heap'.others = g.others /\ heap'.buf = g.buf /\ heap'.ended = g.ended
      /\ heap'.uptodate = g.uptodate /\ heap'.pending = g.pending
      /\ heap'.listed = g.listed /\ heap'.slots = g.slots
  BY <1>1, <1>3, <1>7 DEF HeapType
<1>9. Live(heap') = Live(g) /\ Dead(heap') = Dead(g) /\ Mapped(heap') = Mapped(g)
  BY <1>8 DEF Live, Dead, Mapped
<1>10. Sound(heap', heap'.areas) /\ BufOK(heap')
  <2> HIDE DEF A
  <2> QED
    BY <1>6, <1>8, <1>9 DEF Sound, ListsOK, Covered, BufOK
<1>11. Fits(heap')
  <2>1. Cardinality(A) <= Cardinality(heap.areas) + 1 /\ Cardinality(A) \in Nat
    <3>1. IsFiniteSet(heap.areas) /\ Cardinality(heap.areas) \in Nat
      BY Known
    <3>2. /\ IsFiniteSet(A)
          /\ Cardinality(A) = IF at \in heap.areas THEN Cardinality(heap.areas)
                              ELSE Cardinality(heap.areas) + 1
      BY <3>1, FS_AddElement
    <3> HIDE DEF A
    <3> QED
      BY <3>1, <3>2
  <2> HIDE DEF A
  <2> QED
    BY <2>1, <1>6, <1>7, <1>8, Known DEF Fits
<1>12. NextOf(heap', at) = NextOf(g, at)
  BY <1>8 DEF NextOf, Live, Dead
<1> HIDE DEF A
<1>13. /\ \A u \in Live(heap) \ {heap.buf} :
            u \in Live(heap') /\ (heap'.ended = "no" => u # heap'.buf)
       /\ DeadKept(heap, heap')
       /\ "unit" \notin Needs =>
            (heap'.uptodate => heap.uptodate /\ heap'.units = heap.units
                     /\ heap'.dead = heap.dead /\ Mapped(heap') = Mapped(heap)
                     /\ heap'.listed = heap.listed \union {at})
  BY <1>2, <1>4, <1>6, <1>8, <1>9, SameDeadKept DEF Larger
<1>14. heap'.others = heap.others /\ heap'.ended \in {"no", "out_of_memory"}
  BY <1>2, <1>6, <1>7, <1>8 DEF Larger
<1> QED
  BY <1>3, <1>8, <1>10, <1>11, <1>12, <1>13, <1>14 DEF HeapOK

(* Memory of other kinds comes and goes. *)
LEMMA OthersHeap ==
  ASSUME UnitIInv, heap.ended = "no", NEW t \in Thread, Updated(t)
  PROVE  /\ HeapOK(heap') /\ heap'.ended \in {"no", "out_of_memory"}
         /\ \A u \in Live(heap) \ {heap.buf} :
               u \in Live(heap') /\ (heap'.ended = "no" => u # heap'.buf)
         /\ "unit" \notin Needs =>
              (heap'.uptodate => Mapped(heap') = Mapped(heap) /\ heap'.listed = heap.listed)
<1>1. /\ pc[t] = "update" /\ errand[t] \in [use : {"read", "add", "remove"}]
      /\ errand[t].use = "add" => heap.others < MaxOthers
      /\ errand[t].use = "remove" => heap.others > 0
  BY DEF Updated, UnitIInv, ErrandOK
<1>2. heap.others \in 0 .. MaxOthers /\ MaxOthers \in Nat
  BY Known, BoundsAssumption DEF HeapType
<1>3. CASE heap' = heap
  BY <1>3, Known DEF BufOK
<1>4. ASSUME NEW h, NEW n \in 0 .. MaxOthers, Sound(h, heap.areas), BufOK(h),
             Larger(heap, h), heap' = [h EXCEPT !.others = n],
             Cardinality(h.areas) + n <= h.slots
      PROVE  /\ HeapOK(heap') /\ heap'.ended \in {"no", "out_of_memory"}
             /\ \A u \in Live(heap) \ {heap.buf} :
                   u \in Live(heap') /\ (heap'.ended = "no" => u # heap'.buf)
             /\ "unit" \notin Needs =>
                  (heap'.uptodate => Mapped(heap') = Mapped(heap) /\ heap'.listed = heap.listed)
  <2>1. h.areas = heap.areas /\ h \in HeapType
    BY <1>4 DEF Larger, Sound
  <2>2. /\ heap' \in HeapType /\ heap'.areas = h.areas
        /\ heap'.units = h.units /\ heap'.dead = h.dead /\ heap'.size = h.size
        /\ heap'.others = n /\ heap'.buf = h.buf /\ heap'.ended = h.ended
        /\ heap'.uptodate = h.uptodate /\ heap'.pending = h.pending
        /\ heap'.listed = h.listed /\ heap'.slots = h.slots
    BY <2>1, <1>4 DEF HeapType
  <2>3. Live(heap') = Live(h) /\ Dead(heap') = Dead(h) /\ Mapped(heap') = Mapped(h)
    BY <2>2 DEF Live, Dead, Mapped
  <2>4. HeapOK(heap')
    BY <2>1, <2>2, <2>3, <1>4 DEF HeapOK, Sound, ListsOK, Covered, BufOK, Fits
  <2> QED
    BY <2>2, <2>3, <2>4, <1>4 DEF Larger
<1>5. CASE errand[t].use = "add" /\ \E h \in Grown(heap) : heap' = [h EXCEPT !.others = @ + 1]
  <2>1. PICK h \in Grown(heap) : heap' = [h EXCEPT !.others = @ + 1]
    BY <1>5
  <2>2. /\ Sound(h, heap.areas) /\ BufOK(h) /\ Larger(heap, h)
        /\ Cardinality(h.areas) + h.others < h.slots
    BY Known, GrownIs DEF HeapOK
  <2>3. h \in HeapType /\ h.areas = heap.areas /\ h.others = heap.others /\ h.slots \in Nat
    BY <2>2 DEF Larger, Sound, HeapType
  <2>4. /\ heap.others + 1 \in 0 .. MaxOthers
        /\ Cardinality(h.areas) + (heap.others + 1) <= h.slots
    BY <2>2, <2>3, <1>1, <1>2, <1>5, Known
  <2>5. heap' = [h EXCEPT !.others = heap.others + 1]
    BY <2>1, <2>3 DEF HeapType
  <2> QED
    BY <2>2, <2>4, <2>5, <1>4
<1>6. CASE errand[t].use = "remove" /\ heap' = [heap EXCEPT !.others = @ - 1]
  <2>1. /\ heap.others - 1 \in 0 .. MaxOthers
        /\ Cardinality(heap.areas) + (heap.others - 1) <= heap.slots
    BY <1>1, <1>2, <1>6, Known DEF HeapOK, Fits
  <2>2. heap' = [heap EXCEPT !.others = heap.others - 1]
    BY <1>6, Known DEF HeapType
  <2>3. Larger(heap, heap)
    <3>1. \A u \in Live(heap) \ {heap.buf} : u # heap.buf
      OBVIOUS
    <3> QED
      BY <3>1, AllDeadKept DEF Larger
  <2> QED
    BY <2>1, <2>2, <2>3, <1>4, Known
<1> QED
  BY <1>3, <1>5, <1>6 DEF Updated

-----------------------------------------------------------------------------
(* Walking from unit to unit. *)
LEMMA FirstIs ==
  ASSUME NEW s \in Seq(Unit)
  PROVE  /\ s = <<>> => First(s) = NoUnit
         /\ s # <<>> => 1 \in DOMAIN s /\ First(s) = s[1] /\ s[1] \in Range(s)
<1>1. s # <<>> => 1 \in DOMAIN s
  <2>1. DOMAIN s = 1 .. Len(s)
    OBVIOUS
  <2> QED
    BY <2>1, EmptySeq
<1> QED
  BY <1>1 DEF First, Range

LEMMA NextOfIs ==
  ASSUME NEW h \in HeapType, NEW u \in Unit
  PROVE  /\ NextOf(h, u) \in Unit \union {NoUnit}
         /\ u \in Live(h) => NextOf(h, u) \in Live(h) \union {NoUnit}
         /\ u \in Dead(h) /\ u \notin Live(h) => NextOf(h, u) \in Dead(h) \union {NoUnit}
<1>1. /\ h.units \in Seq(Unit) /\ h.dead \in Seq(Unit)
      /\ Live(h) \subseteq Unit /\ Dead(h) \subseteq Unit
  BY ListTypes
<1>2. ASSUME NEW s \in Seq(Unit), u \in Range(s)
      PROVE  Place(s, u) # Len(s) => s[Place(s, u) + 1] \in Range(s)
  <2>1. Place(s, u) \in 1 .. Len(s) /\ DOMAIN s = 1 .. Len(s) /\ Len(s) \in Nat
    BY <1>2, PlaceIs
  <2>2. Place(s, u) # Len(s) => Place(s, u) + 1 \in DOMAIN s
    BY <2>1
  <2> QED
    BY <2>2 DEF Range
<1>3. u \in Live(h) => NextOf(h, u) \in Live(h) \union {NoUnit}
  BY <1>1, <1>2 DEF NextOf, Live
<1>4. u \in Dead(h) /\ u \notin Live(h) => NextOf(h, u) \in Dead(h) \union {NoUnit}
  BY <1>1, <1>2 DEF NextOf, Dead
<1>5. u \notin Live(h) /\ u \notin Dead(h) => NextOf(h, u) = u
  BY DEF NextOf
<1> QED
  BY <1>1, <1>3, <1>4, <1>5

-----------------------------------------------------------------------------
(* The locks are with the threads that are where they hold them. *)
LEMMA UnitLocksStep ==
  ASSUME UnitIInv, [Next]_vars
  PROVE  LocksOK'
<1> USE DEF LocksOK
<1>0. /\ pc \in [Thread -> {"out", "tried", "want_areas", "want_global", "reading",
                          "query", "stale", "update", "walk", "reread"}]
      /\ readers \subseteq Thread /\ NoThread \notin Thread
      /\ writer # NoThread => readers = {}
      /\ LocksOK
  BY ThreadAssumption DEF UnitIInv, TypeOK
<1>1. CASE UNCHANGED vars
  BY <1>1, <1>0 DEF vars
<1>2. ASSUME NEW t \in Thread, heap.ended = "no",
             \/ PrivateUnit(t) \/ GlobalTry(t) \/ BackOut(t) \/ LockAreas(t)
             \/ GlobalRetry(t) \/ ReadLock(t) \/ ReadUpToDate(t) \/ ReadStale(t)
             \/ DoneReading(t) \/ WriteLock(t) \/ StartWalk(t) \/ WalkUnit(t)
             \/ WalkFault(t) \/ WalkDead(t) \/ EndWalk(t) \/ Updated(t)
      PROVE  LocksOK'
  <2>1. CASE PrivateUnit(t)
    BY <2>1, <1>0 DEF PrivateUnit, Go, Free
  <2>2. CASE GlobalTry(t)
    BY <2>2, <1>0 DEF GlobalTry, Go, Free
  <2>3. CASE BackOut(t)
    BY <2>3, <1>0 DEF BackOut, Go, Free
  <2>4. CASE LockAreas(t)
    BY <2>4, <1>0 DEF LockAreas, Go, Free
  <2>5. CASE GlobalRetry(t)
    BY <2>5, <1>0 DEF GlobalRetry, Go, Free
  <2>6. CASE ReadLock(t)
    BY <2>6, <1>0 DEF ReadLock, Go
  <2>7. CASE ReadUpToDate(t)
    BY <2>7, <1>0 DEF ReadUpToDate, Go, Free
  <2>8. CASE ReadStale(t)
    BY <2>8, <1>0 DEF ReadStale, Go, Free
  <2>9. CASE DoneReading(t)
    BY <2>9, <1>0 DEF DoneReading, Go, Free
  <2>10. CASE WriteLock(t)
    BY <2>10, <1>0 DEF WriteLock, Go, Free
  <2>11. CASE StartWalk(t)
    BY <2>11, <1>0 DEF StartWalk, Go, Free
  <2>12. CASE WalkUnit(t)
    BY <2>12, <1>0 DEF WalkUnit, Go, Free
  <2>13. CASE WalkFault(t)
    BY <2>13, <1>0 DEF WalkFault, Go, Free
  <2>14. CASE WalkDead(t)
    BY <2>14, <1>0 DEF WalkDead, Go, Free
  <2>15. CASE EndWalk(t)
    BY <2>15, <1>0 DEF EndWalk, Go, Free
  <2>16. CASE Updated(t)
    BY <2>16, <1>0 DEF Updated, Go, Free
  <2> QED
    BY <1>2, <2>1, <2>2, <2>3, <2>4, <2>5, <2>6, <2>7, <2>8, <2>9, <2>10, <2>11,
       <2>12, <2>13, <2>14, <2>15, <2>16
<1> QED
  BY <1>1, <1>2, Steps

(* The heap stays sound. *)
LEMMA UnitHeapStep ==
  ASSUME UnitIInv, [Next]_vars
  PROVE  HeapOK(heap')
<1>0. Freeable \subseteq Live(heap) \ {heap.buf}
  BY DEF Freeable
<1>1. CASE UNCHANGED vars
  BY <1>1, Known DEF vars
<1>2. ASSUME NEW t \in Thread, heap.ended = "no",
             \/ PrivateUnit(t) \/ GlobalTry(t) \/ BackOut(t) \/ LockAreas(t)
             \/ GlobalRetry(t) \/ ReadLock(t) \/ ReadUpToDate(t) \/ ReadStale(t)
             \/ DoneReading(t) \/ WriteLock(t) \/ StartWalk(t) \/ WalkUnit(t)
             \/ WalkFault(t) \/ WalkDead(t) \/ EndWalk(t) \/ Updated(t)
      PROVE  HeapOK(heap')
  <2>1. CASE PrivateUnit(t)
    BY <2>1, MadeHeap, FreedHeap, <1>0 DEF PrivateUnit
  <2>2. CASE GlobalTry(t)
    BY <2>2, Known DEF GlobalTry
  <2>3. CASE BackOut(t)
    BY <2>3, Known DEF BackOut
  <2>4. CASE LockAreas(t)
    BY <2>4, Known DEF LockAreas
  <2>5. CASE GlobalRetry(t)
    BY <2>5, <1>2, MadeHeap, FreedHeap, Known DEF GlobalRetry, UnitIInv, FreesOK
  <2>6. CASE ReadLock(t)
    BY <2>6, Known DEF ReadLock
  <2>7. CASE ReadUpToDate(t)
    BY <2>7, Known DEF ReadUpToDate
  <2>8. CASE ReadStale(t)
    BY <2>8, Known DEF ReadStale
  <2>9. CASE DoneReading(t)
    BY <2>9, Known DEF DoneReading
  <2>10. CASE WriteLock(t)
    BY <2>10, Known DEF WriteLock
  <2>11. CASE StartWalk(t)
    BY <2>11, WalkBegun
  <2>12. CASE WalkUnit(t)
    <3>1. CASE at \in heap.listed
      BY <2>12, <3>1, Known DEF WalkUnit
    <3>2. CASE at \notin heap.listed
      BY <2>12, <3>2, <1>2, WalkAdds
    <3> QED
      BY <3>1, <3>2
  <2>13. CASE WalkFault(t)
    <3>1. /\ heap' \in HeapType /\ heap'.areas = heap.areas /\ heap'.listed = heap.listed
          /\ heap'.units = heap.units /\ heap'.dead = heap.dead /\ heap'.size = heap.size
          /\ heap'.others = heap.others /\ heap'.slots = heap.slots
          /\ heap'.uptodate = heap.uptodate /\ heap'.pending = heap.pending
          /\ heap'.ended = "fault"
      BY <2>13, Known DEF WalkFault, HeapType
    <3>2. Live(heap') = Live(heap) /\ Dead(heap') = Dead(heap) /\ Mapped(heap') = Mapped(heap)
      BY <3>1 DEF Live, Dead, Mapped
    <3> QED
      BY <3>1, <3>2, Known DEF HeapOK, Sound, ListsOK, Covered, BufOK, Fits
  <2>14. CASE WalkDead(t)
    BY <2>14, Known DEF WalkDead
  <2>15. CASE EndWalk(t)
    BY <2>15, Known DEF EndWalk
  <2>16. CASE Updated(t)
    BY <2>16, <1>2, OthersHeap
  <2> QED
    BY <1>2, <2>1, <2>2, <2>3, <2>4, <2>5, <2>6, <2>7, <2>8, <2>9, <2>10, <2>11,
       <2>12, <2>13, <2>14, <2>15, <2>16
<1> QED
  BY <1>1, <1>2, Steps

RestTyped ==
  /\ writer \in Thread \union {NoThread}
  /\ readers \subseteq Thread
  /\ writer # NoThread => readers = {}
  /\ global \in Thread \union {NoThread}
  /\ pc \in [Thread -> {"out", "tried", "want_areas", "want_global", "reading",
                       "query", "stale", "update", "walk", "reread"}]
  /\ errand \in [Thread -> Errand]
  /\ at \in Unit \union {NoUnit}
  /\ list \in {"live", "dead"}

(* Every other variable stays in its set; a reader and a writer exclude each other. *)
LEMMA UnitRestStep ==
  ASSUME UnitIInv, [Next]_vars
  PROVE  RestTyped'
<1> USE DEF RestTyped
<1>0. /\ RestTyped
      /\ Read \in Errand /\ (\A n \in {Normal, Large} : [alloc |-> n] \in Errand)
      /\ (\A u \in Unit : [free |-> u] \in Errand)
      /\ [use |-> "add"] \in Errand /\ [use |-> "remove"] \in Errand
  <2>1. RestTyped
    BY DEF UnitIInv, TypeOK
  <2>2. /\ Read \in Errand /\ (\A n \in {Normal, Large} : [alloc |-> n] \in Errand)
        /\ (\A u \in Unit : [free |-> u] \in Errand)
        /\ [use |-> "add"] \in Errand /\ [use |-> "remove"] \in Errand
    BY DEF Errand, Read
  <2> QED
    BY <2>1, <2>2
<1>3. /\ heap.units \in Seq(Unit) /\ heap.dead \in Seq(Unit)
      /\ Live(heap) \subseteq Unit /\ Dead(heap) \subseteq Unit
  BY Known, ListTypes
<1>4. Freeable \subseteq Unit
  BY <1>3 DEF Freeable
<1>1. CASE UNCHANGED vars
  BY <1>1, <1>0 DEF vars
<1>2. ASSUME NEW t \in Thread, heap.ended = "no",
             \/ PrivateUnit(t) \/ GlobalTry(t) \/ BackOut(t) \/ LockAreas(t)
             \/ GlobalRetry(t) \/ ReadLock(t) \/ ReadUpToDate(t) \/ ReadStale(t)
             \/ DoneReading(t) \/ WriteLock(t) \/ StartWalk(t) \/ WalkUnit(t)
             \/ WalkFault(t) \/ WalkDead(t) \/ EndWalk(t) \/ Updated(t)
      PROVE  RestTyped'
  <2>1. CASE PrivateUnit(t)
    BY <2>1, <1>0 DEF PrivateUnit, Go, Free
  <2>2. CASE GlobalTry(t)
    BY <2>2, <1>0, <1>4 DEF GlobalTry, Go, Free
  <2>3. CASE BackOut(t)
    BY <2>3, <1>0 DEF BackOut, Go, Free
  <2>4. CASE LockAreas(t)
    BY <2>4, <1>0 DEF LockAreas, Go, Free
  <2>5. CASE GlobalRetry(t)
    BY <2>5, <1>0 DEF GlobalRetry, Go, Free
  <2>6. CASE ReadLock(t)
    BY <2>6, <1>0 DEF ReadLock, Go
  <2>7. CASE ReadUpToDate(t)
    BY <2>7, <1>0 DEF ReadUpToDate, Go, Free
  <2>8. CASE ReadStale(t)
    BY <2>8, <1>0 DEF ReadStale, Go, Free
  <2>9. CASE DoneReading(t)
    BY <2>9, <1>0 DEF DoneReading, Go, Free
  <2>10. CASE WriteLock(t)
    BY <2>10, <1>0 DEF WriteLock, Go, Free
  <2>11. CASE StartWalk(t)
    BY <2>11, <1>0, <1>3, FirstIs DEF StartWalk, Go
  <2>12. CASE WalkUnit(t)
    <3>1. at' \in Unit \union {NoUnit}
      <4>1. CASE at \in heap.listed
        BY <2>12, <4>1, <1>0, Known, NextOfIs DEF WalkUnit
      <4>2. CASE at \notin heap.listed
        <5>1. heap' \in HeapType /\ at' \in {NextOf(heap, at), NextOf(heap', at)} /\ at \in Unit
          BY <2>12, <4>2, <1>2, <1>0, WalkAdds DEF WalkUnit, HeapOK, Sound
        <5> QED
          BY <5>1, Known, NextOfIs
      <4> QED
        BY <4>1, <4>2
    <3> QED
      BY <2>12, <3>1, <1>0 DEF WalkUnit
  <2>13. CASE WalkFault(t)
    BY <2>13, <1>0 DEF WalkFault, Go, Free
  <2>14. CASE WalkDead(t)
    BY <2>14, <1>0, <1>3, FirstIs DEF WalkDead
  <2>15. CASE EndWalk(t)
    BY <2>15, <1>0 DEF EndWalk, Go, Free
  <2>16. CASE Updated(t)
    BY <2>16, <1>0 DEF Updated, Go, Free
  <2> QED
    BY <1>2, <2>1, <2>2, <2>3, <2>4, <2>5, <2>6, <2>7, <2>8, <2>9, <2>10, <2>11,
       <2>12, <2>13, <2>14, <2>15, <2>16
<1> QED
  BY <1>1, <1>2, Steps

(* What a thread is there for can be done when its time comes. *)
LEMMA UnitErrandStep ==
  ASSUME UnitIInv, NEW v \in Thread, [Next]_vars
  PROVE  ErrandOK(v)'
<1> USE DEF ErrandOK
<1>0. /\ pc \in [Thread -> {"out", "tried", "want_areas", "want_global", "reading",
                          "query", "stale", "update", "walk", "reread"}]
      /\ errand \in [Thread -> Errand] /\ LocksOK /\ ErrandOK(v)
      /\ Read = [use |-> "read"]
      /\ \A n \in {"read", "add", "remove"} :
            [use |-> n] \in [use : {"read", "add", "remove"}] /\ [use |-> n].use = n
  BY DEF UnitIInv, TypeOK, Read
<1>3. /\ \A n \in {Normal, Large} : \A h \in CreateUnit(heap, n) : h.others = heap.others
      /\ \A u \in Live(heap) \ {heap.buf} : FreeUnit(heap, u).others = heap.others
  BY MadeHeap, FreedHeap DEF Made, Unmade, Kept
<1>4. Freeable \subseteq Live(heap) \ {heap.buf} /\ Live(heap) \subseteq Unit
  BY Known DEF Freeable
<1>5. /\ \A n \in {Normal, Large} : [alloc |-> n] \in [alloc : {Normal, Large}]
      /\ \A u \in Freeable : [free |-> u] \in [free : Unit]
  BY <1>4
<1>1. CASE UNCHANGED vars
  BY <1>1, <1>0 DEF vars
<1>2. ASSUME NEW t \in Thread, heap.ended = "no",
             \/ PrivateUnit(t) \/ GlobalTry(t) \/ BackOut(t) \/ LockAreas(t)
             \/ GlobalRetry(t) \/ ReadLock(t) \/ ReadUpToDate(t) \/ ReadStale(t)
             \/ DoneReading(t) \/ WriteLock(t) \/ StartWalk(t) \/ WalkUnit(t)
             \/ WalkFault(t) \/ WalkDead(t) \/ EndWalk(t) \/ Updated(t)
      PROVE  ErrandOK(v)'
  <2>1. CASE PrivateUnit(t)
    <3>1. heap'.others = heap.others
      BY <2>1, <1>3, <1>4 DEF PrivateUnit
    <3> QED
      BY <2>1, <3>1, <1>0 DEF PrivateUnit
  <2>2. CASE GlobalTry(t)
    BY <2>2, <1>0, <1>5 DEF GlobalTry, Go
  <2>3. CASE BackOut(t)
    BY <2>3, <1>0 DEF BackOut, Go
  <2>4. CASE LockAreas(t)
    BY <2>4, <1>0 DEF LockAreas, Go
  <2>5. CASE GlobalRetry(t)
    <3>1. heap'.others = heap.others
      BY <2>5, <1>2, <1>3, <1>4, Known DEF GlobalRetry, UnitIInv, FreesOK
    <3> QED
      BY <2>5, <3>1, <1>0 DEF GlobalRetry, Go
  <2>6. CASE ReadLock(t)
    BY <2>6, <1>0 DEF ReadLock, Go
  <2>7. CASE ReadUpToDate(t)
    BY <2>7, <1>0 DEF ReadUpToDate, Go
  <2>8. CASE ReadStale(t)
    BY <2>8, <1>0 DEF ReadStale, Go
  <2>9. CASE DoneReading(t)
    BY <2>9, <1>0 DEF DoneReading, Go
  <2>10. CASE WriteLock(t)
    BY <2>10, <1>0 DEF WriteLock, Go
  <2>11. CASE StartWalk(t)
    <3>1. heap'.others = heap.others
      BY <2>11, WalkBegun
    <3> QED
      BY <2>11, <3>1, <1>0 DEF StartWalk, Go
  <2>12. CASE WalkUnit(t)
    <3>1. heap'.others = heap.others
      BY <2>12, <1>2, WalkAdds DEF WalkUnit
    <3> QED
      BY <2>12, <3>1, <1>0 DEF WalkUnit
  <2>13. CASE WalkFault(t)
    <3>1. heap'.others = heap.others
      BY <2>13, Known DEF WalkFault, HeapType
    <3> QED
      BY <2>13, <3>1, <1>0 DEF WalkFault
  <2>14. CASE WalkDead(t)
    BY <2>14, <1>0 DEF WalkDead, Go
  <2>15. CASE EndWalk(t)
    BY <2>15, <1>0 DEF EndWalk, Go
  <2>16. CASE Updated(t)
    <3>1. pc[t] = "update" /\ writer = t
      BY <2>16, <1>0 DEF Updated, LocksOK
    <3>2. v # t => pc[v] \notin {"update", "walk"}
      BY <3>1, <1>0 DEF LocksOK
    <3> QED
      BY <2>16, <3>1, <3>2, <1>0 DEF Updated, Go
  <2> QED
    BY <1>2, <2>1, <2>2, <2>3, <2>4, <2>5, <2>6, <2>7, <2>8, <2>9, <2>10, <2>11,
       <2>12, <2>13, <2>14, <2>15, <2>16
<1> QED
  BY <1>1, <1>2, Steps

(* Nobody frees a unit that is being freed, or the vector's own. *)
LEMMA UnitFreesStep ==
  ASSUME UnitIInv, [Next]_vars
  PROVE  FreesOK'
<1>0. FreesOK /\ errand \in [Thread -> Errand]
  BY DEF UnitIInv, TypeOK
<1>3. Freeable \subseteq Live(heap) \ {heap.buf} /\ Live(heap) \subseteq Unit
  BY Known DEF Freeable
<1>1. CASE UNCHANGED vars
  BY <1>1, <1>0 DEF vars, FreesOK
<1>2. ASSUME NEW t \in Thread, heap.ended = "no",
             \/ PrivateUnit(t) \/ GlobalTry(t) \/ BackOut(t) \/ LockAreas(t)
             \/ GlobalRetry(t) \/ ReadLock(t) \/ ReadUpToDate(t) \/ ReadStale(t)
             \/ DoneReading(t) \/ WriteLock(t) \/ StartWalk(t) \/ WalkUnit(t)
             \/ WalkFault(t) \/ WalkDead(t) \/ EndWalk(t) \/ Updated(t)
      PROVE  FreesOK'
  <2>1. CASE PrivateUnit(t)
    <3>1. CASE \E n \in {Normal, Large} : heap' \in CreateUnit(heap, n)
      <4>1. Live(heap) \subseteq Live(heap') /\ heap'.buf = heap.buf /\ errand' = errand
        BY <2>1, <3>1, MadeHeap DEF PrivateUnit, Made, Kept
      <4> QED
        BY <4>1, <1>0, <1>2 DEF FreesOK
    <3>2. ASSUME NEW u \in Freeable, heap' = FreeUnit(heap, u) PROVE FreesOK'
      <4>1. Live(heap') = Live(heap) \ {u} /\ heap'.buf = heap.buf /\ errand' = errand
        BY <2>1, <3>2, <1>3, FreedHeap DEF PrivateUnit, Unmade, Kept
      <4>2. \A v \in Thread : errand[v] # [free |-> u]
        BY DEF Freeable
      <4> QED
        BY <4>1, <4>2, <1>0, <1>2 DEF FreesOK
    <3> QED
      BY <2>1, <3>1, <3>2 DEF PrivateUnit
  <2>2. CASE GlobalTry(t)
    <3>1. CASE \E n \in {Normal, Large} : errand' = [errand EXCEPT ![t] = [alloc |-> n]]
      <4>1. heap' = heap
        BY <2>2 DEF GlobalTry
      <4> QED
        BY <3>1, <4>1, <1>0, <1>2, Errands DEF FreesOK
    <3>2. ASSUME NEW u \in Freeable, errand' = [errand EXCEPT ![t] = [free |-> u]] PROVE FreesOK'
      <4>1. heap' = heap /\ u \in Unit
        BY <2>2, <1>3 DEF GlobalTry
      <4>2. \A v \in Thread : errand[v] # [free |-> u]
        BY DEF Freeable
      <4>3. \A v \in Thread : errand'[v] = IF v = t THEN [free |-> u] ELSE errand[v]
        BY <3>2, <1>0
      <4> QED
        BY <4>1, <4>2, <4>3, <1>0, <1>2, <1>3, Errands DEF FreesOK
    <3> QED
      BY <2>2, <3>1, <3>2 DEF GlobalTry
  <2>3. CASE BackOut(t)
    BY <2>3, <1>0, <1>2 DEF BackOut, FreesOK
  <2>4. CASE LockAreas(t)
    BY <2>4, <1>0, <1>2 DEF LockAreas, FreesOK
  <2>5. CASE GlobalRetry(t)
    <3>0. errand' = [errand EXCEPT ![t] = Read]
      BY <2>5 DEF GlobalRetry
    <3>1. ASSUME NEW n \in {Normal, Large}, heap' \in CreateUnit(heap, n) \union {heap}
          PROVE  FreesOK'
      <4>1. Live(heap) \subseteq Live(heap') /\ heap'.buf = heap.buf
        BY <3>1, MadeHeap DEF Made, Kept
      <4> QED
        BY <3>0, <4>1, <1>0, <1>2, Errands DEF FreesOK, Read
    <3>2. ASSUME NEW u \in Unit, errand[t] = [free |-> u], heap' = FreeUnit(heap, u)
          PROVE  FreesOK'
      <4>1. u \in Live(heap) \ {heap.buf} /\ \A v \in Thread \ {t} : errand[v] # [free |-> u]
        BY <3>2, <1>0, <1>2 DEF FreesOK
      <4>2. Live(heap') = Live(heap) \ {u} /\ heap'.buf = heap.buf
        BY <3>2, <4>1, FreedHeap DEF Unmade, Kept
      <4> QED
        BY <3>0, <4>1, <4>2, <1>0, <1>2, Errands DEF FreesOK, Read
    <3> QED
      BY <2>5, <3>1, <3>2 DEF GlobalRetry
  <2>6. CASE ReadLock(t)
    BY <2>6, <1>0, <1>2 DEF ReadLock, FreesOK
  <2>7. CASE ReadUpToDate(t)
    BY <2>7, <1>0, <1>2 DEF ReadUpToDate, FreesOK
  <2>8. CASE ReadStale(t)
    BY <2>8, <1>0, <1>2 DEF ReadStale, FreesOK
  <2>9. CASE DoneReading(t)
    BY <2>9, <1>0, <1>2 DEF DoneReading, FreesOK
  <2>10. CASE WriteLock(t)
    BY <2>10, <1>0, <1>2, Errands DEF WriteLock, FreesOK
  <2>11. CASE StartWalk(t)
    <3>1. Live(heap') = Live(heap) /\ heap'.buf = heap.buf /\ errand' = errand
      BY <2>11, WalkBegun DEF StartWalk, Live
    <3> QED
      BY <3>1, <1>0, <1>2 DEF FreesOK
  <2>12. CASE WalkUnit(t)
    <3>1. CASE at \in heap.listed
      BY <2>12, <3>1, <1>0, <1>2 DEF WalkUnit, FreesOK
    <3>2. CASE at \notin heap.listed
      <4>1. /\ errand' = errand
            /\ \A u \in Live(heap) \ {heap.buf} :
                  u \in Live(heap') /\ (heap'.ended = "no" => u # heap'.buf)
        BY <2>12, <3>2, <1>2, WalkAdds DEF WalkUnit
      <4> QED
        BY <4>1, <1>0, <1>2 DEF FreesOK
    <3> QED
      BY <3>1, <3>2
  <2>13. CASE WalkFault(t)
    <3>1. heap'.ended = "fault"
      BY <2>13, Known DEF WalkFault, HeapType
    <3> QED
      BY <3>1 DEF FreesOK
  <2>14. CASE WalkDead(t)
    BY <2>14, <1>0, <1>2 DEF WalkDead, FreesOK
  <2>15. CASE EndWalk(t)
    BY <2>15, <1>0, <1>2 DEF EndWalk, FreesOK
  <2>16. CASE Updated(t)
    <3>1. /\ errand' = [errand EXCEPT ![t] = Read]
          /\ \A u \in Live(heap) \ {heap.buf} :
                u \in Live(heap') /\ (heap'.ended = "no" => u # heap'.buf)
      BY <2>16, <1>2, OthersHeap DEF Updated
    <3> QED
      BY <3>1, <1>0, <1>2, Errands DEF FreesOK, Read
  <2> QED
    BY <1>2, <2>1, <2>2, <2>3, <2>4, <2>5, <2>6, <2>7, <2>8, <2>9, <2>10, <2>11,
       <2>12, <2>13, <2>14, <2>15, <2>16
<1> QED
  BY <1>1, <1>2, Steps

(* Nothing makes the vector stale while a thread reads it. *)
LEMMA UnitQueryStep ==
  ASSUME UnitIInv, [Next]_vars
  PROVE  QueryOK'
<1> USE DEF QueryOK
<1>0. /\ pc \in [Thread -> {"out", "tried", "want_areas", "want_global", "reading",
                          "query", "stale", "update", "walk", "reread"}]
      /\ NoThread \notin Thread /\ (writer # NoThread => readers = {}) /\ LocksOK /\ QueryOK
  BY ThreadAssumption DEF UnitIInv, TypeOK
<1>3. /\ \A v \in Thread : pc[v] = "query" => v \in readers
      /\ \A v \in Thread : pc[v] \in {"want_global", "update", "walk"} => readers = {}
  BY <1>0 DEF LocksOK
<1>1. CASE UNCHANGED vars
  BY <1>1, <1>0 DEF vars
<1>2. ASSUME NEW t \in Thread, heap.ended = "no",
             \/ PrivateUnit(t) \/ GlobalTry(t) \/ BackOut(t) \/ LockAreas(t)
             \/ GlobalRetry(t) \/ ReadLock(t) \/ ReadUpToDate(t) \/ ReadStale(t)
             \/ DoneReading(t) \/ WriteLock(t) \/ StartWalk(t) \/ WalkUnit(t)
             \/ WalkFault(t) \/ WalkDead(t) \/ EndWalk(t) \/ Updated(t)
      PROVE  QueryOK'
  <2>1. CASE PrivateUnit(t)
    BY <2>1, <1>0, <1>3 DEF PrivateUnit, Free
  <2>2. CASE GlobalTry(t)
    BY <2>2, <1>0, <1>3 DEF GlobalTry, Go, Free
  <2>3. CASE BackOut(t)
    BY <2>3, <1>0, <1>3 DEF BackOut, Go, Free
  <2>4. CASE LockAreas(t)
    BY <2>4, <1>0, <1>3 DEF LockAreas, Go, Free
  <2>5. CASE GlobalRetry(t)
    BY <2>5, <1>0, <1>3 DEF GlobalRetry, Go, Free
  <2>6. CASE ReadLock(t)
    BY <2>6, <1>0, <1>3 DEF ReadLock, Go, Free
  <2>7. CASE ReadUpToDate(t)
    BY <2>7, <1>0, <1>3 DEF ReadUpToDate, Go, Free
  <2>8. CASE ReadStale(t)
    BY <2>8, <1>0, <1>3 DEF ReadStale, Go, Free
  <2>9. CASE DoneReading(t)
    BY <2>9, <1>0, <1>3 DEF DoneReading, Go, Free
  <2>10. CASE WriteLock(t)
    BY <2>10, <1>0, <1>3 DEF WriteLock, Go, Free
  <2>11. CASE StartWalk(t)
    BY <2>11, <1>0, <1>3 DEF StartWalk, Go, Free
  <2>12. CASE WalkUnit(t)
    BY <2>12, <1>0, <1>3 DEF WalkUnit, Go, Free
  <2>13. CASE WalkFault(t)
    BY <2>13, <1>0, <1>3 DEF WalkFault, Go, Free
  <2>14. CASE WalkDead(t)
    BY <2>14, <1>0, <1>3 DEF WalkDead, Go, Free
  <2>15. CASE EndWalk(t)
    BY <2>15, <1>0, <1>3 DEF EndWalk, Go, Free
  <2>16. CASE Updated(t)
    BY <2>16, <1>0, <1>3 DEF Updated, Go, Free
  <2> QED
    BY <1>2, <2>1, <2>2, <2>3, <2>4, <2>5, <2>6, <2>7, <2>8, <2>9, <2>10, <2>11,
       <2>12, <2>13, <2>14, <2>15, <2>16
<1> QED
  BY <1>1, <1>2, Steps

LEMMA UnitNextIInv == UnitIInv /\ [Next]_vars => UnitIInv'
<1> SUFFICES ASSUME UnitIInv, [Next]_vars PROVE UnitIInv'
  OBVIOUS
<1>1. HeapOK(heap')
  BY UnitHeapStep
<1>2. RestTyped'
  BY UnitRestStep
<1>3. TypeOK'
  BY <1>1, <1>2 DEF TypeOK, RestTyped, HeapOK, Sound, HeapType, Fits
<1>4. Sound(heap, heap.areas)' /\ BufOK(heap)'
  BY <1>1 DEF HeapOK
<1>5. LocksOK' /\ (\A t \in Thread : ErrandOK(t)') /\ FreesOK' /\ QueryOK'
  BY UnitLocksStep, UnitErrandStep, UnitFreesStep, UnitQueryStep
<1> QED
  BY <1>3, <1>4, <1>5 DEF UnitIInv

(* The units, the vector and the two locks, in every state. *)
THEOREM UnitInvariance == Spec => []UnitIInv
BY UnitInitIInv, UnitNextIInv, PTL DEF Spec

(* Types; the vector has a slot for every area in it; and readers and a     *)
(* writer of the areas' lock exclude each other.                            *)
THEOREM UnitTypeCorrect == Spec => []TypeOK
<1>1. UnitIInv => TypeOK
  BY DEF UnitIInv
<1> QED
  BY <1>1, UnitInvariance, PTL

(* A list without repetitions is as long as the set of what is on it. *)
LEMMA LengthCounts ==
  ASSUME NEW s \in Seq(Unit), Once(s)
  PROVE  IsFiniteSet(Range(s)) /\ Cardinality(Range(s)) = Len(s)
<1>1. Len(s) \in Nat /\ DOMAIN s = 1 .. Len(s) /\ s \in [1 .. Len(s) -> Range(s)]
  <2>1. Len(s) \in Nat /\ DOMAIN s = 1 .. Len(s) /\ s \in [1 .. Len(s) -> Unit]
    BY LenProperties
  <2> QED
    BY <2>1 DEF Range
<1>2. IsFiniteSet(1 .. Len(s)) /\ Cardinality(1 .. Len(s)) = Len(s)
  BY <1>1, FS_Interval
<1>3. s \in Bijection(1 .. Len(s), Range(s))
  BY <1>1 DEF Once, Range, Bijection, Injection, Surjection, IsInjective
<1> QED
  BY <1>2, <1>3, FS_Bijection DEF ExistsBijection

(* Every unit that has memory is on one list, once: heap_create_unit,       *)
(* heap_free_unit, low memory and the growth of the vector lose none.       *)
THEOREM NoUnitLost == Spec => []UnitsListedOnce
<1>1. ASSUME UnitIInv PROVE UnitsListedOnce
  <2>1. /\ heap.units \in Seq(Unit) /\ heap.dead \in Seq(Unit)
        /\ Once(heap.units) /\ Once(heap.dead)
        /\ Live(heap) \cap Dead(heap) = {} /\ Mapped(heap) = Live(heap) \union Dead(heap)
    BY <1>1, Known, ListTypes DEF Sound, ListsOK
  <2>2. /\ IsFiniteSet(Live(heap)) /\ Cardinality(Live(heap)) = Len(heap.units)
        /\ IsFiniteSet(Dead(heap)) /\ Cardinality(Dead(heap)) = Len(heap.dead)
    BY <2>1, LengthCounts DEF Live, Dead
  <2>3. Cardinality(Live(heap) \union Dead(heap)) = Len(heap.units) + Len(heap.dead)
    <3>1. /\ Cardinality(Live(heap) \union Dead(heap))
               = Cardinality(Live(heap)) + Cardinality(Dead(heap))
                   - Cardinality(Live(heap) \cap Dead(heap))
      BY <2>2, FS_Union
    <3>2. Len(heap.units) \in Nat /\ Len(heap.dead) \in Nat
      BY <2>1
    <3>3. Cardinality(Live(heap) \cap Dead(heap)) = 0
      BY <2>1, FS_EmptySet
    <3> QED
      BY <2>2, <3>1, <3>2, <3>3
  <2> QED
    BY <2>1, <2>3 DEF UnitsListedOnce
<1> QED
  BY <1>1, UnitInvariance, PTL

-----------------------------------------------------------------------------
(* The walk, when the vector does not take units that it shares. *)
After(s, u) == IF Place(s, u) = Len(s) THEN NoUnit ELSE s[Place(s, u) + 1]

LEMMA OnwardIs ==
  ASSUME NEW s \in Seq(Unit), Once(s)
  PROVE  /\ Onward(s, NoUnit) = {}
         /\ Range(s) \subseteq Onward(s, First(s))
         /\ \A u \in Range(s) : /\ Onward(s, u) \subseteq {u} \union Onward(s, After(s, u))
                              /\ After(s, u) # u
                              /\ After(s, u) \in Range(s) \union {NoUnit}
<1>1. /\ Len(s) \in Nat /\ DOMAIN s = 1 .. Len(s) /\ Range(s) \subseteq Unit
      /\ \A u \in Range(s) : Place(s, u) \in 1 .. Len(s) /\ s[Place(s, u)] = u
  <2>1. DOMAIN s = 1 .. Len(s) /\ Len(s) \in Nat /\ \A i \in DOMAIN s : s[i] \in Unit
    BY LenProperties
  <2> QED
    BY <2>1, PlaceIs DEF Range
<1>2. Onward(s, NoUnit) = {}
  BY <1>1, UnitAssumption DEF Onward
<1>3. \A i \in 1 .. Len(s) : s[i] \in Range(s) /\ Place(s, s[i]) = i
  <2> SUFFICES ASSUME NEW i \in 1 .. Len(s) PROVE s[i] \in Range(s) /\ Place(s, s[i]) = i
    OBVIOUS
  <2>1. s[i] \in Range(s)
    BY <1>1 DEF Range
  <2>2. Place(s, s[i]) \in DOMAIN s /\ s[Place(s, s[i])] = s[i]
    BY <2>1, <1>1
  <2> QED
    BY <2>1, <2>2, <1>1 DEF Once
<1>4. Range(s) \subseteq Onward(s, First(s))
  <2>1. CASE s = <<>>
    BY <2>1, NothingThere
  <2>2. CASE s # <<>>
    <3>1. 1 \in 1 .. Len(s) /\ First(s) = s[1] /\ s[1] \in Range(s)
      BY <2>2, <1>1, FirstIs
    <3>2. Place(s, First(s)) = 1
      BY <3>1, <1>3
    <3>3. Onward(s, First(s)) = {s[j] : j \in 1 .. Len(s)}
      BY <3>1, <3>2 DEF Onward
    <3> QED
      BY <3>3, <1>1 DEF Range
  <2> QED
    BY <2>1, <2>2
<1>5. ASSUME NEW u \in Range(s)
      PROVE  /\ Onward(s, u) \subseteq {u} \union Onward(s, After(s, u))
             /\ After(s, u) # u
             /\ After(s, u) \in Range(s) \union {NoUnit}
  <2> DEFINE i == Place(s, u)
  <2>1. i \in 1 .. Len(s) /\ s[i] = u /\ u \in Unit
    BY <1>1
  <2>2. Onward(s, u) = {s[j] : j \in i .. Len(s)}
    BY DEF Onward
  <2>3. CASE i = Len(s)
    <3>1. After(s, u) = NoUnit
      BY <2>3 DEF After
    <3>2. \A j \in i .. Len(s) : j = i
      BY <2>1, <2>3, <1>1
    <3> HIDE DEF i
    <3> QED
      BY <3>1, <3>2, <2>1, <2>2, UnitAssumption
  <2>4. CASE i # Len(s)
    <3>1. After(s, u) = s[i + 1]
      BY <2>4 DEF After
    <3>2. i + 1 \in 1 .. Len(s)
      <4>1. Len(s) \in Nat /\ i \in 1 .. Len(s) /\ i # Len(s)
        BY <1>1, <2>1, <2>4
      <4> HIDE DEF i
      <4> QED
        BY <4>1
    <3> HIDE DEF i
    <3>3. s[i + 1] \in Range(s) /\ Place(s, s[i + 1]) = i + 1
      BY <3>2, <1>3
    <3>4. s[i + 1] # u
      <4>1. i + 1 # i
        BY <2>1
      <4> QED
        BY <4>1, <3>2, <2>1, <1>1 DEF Once
    <3>5. Onward(s, s[i + 1]) = {s[j] : j \in i + 1 .. Len(s)}
      BY <3>3 DEF Onward
    <3>6. \A j \in i .. Len(s) : j = i \/ j \in i + 1 .. Len(s)
      BY <2>1, <1>1
    <3>7. Onward(s, u) \subseteq {u} \union Onward(s, s[i + 1])
      BY <3>5, <3>6, <2>1, <2>2
    <3> QED
      BY <3>1, <3>3, <3>4, <3>7
  <2> QED
    BY <2>3, <2>4
<1> QED
  BY <1>2, <1>4, <1>5

LEMMA NextOfAfter ==
  ASSUME NEW h, NEW u
  PROVE  /\ u \in Live(h) => NextOf(h, u) = After(h.units, u)
         /\ u \in Dead(h) /\ u \notin Live(h) => NextOf(h, u) = After(h.dead, u)
BY DEF NextOf, After

(* Nothing that a walk depends on has changed. *)
LEMMA SameWalk ==
  ASSUME WalkOK, heap' = heap, at' = at, list' = list, Walking' <=> Walking
  PROVE  WalkOK'
BY DEF WalkOK, Here, Ahead, WalkSurvives

(* Only one thread walks, and nobody else changes units meanwhile. *)
LEMMA OneWalks ==
  ASSUME UnitIInv
  PROVE  /\ Walking <=> \E t \in Thread : writer = t /\ pc[t] = "walk"
         /\ \A t \in Thread : pc[t] = "walk" => writer = t
         /\ \A t \in Thread : pc[t] \in {"want_global", "update"} => ~Walking
         /\ Free => ~Walking
BY ThreadAssumption DEF UnitIInv, LocksOK, Walking, Free

(* A change of the units between walks: what is new is not up to date. *)
LEMMA NoWalk ==
  ASSUME WalkOK, ~Walking, ~Walking', heap'.ended # "fault",
         "unit" \notin Needs =>
            (heap'.uptodate => heap.uptodate /\ Mapped(heap') = Mapped(heap)
                               /\ heap'.listed = heap.listed)
  PROVE  WalkOK'
BY DEF WalkOK, WalkSurvives

(* A walk begins before the first live unit. *)
LEMMA WalkBegins ==
  ASSUME UnitIInv, heap.ended = "no", NEW t \in Thread, StartWalk(t)
  PROVE  WalkOK'
<1>1. /\ heap'.units = heap.units /\ heap'.dead = heap.dead /\ heap'.ended = "no"
      /\ Sound(heap', heap'.areas)
  BY WalkBegun DEF HeapOK
<1>2. at' = First(heap.units) /\ list' = "live" /\ Walking'
  <2>1. pc \in [Thread -> {"out", "tried", "want_areas", "want_global", "reading",
                          "query", "stale", "update", "walk", "reread"}]
    BY DEF UnitIInv, TypeOK
  <2> QED
    BY <2>1 DEF StartWalk, Go, Walking
<1>3. /\ heap.units \in Seq(Unit) /\ Once(heap.units)
      /\ Live(heap') = Live(heap) /\ Dead(heap') = Dead(heap)
      /\ Mapped(heap') = Live(heap') \union Dead(heap')
  BY <1>1, Known, ListTypes DEF Sound, ListsOK, Live, Dead
<1>4. Live(heap') \subseteq Onward(heap'.units, at')
  BY <1>1, <1>2, <1>3, OnwardIs DEF Live
<1>5. Here'
  BY <1>1, <1>2, <1>3, FirstIs DEF Here, Live
<1>6. Mapped(heap') \subseteq Ahead'
  BY <1>2, <1>3, <1>4 DEF Ahead
<1> QED
  BY <1>1, <1>2, <1>5, <1>6 DEF WalkOK, WalkSurvives

(* It goes on to the next unit, after adding this one. *)
LEMMA WalkGoesOn ==
  ASSUME UnitIInv, WalkOK, heap.ended = "no",
         NEW t \in Thread, WalkUnit(t)
  PROVE  WalkOK'
<1>1. /\ at \in Unit /\ pc[t] = "walk" /\ pc' = pc /\ list' = list
      /\ Walking /\ (Walking' <=> Walking) /\ list \in {"live", "dead"}
  BY DEF WalkUnit, UnitIInv, TypeOK, Walking
<1>2. Here \/ (list = "dead" /\ heap.dead = <<>>)
  BY <1>1 DEF WalkOK
<1>3. "unit" \notin Needs /\ heap.uptodate
         => Here /\ Mapped(heap) \ heap.listed \subseteq Ahead
  BY <1>1 DEF WalkOK
<1>4. /\ heap \in HeapType /\ heap.units \in Seq(Unit) /\ heap.dead \in Seq(Unit)
      /\ Once(heap.units) /\ Once(heap.dead) /\ Live(heap) \cap Dead(heap) = {}
  BY Known, ListTypes DEF Sound, ListsOK
<1> DEFINE next == NextOf(heap, at)
<1>5. CASE at \in heap.listed
  <2>1. heap' = heap /\ at' = next
    BY <1>5 DEF WalkUnit
  <2>2. Here => Here'
    <3>1. list = "live" /\ at \in Live(heap) => next \in Live(heap) \union {NoUnit}
      BY <1>1, <1>4, NextOfIs
    <3>2. list = "dead" /\ at \in Dead(heap) => next \in Dead(heap) \union {NoUnit}
      BY <1>1, <1>4, NextOfIs
    <3> HIDE DEF next
    <3> QED
      BY <2>1, <3>1, <3>2, <1>1, UnitAssumption DEF Here
  <2>3. Here => Ahead \subseteq {at} \union Ahead'
    <3>1. CASE list = "live" /\ at \in Live(heap)
      <4>1. Onward(heap.units, at) \subseteq {at} \union Onward(heap.units, next)
        BY <3>1, <1>4, OnwardIs, NextOfAfter DEF Live
      <4> HIDE DEF next
      <4> QED
        BY <4>1, <2>1, <1>1, <3>1 DEF Ahead
    <3>2. CASE list = "dead" /\ at \in Dead(heap)
      <4>1. Onward(heap.dead, at) \subseteq {at} \union Onward(heap.dead, next)
        BY <3>2, <1>4, OnwardIs, NextOfAfter DEF Dead
      <4> HIDE DEF next
      <4> QED
        BY <4>1, <2>1, <1>1, <3>2 DEF Ahead
    <3> QED
      BY <3>1, <3>2, <1>1, UnitAssumption DEF Here
  <2> HIDE DEF next
  <2>4. "unit" \notin Needs /\ heap.uptodate => Mapped(heap) \ heap.listed \subseteq Ahead'
    BY <2>3, <1>3, <1>5
  <2> QED
    BY <2>1, <2>2, <2>4, <1>1, <1>2, <1>3 DEF WalkOK, WalkSurvives
<1>6. CASE at \notin heap.listed
  <2>1. /\ HeapOK(heap') /\ heap'.ended \in {"no", "out_of_memory"}
        /\ \A u \in Live(heap) \ {heap.buf} : u \in Live(heap')
        /\ DeadKept(heap, heap')
        /\ "unit" \notin Needs =>
             (heap'.uptodate => heap.uptodate /\ heap'.units = heap.units
                    /\ heap'.dead = heap.dead /\ Mapped(heap') = Mapped(heap)
                    /\ heap'.listed = heap.listed \union {at})
        /\ at' = IF next # NoUnit /\ next = IF list = "live" THEN heap.buf ELSE heap'.buf
                 THEN NextOf(heap', at) ELSE next
    <3> HIDE DEF next
    <3> QED
      BY <1>6, WalkAdds DEF next
  <2>2. heap' \in HeapType /\ Live(heap') \cap Dead(heap') = {}
    BY <2>1 DEF HeapOK, Sound, ListsOK
  <2>3. (heap'.ended = "no" /\ Here) => (Here' \/ (list' = "dead" /\ heap'.dead = <<>>))
    <3>1. ASSUME list = "live", at \in Live(heap) PROVE at' \in Live(heap') \union {NoUnit}
      <4>1. next \in Live(heap) \union {NoUnit} /\ next # at
        BY <3>1, <1>1, <1>4, NextOfIs, NextOfAfter, OnwardIs DEF Live
      <4>2. CASE next = NoUnit \/ next # heap.buf
        <5>1. next \in Live(heap') \union {NoUnit}
          BY <4>1, <4>2, <2>1
        <5>2. at' = next
          BY <4>2, <3>1, <2>1
        <5> QED
          BY <5>1, <5>2
      <4>3. CASE next # NoUnit /\ next = heap.buf
        <5>1. at' = NextOf(heap', at)
          BY <4>3, <3>1, <2>1
        <5>2. at \in Live(heap')
          BY <4>1, <4>3, <3>1, <2>1
        <5> QED
          BY <5>1, <5>2, <2>2, <1>1, NextOfIs
      <4> QED
        BY <4>2, <4>3
    <3>2. ASSUME list = "dead", at \in Dead(heap), heap'.dead # <<>>, heap'.ended = "no"
          PROVE  at' \in Dead(heap') \union {NoUnit}
      <4>1. next = NoUnit \/ \E i \in DOMAIN heap.dead : i # 1 /\ next = heap.dead[i]
        <5>1. next = After(heap.dead, at)
          BY <3>2, <1>4, NextOfAfter
        <5>2. /\ Place(heap.dead, at) \in 1 .. Len(heap.dead) /\ Len(heap.dead) \in Nat
              /\ DOMAIN heap.dead = 1 .. Len(heap.dead)
          BY <3>2, <1>4, PlaceIs DEF Dead
        <5>3. Place(heap.dead, at) # Len(heap.dead)
                => Place(heap.dead, at) + 1 \in DOMAIN heap.dead /\ Place(heap.dead, at) + 1 # 1
          BY <5>2
        <5> HIDE DEF next
        <5> QED
          BY <5>1, <5>3 DEF After
      <4>2. next \in Dead(heap') \union {NoUnit}
        <5> HIDE DEF next
        <5> QED
          BY <3>2, <4>1, <2>1 DEF DeadKept
      <4>3. next # NoUnit => next # heap'.buf
        <5>1. heap'.buf # NoUnit => heap'.buf \in Live(heap')
          BY <3>2, <2>1 DEF HeapOK, BufOK
        <5> HIDE DEF next
        <5> QED
          BY <5>1, <4>2, <2>2
      <4> HIDE DEF next
      <4> QED
        BY <3>2, <4>2, <4>3, <2>1
    <3> HIDE DEF next
    <3> QED
      BY <3>1, <3>2, <2>1, <1>1, UnitAssumption DEF Here
  <2>4. list = "dead" /\ heap.dead = <<>> => heap'.dead = <<>>
    BY <2>1 DEF DeadKept
  <2>5. "unit" \notin Needs /\ heap'.uptodate
           => Here' /\ Mapped(heap') \ heap'.listed \subseteq Ahead'
    <3> SUFFICES ASSUME "unit" \notin Needs, heap'.uptodate
                 PROVE  Here' /\ Mapped(heap') \ heap'.listed \subseteq Ahead'
      OBVIOUS
    <3>1. /\ heap.uptodate /\ heap'.units = heap.units /\ heap'.dead = heap.dead
          /\ Mapped(heap') = Mapped(heap) /\ heap'.listed = heap.listed \union {at}
      BY <2>1
    <3>2. Live(heap') = Live(heap) /\ Dead(heap') = Dead(heap) /\ NextOf(heap', at) = next
      BY <3>1 DEF Live, Dead, NextOf
    <3>3. at' = next
      BY <3>2, <2>1
    <3>4. CASE list = "live" /\ at \in Live(heap)
      <4>1. /\ next \in Live(heap) \union {NoUnit}
            /\ Onward(heap.units, at) \subseteq {at} \union Onward(heap.units, next)
        BY <3>4, <1>1, <1>4, NextOfIs, NextOfAfter, OnwardIs DEF Live
      <4> HIDE DEF next
      <4>2. Here'
        BY <4>1, <3>2, <3>3, <3>4, <1>1 DEF Here
      <4>3. Ahead \subseteq {at} \union Ahead'
        BY <4>1, <3>1, <3>2, <3>3, <3>4, <1>1 DEF Ahead
      <4> QED
        BY <4>2, <4>3, <3>1, <1>3
    <3>5. CASE list = "dead" /\ at \in Dead(heap)
      <4>1. /\ next \in Dead(heap) \union {NoUnit}
            /\ Onward(heap.dead, at) \subseteq {at} \union Onward(heap.dead, next)
        BY <3>5, <1>1, <1>4, NextOfIs, NextOfAfter, OnwardIs DEF Dead
      <4> HIDE DEF next
      <4>2. Here'
        BY <4>1, <3>2, <3>3, <3>5, <1>1 DEF Here
      <4>3. Ahead \subseteq {at} \union Ahead'
        BY <4>1, <3>1, <3>2, <3>3, <3>5, <1>1 DEF Ahead
      <4> QED
        BY <4>2, <4>3, <3>1, <1>3
    <3> QED
      BY <3>1, <3>4, <3>5, <1>1, <1>3, UnitAssumption DEF Here
  <2> QED
    BY <2>1, <2>3, <2>4, <2>5, <1>1, <1>2 DEF WalkOK, WalkSurvives
<1> QED
  BY <1>5, <1>6

(* A walk stays on units that are there and misses none. *)
LEMMA WalkStep ==
  ASSUME UnitIInv, WalkOK, [Next]_vars
  PROVE  WalkOK'
<1>0. pc \in [Thread -> {"out", "tried", "want_areas", "want_global", "reading",
                          "query", "stale", "update", "walk", "reread"}]
  BY DEF UnitIInv, TypeOK
<1>3. Freeable \subseteq Live(heap) \ {heap.buf}
  BY DEF Freeable
<1>1. CASE UNCHANGED vars
  <2>1. heap' = heap /\ at' = at /\ list' = list /\ (Walking' <=> Walking)
    BY <1>1 DEF vars, Walking
  <2> QED
    BY <2>1, SameWalk
<1>2. ASSUME NEW t \in Thread, heap.ended = "no",
             \/ PrivateUnit(t) \/ GlobalTry(t) \/ BackOut(t) \/ LockAreas(t)
             \/ GlobalRetry(t) \/ ReadLock(t) \/ ReadUpToDate(t) \/ ReadStale(t)
             \/ DoneReading(t) \/ WriteLock(t) \/ StartWalk(t) \/ WalkUnit(t)
             \/ WalkFault(t) \/ WalkDead(t) \/ EndWalk(t) \/ Updated(t)
      PROVE  WalkOK'
  <2>1. CASE PrivateUnit(t)
    <3>1. ~Walking /\ ~Walking'
      BY <2>1, OneWalks DEF PrivateUnit, Walking
    <3>2. /\ heap'.ended # "fault"
          /\ heap'.uptodate => heap.uptodate /\ Mapped(heap') = Mapped(heap)
                               /\ heap'.listed = heap.listed
      BY <2>1, <1>2, <1>3, MadeHeap, FreedHeap DEF PrivateUnit, Made, Unmade
    <3> QED
      BY <3>1, <3>2, NoWalk
  <2>2. CASE GlobalTry(t)
    <3>1. heap' = heap /\ at' = at /\ list' = list /\ (Walking' <=> Walking)
      BY <2>2, <1>0 DEF GlobalTry, Go, Walking
    <3> QED
      BY <3>1, SameWalk
  <2>3. CASE BackOut(t)
    <3>1. heap' = heap /\ at' = at /\ list' = list /\ (Walking' <=> Walking)
      BY <2>3, <1>0 DEF BackOut, Go, Walking
    <3> QED
      BY <3>1, SameWalk
  <2>4. CASE LockAreas(t)
    <3>1. heap' = heap /\ at' = at /\ list' = list /\ (Walking' <=> Walking)
      BY <2>4, <1>0 DEF LockAreas, Go, Walking
    <3> QED
      BY <3>1, SameWalk
  <2>5. CASE GlobalRetry(t)
    <3>1. ~Walking
      BY <2>5, OneWalks DEF GlobalRetry
    <3>2. ~Walking'
      BY <2>5, <3>1, <1>0 DEF GlobalRetry, Go, Walking
    <3>3. /\ heap'.ended # "fault"
          /\ heap'.uptodate => heap.uptodate /\ Mapped(heap') = Mapped(heap)
                               /\ heap'.listed = heap.listed
      <4>1. ASSUME NEW n \in {Normal, Large}, heap' \in CreateUnit(heap, n) \union {heap}
            PROVE  /\ heap'.ended # "fault"
                   /\ heap'.uptodate => heap.uptodate /\ Mapped(heap') = Mapped(heap)
                                        /\ heap'.listed = heap.listed
        BY <4>1, <1>2, MadeHeap DEF Made
      <4>2. ASSUME NEW u \in Unit, errand[t] = [free |-> u], heap' = FreeUnit(heap, u)
            PROVE  /\ heap'.ended # "fault"
                   /\ heap'.uptodate => heap.uptodate /\ Mapped(heap') = Mapped(heap)
                                        /\ heap'.listed = heap.listed
        <5>1. u \in Live(heap) \ {heap.buf}
          BY <4>2, <1>2 DEF UnitIInv, FreesOK
        <5> QED
          BY <5>1, <4>2, <1>2, FreedHeap DEF Unmade
      <4> QED
        BY <2>5, <4>1, <4>2 DEF GlobalRetry
    <3> QED
      BY <3>1, <3>2, <3>3, NoWalk
  <2>6. CASE ReadLock(t)
    <3>1. heap' = heap /\ at' = at /\ list' = list /\ (Walking' <=> Walking)
      BY <2>6, <1>0 DEF ReadLock, Go, Walking
    <3> QED
      BY <3>1, SameWalk
  <2>7. CASE ReadUpToDate(t)
    <3>1. heap' = heap /\ at' = at /\ list' = list /\ (Walking' <=> Walking)
      BY <2>7, <1>0 DEF ReadUpToDate, Go, Walking
    <3> QED
      BY <3>1, SameWalk
  <2>8. CASE ReadStale(t)
    <3>1. heap' = heap /\ at' = at /\ list' = list /\ (Walking' <=> Walking)
      BY <2>8, <1>0 DEF ReadStale, Go, Walking
    <3> QED
      BY <3>1, SameWalk
  <2>9. CASE DoneReading(t)
    <3>1. heap' = heap /\ at' = at /\ list' = list /\ (Walking' <=> Walking)
      BY <2>9, <1>0 DEF DoneReading, Go, Walking
    <3> QED
      BY <3>1, SameWalk
  <2>10. CASE WriteLock(t)
    <3>1. heap' = heap /\ at' = at /\ list' = list /\ (Walking' <=> Walking)
      BY <2>10, <1>0 DEF WriteLock, Go, Walking
    <3> QED
      BY <3>1, SameWalk
  <2>11. CASE StartWalk(t)
    BY <2>11, <1>2, WalkBegins
  <2>12. CASE WalkUnit(t)
    BY <2>12, <1>2, WalkGoesOn
  <2>13. CASE WalkFault(t)
    <3>1. /\ heap'.uptodate = heap.uptodate /\ heap'.ended = "fault" /\ heap'.dead = heap.dead
          /\ at # NoUnit /\ heap.size[at] = 0 /\ pc[t] = "walk" /\ pc' = pc /\ list' = list
      BY <2>13, Known DEF WalkFault, HeapType
    <3>2. at \notin Live(heap) /\ at \notin Dead(heap)
      BY <3>1, Known DEF Sound, ListsOK, Mapped
    <3>3. ~Here
      BY <3>1, <3>2 DEF Here
    <3>4. Walking /\ Walking'
      BY <3>1 DEF Walking
    <3>5. /\ "unit" \notin Needs => ~heap.uptodate
          /\ list = "dead" /\ heap.dead = <<>>
      BY <3>3, <3>4, <1>2 DEF WalkOK
    <3> QED
      BY <3>1, <3>4, <3>5 DEF WalkOK, WalkSurvives
  <2>14. CASE WalkDead(t)
    <3>1. /\ heap' = heap /\ at = NoUnit /\ list = "live" /\ list' = "dead"
          /\ at' = First(heap.dead) /\ pc' = pc /\ pc[t] = "walk"
      BY <2>14 DEF WalkDead
    <3>2. Walking /\ (Walking' <=> Walking)
      BY <3>1 DEF Walking
    <3>3. /\ heap.units \in Seq(Unit) /\ heap.dead \in Seq(Unit)
          /\ Once(heap.units) /\ Once(heap.dead)
      BY Known, ListTypes DEF Sound, ListsOK
    <3>4. Here'
      BY <3>1, <3>3, FirstIs DEF Here, Dead
    <3>5. Ahead \subseteq Dead(heap)
      BY <3>1, <3>3, OnwardIs DEF Ahead
    <3>6. Dead(heap) \subseteq Ahead'
      BY <3>1, <3>3, OnwardIs DEF Ahead, Dead
    <3> QED
      BY <3>1, <3>2, <3>4, <3>5, <3>6, <1>2 DEF WalkOK, WalkSurvives
  <2>15. CASE EndWalk(t)
    <3>1. heap' = heap /\ at = NoUnit /\ list = "dead" /\ pc[t] = "walk" /\ writer = t
      BY <2>15, OneWalks DEF EndWalk
    <3>2. Walking /\ ~Walking'
      BY <2>15, <3>1, <1>0, OneWalks DEF EndWalk, Go, Walking
    <3>3. Ahead = {}
      <4>1. heap.dead \in Seq(Unit) /\ Once(heap.dead)
        BY Known, ListTypes DEF Sound, ListsOK
      <4> QED
        BY <3>1, <4>1, OnwardIs DEF Ahead
    <3> QED
      BY <3>1, <3>2, <3>3, <1>2 DEF WalkOK, WalkSurvives
  <2>16. CASE Updated(t)
    <3>1. ~Walking
      BY <2>16, OneWalks DEF Updated
    <3>2. ~Walking'
      BY <2>16, <3>1, <1>0 DEF Updated, Go, Walking
    <3>3. /\ heap'.ended # "fault"
          /\ "unit" \notin Needs =>
               (heap'.uptodate => Mapped(heap') = Mapped(heap) /\ heap'.listed = heap.listed)
      BY <2>16, <1>2, OthersHeap
    <3>4. heap.uptodate
      BY <2>16 DEF Updated
    <3> QED
      BY <3>1, <3>2, <3>3, <3>4, NoWalk
  <2> QED
    BY <1>2, <2>1, <2>2, <2>3, <2>4, <2>5, <2>6, <2>7, <2>8, <2>9, <2>10, <2>11,
       <2>12, <2>13, <2>14, <2>15, <2>16
<1> QED
  BY <1>1, <1>2, Steps

LEMMA WalkInvariance == Spec => [](UnitIInv /\ WalkOK)
<1>1. Init => WalkOK
  <2> SUFFICES ASSUME Init PROVE WalkOK
    OBVIOUS
  <2>1. ~Walking
    BY DEF Init, Walking
  <2>2. heap.ended = "no" /\ Mapped(heap) = {}
    BY DEF Init, Mapped
  <2> QED
    BY <2>1, <2>2 DEF WalkOK, WalkSurvives
<1>2. (UnitIInv /\ WalkOK) /\ [Next]_vars => (UnitIInv /\ WalkOK)'
  BY UnitNextIInv, WalkStep
<1> QED
  BY <1>1, <1>2, UnitInitIInv, PTL DEF Spec

(* Every query of dynamo_areas is answered from exactly the units there     *)
(* are, provided that the vector never grows into a unit that it shares:    *)
(* that is the one case in which heap_create_unit brings a dead unit back   *)
(* during a walk, and it does not mark the areas stale.                     *)
THEOREM AnsweredExactly == "unit" \notin Needs => (Spec => []QueriesExact)
<1>1. SUFFICES ASSUME "unit" \notin Needs PROVE Spec => []QueriesExact
  OBVIOUS
<1>2. ASSUME UnitIInv, WalkOK PROVE QueriesExact
  <2> SUFFICES ASSUME NEW t \in Thread, pc[t] = "query"
               PROVE  heap.areas = Live(heap) \union Dead(heap)
    BY DEF QueriesExact
  <2>1. heap.uptodate
    BY <1>2 DEF UnitIInv, QueryOK
  <2>2. ~Walking
    <3>1. readers # {}
      BY <1>2 DEF UnitIInv, LocksOK
    <3>2. writer = NoThread
      BY <3>1, <1>2 DEF UnitIInv, TypeOK
    <3> QED
      BY <3>2, <1>2, OneWalks, ThreadAssumption
  <2>3. Mapped(heap) \subseteq heap.listed
    BY <2>1, <2>2, <1>1, <1>2 DEF WalkOK
  <2>4. /\ heap.areas = heap.listed \cap Mapped(heap)
        /\ Mapped(heap) = Live(heap) \union Dead(heap)
    BY <2>1, <1>2 DEF UnitIInv, Sound, Covered, ListsOK
  <2> QED
    BY <2>3, <2>4
<1>3. UnitIInv /\ WalkOK => QueriesExact
  BY <1>2
<1> QED
  BY <1>3, WalkInvariance, PTL

(* The walk of heap_vmareas_synch_units stays on units that are there,      *)
(* whatever the vector grows into; memory that runs out among the dead      *)
(* units is the one exception.                                              *)
THEOREM WalkStaysOnUnits == Spec => []WalkSurvives
<1>1. UnitIInv /\ WalkOK => WalkSurvives
  BY DEF WalkOK
<1> QED
  BY <1>1, WalkInvariance, PTL

=============================================================================
