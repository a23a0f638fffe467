---------------------------- MODULE HashtableProofs ----------------------------
(***************************************************************************)
(* A fragment hashtable is a set of tags, for every set of tags, every     *)
(* width of a tag, initial size and load factor, and however often the     *)
(* table is resized, groomed or swept.  Three loops carry the proof: the   *)
(* one that closes a hole (Knuth's Algorithm R), the walk of a range       *)
(* removal that starts over, and the rehash.  Each is a recursive function *)
(* of the model; Iterates and Descends show that such a function exists,   *)
(* which gives the recursion equations that the loop invariants need.      *)
(***************************************************************************)
EXTENDS Hashtable, FiniteSetTheorems, WellFoundedInduction, TLAPS

-----------------------------------------------------------------------------
(***************************************************************************)
(* Numbers, and functions that are defined by recursion on them            *)
(***************************************************************************)
(* A set of numbers has a least one, *)
LEMMA LeastOf ==
  ASSUME NEW S \in SUBSET Nat, S # {}
  PROVE  \E n \in S : \A m \in S : n <= m
<1>1. PICK n \in S : \A m \in S : ~ (<<m, n>> \in OpToRel(<, Nat))
  BY NatLessThanWellFounded, WFMin
<1>2. \A m \in S : ~ (m < n)
  BY <1>1 DEF OpToRel
<1> QED
  BY <1>2

(* so that what passes from each number to the next reaches all of them. *)
LEMMA Climb ==
  ASSUME NEW G, 0 \in G, \A k \in Nat : k \in G => k + 1 \in G
  PROVE  Nat \subseteq G
<1> SUFFICES ASSUME Nat \ G # {} PROVE FALSE
  OBVIOUS
<1>1. PICK n \in Nat \ G : \A m \in Nat \ G : n <= m
  BY LeastOf
<1>2. n # 0 /\ n - 1 \in Nat /\ (n - 1) + 1 = n
  BY <1>1
<1>3. n - 1 \in G
  BY <1>1, <1>2
<1> QED
  BY <1>1, <1>2, <1>3

(* The same up to a number n *)
LEMMA ClimbTo ==
  ASSUME NEW n \in Nat, NEW G, 0 \in G, \A k \in 1 .. n : k - 1 \in G => k \in G
  PROVE  0 .. n \subseteq G
<1> DEFINE H == {k \in Nat : k <= n => k \in G}
<1>1. 0 \in H
  OBVIOUS
<1>2. ASSUME NEW k \in Nat, k \in H PROVE k + 1 \in H
  <2> SUFFICES ASSUME k + 1 <= n PROVE k + 1 \in G
    OBVIOUS
  <2>1. k + 1 \in 1 .. n /\ (k + 1) - 1 = k /\ k \in G
    BY <1>2
  <2> QED
    BY <2>1
<1>3. Nat \subseteq H
  <2> HIDE DEF H
  <2> QED
    BY <1>1, <1>2, Climb
<1> QED
  BY <1>3

(* A loop of n turns has a state after each of them. *)
Turns(f, s, F, n) == f[0] = s /\ \A k \in 1 .. n : f[k] = F[k][f[k - 1]]

(* There is such a sequence of states. *)
LEMMA Iterates ==
  ASSUME NEW S, NEW n \in Nat, NEW s \in S, NEW F \in [1 .. n -> [S -> S]]
  PROVE  \E f \in [0 .. n -> S] : Turns(f, s, F, n)
<1> DEFINE Ok(f, m) == /\ f \in [0 .. m -> S] /\ f[0] = s
                       /\ \A k \in 1 .. m : f[k] = F[k][f[k - 1]]
           G == {m \in 0 .. n : \E f : Ok(f, m)}
<1>1. 0 \in G
  <2>1. Ok([i \in 0 .. 0 |-> s], 0)
    OBVIOUS
  <2> HIDE DEF Ok
  <2> QED
    BY <2>1
<1>2. ASSUME NEW m \in 1 .. n, m - 1 \in G PROVE m \in G
  <2>1. PICK f : Ok(f, m - 1)
    BY <1>2
  <2> DEFINE g == [i \in 0 .. m |-> IF i = m THEN F[m][f[m - 1]] ELSE f[i]]
  <2>2. f[m - 1] \in S /\ F[m][f[m - 1]] \in S
    BY <2>1
  <2>3. g \in [0 .. m -> S] /\ g[0] = s
    BY <2>1, <2>2
  <2>4. ASSUME NEW k \in 1 .. m PROVE g[k] = F[k][g[k - 1]]
    <3>1. k - 1 \in 0 .. m /\ k - 1 # m /\ g[k - 1] = f[k - 1]
      OBVIOUS
    <3>2. CASE k = m
      BY <3>1, <3>2
    <3>3. CASE k # m
      <4>1. k \in 1 .. m - 1 /\ g[k] = f[k]
        BY <3>3
      <4> QED
        BY <4>1, <3>1, <2>1
    <3> QED
      BY <3>2, <3>3
  <2>5. Ok(g, m)
    BY <2>3, <2>4
  <2> HIDE DEF Ok, g
  <2> QED
    BY <2>5
<1>3. n \in G
  <2>1. n \in 0 .. n
    OBVIOUS
  <2> HIDE DEF G
  <2> QED
    BY <2>1, <1>1, <1>2, ClimbTo
<1> QED
  BY <1>3 DEF Turns

(* A recursion whose argument gets smaller by some measure has a result. *)
Resolves(f, X, D, V, next) ==
    \A x \in X : f[x] = IF x \in D THEN V[x] ELSE f[next[x]]

(* There is such a function, given a bound on the measure. *)
LEMMA Descends ==
  ASSUME NEW X, NEW Y, NEW D \in SUBSET X, NEW V \in [D -> Y],
         NEW next \in [X \ D -> X], NEW max \in Nat, NEW size \in [X -> 0 .. max],
         \A x \in X \ D : size[next[x]] < size[x], NEW y \in Y
  PROVE  \E f \in [X -> Y] : Resolves(f, X, D, V, next)
<1> DEFINE Ok(f, n) ==
             /\ f \in [X -> Y]
             /\ \A x \in X : size[x] < n =>
                   f[x] = IF x \in D THEN V[x] ELSE f[next[x]]
           G == {n \in Nat : \E f : Ok(f, n)}
<1>1. 0 \in G
  <2>1. Ok([x \in X |-> y], 0)
    OBVIOUS
  <2> QED
    BY <2>1
<1>2. ASSUME NEW n \in Nat, n \in G PROVE n + 1 \in G
  <2>1. PICK f : Ok(f, n)
    BY <1>2
  <2> DEFINE g == [x \in X |-> IF size[x] < n THEN f[x]
                               ELSE IF x \in D THEN V[x] ELSE f[next[x]]]
  <2>2. g \in [X -> Y]
    BY <2>1
  <2>3. ASSUME NEW x \in X, size[x] < n + 1
        PROVE  g[x] = IF x \in D THEN V[x] ELSE g[next[x]]
    <3>1. CASE x \in D
      BY <3>1, <2>1
    <3>2. CASE x \notin D
      <4>1. next[x] \in X /\ size[next[x]] < n
        BY <3>2, <2>3
      <4>2. g[next[x]] = f[next[x]]
        BY <4>1
      <4>3. g[x] = f[next[x]]
        BY <3>2, <2>1
      <4> QED
        BY <3>2, <4>2, <4>3
    <3> QED
      BY <3>1, <3>2
  <2>4. Ok(g, n + 1)
    BY <2>2, <2>3
  <2> HIDE DEF Ok, g
  <2> QED
    BY <2>4
<1>3. max + 1 \in G
  <2> HIDE DEF G
  <2> QED
    BY <1>1, <1>2, Climb
<1>4. PICK f : Ok(f, max + 1)
  BY <1>3
<1>5. \A x \in X : size[x] < max + 1
  OBVIOUS
<1> QED
  BY <1>4, <1>5 DEF Resolves

-----------------------------------------------------------------------------
(* Powers of two *)
Doubling(f, n) == /\ f \in [0 .. n -> Nat] /\ f[0] = 1
                  /\ \A k \in 1 .. n : f[k] = 2 * f[k - 1]
Doubled(n) == CHOOSE f : Doubling(f, n)

(* The table of the first powers of two exists, *)
LEMMA DoubledIs == ASSUME NEW n \in Nat PROVE Doubling(Doubled(n), n)
<1> DEFINE F == [k \in 1 .. n |-> [v \in Nat |-> 2 * v]]
<1>1. F \in [1 .. n -> [Nat -> Nat]]
  OBVIOUS
<1>2. PICK f \in [0 .. n -> Nat] : Turns(f, 1, F, n)
  <2> HIDE DEF F
  <2> QED
    BY <1>1, Iterates
<1>3. ASSUME NEW k \in 1 .. n PROVE f[k] = 2 * f[k - 1]
  <2>1. k - 1 \in 0 .. n
    OBVIOUS
  <2>2. f[k - 1] \in Nat /\ f[k] = F[k][f[k - 1]]
    <3> HIDE DEF F
    <3> QED
      BY <2>1, <1>2 DEF Turns
  <2> QED
    BY <2>2
<1>4. Doubling(f, n)
  BY <1>2, <1>3 DEF Doubling, Turns
<1> QED
  BY <1>4 DEF Doubled

(* and so does the function that the model's recursion describes. *)
LEMMA ShiftedIs ==
  Shifted = [n \in Nat |-> IF n = 0 THEN 1 ELSE 2 * Shifted[n - 1]]
<1> DEFINE P == [n \in Nat |-> Doubled(n)[n]]
<1>1. ASSUME NEW n \in Nat, n # 0 PROVE Doubled(n)[n - 1] = Doubled(n - 1)[n - 1]
  <2> DEFINE m == n - 1
             G == {k \in 0 .. m : Doubled(n)[k] = Doubled(m)[k]}
  <2>1. m \in Nat /\ n = m + 1
    BY <1>1
  <2> HIDE DEF m
  <2>2. Doubling(Doubled(n), n) /\ Doubling(Doubled(m), m)
    BY <2>1, DoubledIs
  <2>3. 0 \in G
    BY <2>1, <2>2 DEF Doubling
  <2>4. ASSUME NEW k \in 1 .. m, k - 1 \in G PROVE k \in G
    <3>1. k \in 1 .. n /\ k \in 0 .. m
      BY <2>1
    <3> QED
      BY <2>2, <2>4, <3>1 DEF Doubling
  <2>5. m \in G
    <3>1. m \in 0 .. m
      BY <2>1
    <3> HIDE DEF G
    <3> QED
      BY <3>1, <2>1, <2>3, <2>4, ClimbTo
  <2> QED
    BY <2>5 DEF m
<1>2. ASSUME NEW n \in Nat PROVE P[n] = IF n = 0 THEN 1 ELSE 2 * P[n - 1]
  <2>1. Doubling(Doubled(n), n)
    BY DoubledIs
  <2>2. CASE n = 0
    BY <2>1, <2>2 DEF Doubling
  <2>3. CASE n # 0
    <3>1. n - 1 \in Nat /\ n \in 1 .. n
      BY <2>3
    <3>2. Doubled(n)[n] = 2 * Doubled(n - 1)[n - 1]
      BY <2>1, <2>3, <3>1, <1>1 DEF Doubling
    <3>3. P[n] = Doubled(n)[n] /\ P[n - 1] = Doubled(n - 1)[n - 1]
      BY <3>1
    <3> HIDE DEF P
    <3> QED
      BY <2>3, <3>2, <3>3
  <2> QED
    BY <2>2, <2>3
<1>3. P = [n \in Nat |-> IF n = 0 THEN 1 ELSE 2 * P[n - 1]]
  <2>1. P = [n \in Nat |-> P[n]]
    OBVIOUS
  <2> HIDE DEF P
  <2> QED
    BY <1>2, <2>1
<1>4. \E f : f = [n \in Nat |-> IF n = 0 THEN 1 ELSE 2 * f[n - 1]]
  <2> HIDE DEF P
  <2> QED
    BY <1>3
<1> QED
  BY <1>4 DEF Shifted

(* Powers of two are positive and grow. *)
LEMMA ShiftedGrows ==
  /\ Shifted \in [Nat -> Nat \ {0}]
  /\ \A n \in Nat : Shifted[n + 1] = 2 * Shifted[n] /\ Shifted[n] > n
  /\ \A m, n \in Nat : m <= n => Shifted[m] <= Shifted[n]
<1>1. Shifted[0] = 1 /\ \A n \in Nat : Shifted[n + 1] = 2 * Shifted[n]
  <2>1. \A n \in Nat : n + 1 \in Nat /\ n + 1 # 0 /\ (n + 1) - 1 = n
    OBVIOUS
  <2>2. \A n \in Nat : Shifted[n] = IF n = 0 THEN 1 ELSE 2 * Shifted[n - 1]
    BY ShiftedIs, Zenon
  <2> QED
    BY <2>1, <2>2
<1> DEFINE G == {n \in Nat : Shifted[n] \in Nat /\ Shifted[n] > n}
<1>2. Nat \subseteq G
  <2>1. 0 \in G
    BY <1>1
  <2>2. \A n \in Nat : n \in G => n + 1 \in G
    BY <1>1
  <2> HIDE DEF G
  <2> QED
    BY <2>1, <2>2, Climb
<1>3. Shifted \in [Nat -> Nat \ {0}]
  <2>1. Shifted = [n \in Nat |-> Shifted[n]]
    BY ShiftedIs
  <2> QED
    BY <2>1, <1>2
<1>4. ASSUME NEW m \in Nat, NEW n \in Nat, m <= n PROVE Shifted[m] <= Shifted[n]
  <2> DEFINE H == {d \in Nat : Shifted[m] <= Shifted[m + d]}
  <2>1. 0 \in H
    BY <1>3
  <2>2. ASSUME NEW d \in Nat, d \in H PROVE d + 1 \in H
    <3>1. m + d \in Nat /\ m + (d + 1) = (m + d) + 1
      OBVIOUS
    <3>2. Shifted[m + (d + 1)] = 2 * Shifted[m + d]
      BY <1>1, <3>1
    <3> QED
      BY <2>2, <3>1, <3>2, <1>3
  <2>3. Nat \subseteq H
    <3> HIDE DEF H
    <3> QED
      BY <2>1, <2>2, Climb
  <2>4. n - m \in H /\ m + (n - m) = n
    BY <2>3, <1>4
  <2> QED
    BY <2>4
<1> QED
  BY <1>1, <1>2, <1>3, <1>4

-----------------------------------------------------------------------------
(***************************************************************************)
(* The array as a ring: At is the slot k places after slot f, Offset how   *)
(* many places slot i is after slot f.                                     *)
(***************************************************************************)
At(f, k, n) == (f + k) % n
Offset(f, i, n) == IF i >= f THEN i - f ELSE i - f + n

(* The two are inverses of each other. *)
LEMMA AtOffset ==
  ASSUME NEW n \in Nat \ {0}, NEW f \in 0 .. n - 1, NEW k \in 0 .. n - 1
  PROVE  /\ At(f, k, n) \in 0 .. n - 1
         /\ Offset(f, At(f, k, n), n) = k
         /\ Offset(f, k, n) \in 0 .. n - 1
         /\ At(f, Offset(f, k, n), n) = k
<1>1. \A a \in 0 .. n - 1 : a % n = a
  OBVIOUS
<1>2. \A a \in 0 .. n - 1 : (a + n) % n = a
  OBVIOUS
<1>3. At(f, k, n) = IF f + k < n THEN f + k ELSE f + k - n
  <2>1. CASE f + k < n
    BY <2>1, <1>1 DEF At
  <2>2. CASE f + k >= n
    <3>1. f + k - n \in 0 .. n - 1 /\ (f + k - n) + n = f + k
      BY <2>2
    <3> QED
      BY <2>2, <3>1, <1>2 DEF At
  <2> QED
    BY <2>1, <2>2
<1>4. Offset(f, k, n) \in 0 .. n - 1
  BY DEF Offset
<1>5. At(f, Offset(f, k, n), n) = k
  <2>1. CASE k >= f
    BY <2>1, <1>1 DEF At, Offset
  <2>2. CASE k < f
    <3>1. f + Offset(f, k, n) = k + n
      BY <2>2 DEF Offset
    <3> QED
      BY <3>1, <1>2 DEF At
  <2> QED
    BY <2>1, <2>2
<1> QED
  BY <1>3, <1>4, <1>5 DEF Offset

(* Lost(h, j, i): going forward from h, j comes before i. *)
LEMMA Ring ==
  ASSUME NEW n \in Nat \ {0}, NEW h \in 0 .. n - 1,
         NEW i \in 0 .. n - 1, NEW j \in 0 .. n - 1
  PROVE  /\ Lost(h, j, i) <=> Offset(h, j, n) < Offset(h, i, n)
         /\ ~ Lost(h, i, i)
         /\ ~ (Lost(h, i, j) /\ Lost(h, j, i))
         /\ i # j => Lost(h, i, j) \/ Lost(h, j, i)
BY DEF Lost, Offset

(* Three slots, in the order in which one meets them from f. *)
LEMMA RingOfThree ==
  ASSUME NEW n \in Nat \ {0}, NEW h \in 0 .. n - 1, NEW f \in 0 .. n - 1,
         NEW p \in 0 .. n - 1, NEW i \in 0 .. n - 1, NEW j \in 0 .. n - 1
  PROVE  /\ Lost(h, p, i) /\ Lost(h, i, j) => Lost(h, p, j)
         /\ /\ Offset(f, p, n) < Offset(f, i, n)
            /\ Offset(f, i, n) < Offset(f, j, n)
            /\ Lost(h, p, j)
            => Lost(h, i, j)
         /\ /\ Offset(f, j, n) < Offset(f, i, n)
            /\ Offset(f, i, n) < Offset(f, p, n)
            /\ Lost(h, i, j)
            => Lost(h, p, j)
<1>1. Lost(h, p, i) /\ Lost(h, i, j) => Lost(h, p, j)
  BY DEF Lost
<1>2. /\ Offset(f, p, n) < Offset(f, i, n)
      /\ Offset(f, i, n) < Offset(f, j, n)
      /\ Lost(h, p, j)
      => Lost(h, i, j)
  BY DEF Lost, Offset
<1>3. /\ Offset(f, j, n) < Offset(f, i, n)
      /\ Offset(f, i, n) < Offset(f, p, n)
      /\ Lost(h, i, j)
      => Lost(h, p, j)
  BY DEF Lost, Offset
<1> QED
  BY <1>1, <1>2, <1>3

-----------------------------------------------------------------------------
(* Sizes *)
LEMMA Sizes ==
  ASSUME NEW bits \in Nat
  PROVE  /\ HASHTABLE_SIZE(bits) \in Nat \ {0}
         /\ HASHTABLE_SIZE(bits) > bits
         /\ Index(bits) = 0 .. HASHTABLE_SIZE(bits) - 1
         /\ Index(bits) \subseteq Nat
         /\ IsFiniteSet(Index(bits))
         /\ Cardinality(Index(bits)) = HASHTABLE_SIZE(bits)
<1>1. HASHTABLE_SIZE(bits) \in Nat \ {0} /\ HASHTABLE_SIZE(bits) > bits
  BY ShiftedGrows DEF HASHTABLE_SIZE
<1>2. ASSUME NEW n \in Nat \ {0}
      PROVE  IsFiniteSet(0 .. n - 1) /\ Cardinality(0 .. n - 1) = n
  <2>1. n - 1 \in Int /\ 0 \in Int /\ ~ (0 > n - 1) /\ (n - 1) - 0 + 1 = n
    OBVIOUS
  <2> QED
    BY <2>1, FS_Interval
<1> QED
  BY <1>1, <1>2 DEF Index

(* The two marks of a slot are words, and no tag is one of them. *)
LEMMA Words ==
  /\ FAKE_TAG \in Nat /\ NULL_TAG # FAKE_TAG
  /\ Word \subseteq Nat /\ NULL_TAG \in Word /\ FAKE_TAG \in Word
  /\ Tag \subseteq Word /\ \A t \in Tag : IsReal(t)
  /\ Tag \cup {NULL_TAG, FAKE_TAG} \subseteq Word
<1>1. FAKE_TAG \in Nat /\ FAKE_TAG # 0
  <2>1. \A n \in Nat \ {0} : Shifted[n] \in Nat /\ Shifted[n] > 1
    BY ShiftedGrows
  <2> QED
    BY <2>1, TagAssumption DEF FAKE_TAG
<1>2. Tag \subseteq 1 .. FAKE_TAG - 1
  BY TagAssumption
<1> QED
  BY <1>1, <1>2 DEF Word, NULL_TAG, IsReal

(* A hash is the index of a slot. *)
LEMMA HashInIndex ==
  ASSUME NEW bits \in Nat, NEW e \in Word
  PROVE  HASH_FUNC(e, bits) \in Index(bits)
<1>1. \A a \in Nat, n \in Nat \ {0} : a % n \in 0 .. n - 1
  OBVIOUS
<1> QED
  BY <1>1, Sizes, Words DEF HASH_FUNC, Index

(***************************************************************************)
(* A probe of a table that has a slot to stop at finds one, and passes     *)
(* none on its way.                                                        *)
(***************************************************************************)
LEMMA ProbeStops ==
  ASSUME NEW bits \in Nat, NEW slots \in [Index(bits) -> Word], NEW e \in Word,
         NEW stop, CanStop(slots, stop)
  PROVE  LET i == Probe(slots, bits, e, stop)
         IN  /\ i \in Index(bits) /\ slots[i] \in stop
             /\ \A j \in Index(bits) :
                   Lost(HASH_FUNC(e, bits), j, i) => slots[j] \notin stop
<1> DEFINE n == HASHTABLE_SIZE(bits)
           h == HASH_FUNC(e, bits)
           K == {k \in Index(bits) : slots[ProbeIndex(e, k, bits)] \in stop}
<1>1. n \in Nat \ {0} /\ Index(bits) = 0 .. n - 1 /\ h \in 0 .. n - 1
  BY Sizes, HashInIndex
<1>2. \A k : ProbeIndex(e, k, bits) = At(h, k, n)
  BY DEF ProbeIndex, At
<1> HIDE DEF n, h
<1>3. K # {}
  <2>1. PICK i \in Index(bits) : slots[i] \in stop
    BY DEF CanStop
  <2>2. Offset(h, i, n) \in Index(bits) /\ At(h, Offset(h, i, n), n) = i
    BY <1>1, <2>1, AtOffset
  <2> QED
    BY <2>1, <2>2, <1>2
<1>4. PICK least \in K : \A m \in K : least <= m
  <2>1. K \subseteq Nat
    BY <1>1
  <2> HIDE DEF K
  <2> QED
    BY <2>1, <1>3, LeastOf
<1> DEFINE Goal(k) == /\ slots[ProbeIndex(e, k, bits)] \in stop
                      /\ \A j \in 0 .. k - 1 : slots[ProbeIndex(e, j, bits)] \notin stop
           k == CHOOSE k \in Index(bits) : Goal(k)
<1>5. k \in Index(bits) /\ Goal(k)
  <2>1. ASSUME NEW j \in 0 .. least - 1 PROVE slots[ProbeIndex(e, j, bits)] \notin stop
    <3>1. j \in Index(bits) /\ ~ (least <= j)
      BY <1>1, <1>4
    <3> QED
      BY <3>1, <1>4
  <2>2. least \in Index(bits) /\ Goal(least)
    BY <1>4, <2>1
  <2> HIDE DEF Goal
  <2> QED
    BY <2>2
<1>6. Probe(slots, bits, e, stop) = At(h, k, n)
  BY <1>2 DEF Probe
<1> HIDE DEF k, K
<1>7. At(h, k, n) \in Index(bits) /\ Offset(h, At(h, k, n), n) = k
  BY <1>1, <1>5, AtOffset
<1>8. ASSUME NEW j \in Index(bits), Lost(h, j, At(h, k, n)) PROVE slots[j] \notin stop
  <2>1. Offset(h, j, n) < k
    <3>1. ASSUME NEW i \in 0 .. n - 1, Lost(h, j, i) PROVE Offset(h, j, n) < Offset(h, i, n)
      BY <1>1, <3>1, Ring
    <3> QED
      BY <1>1, <1>7, <1>8, <3>1
  <2>2. Offset(h, j, n) \in 0 .. k - 1 /\ At(h, Offset(h, j, n), n) = j
    <3>1. j \in 0 .. n - 1 /\ k \in Int
      BY <1>1, <1>5
    <3>2. Offset(h, j, n) \in 0 .. n - 1 /\ At(h, Offset(h, j, n), n) = j
      BY <1>1, <3>1, AtOffset
    <3> QED
      BY <2>1, <1>1, <3>1, <3>2
  <2> QED
    BY <2>2, <1>2, <1>5
<1> QED
  BY <1>2, <1>5, <1>6, <1>7, <1>8 DEF h

-----------------------------------------------------------------------------
(***************************************************************************)
(* What a table holds.                                                     *)
(***************************************************************************)
Filled(slots) == {i \in DOMAIN slots : slots[i] # NULL_TAG}

RealIn(slots) == {i \in DOMAIN slots : IsReal(slots[i])}

Held(slots) == {v \in Word \ {NULL_TAG} : \E i \in DOMAIN slots : slots[i] = v}

(* No entry is in the array twice, *)
Distinct(slots) ==
    \A i, j \in DOMAIN slots : IsReal(slots[i]) /\ slots[i] = slots[j] => i = j

(* and none lies behind an empty slot of its probe sequence. *)
Chained(slots, bits) ==
    \A i, j \in Index(bits) :
       IsReal(slots[i]) /\ Lost(HASH_FUNC(slots[i], bits), j, i)
          => slots[j] # NULL_TAG

(* A lookup finds a tag if and only if it is in the array, *)
LEMMA LookupFinds ==
  ASSUME NEW bits \in Nat, NEW slots \in [Index(bits) -> Word],
         Chained(slots, bits), CanStop(slots, {NULL_TAG}), NEW t \in Tag
  PROVE  Lookup(slots, bits, t) = t <=> t \in Reals(slots)
<1> DEFINE p == Probe(slots, bits, t, {NULL_TAG, t})
           h == HASH_FUNC(t, bits)
           n == HASHTABLE_SIZE(bits)
<1>1. t \in Word /\ IsReal(t) /\ t # NULL_TAG
  BY Words DEF IsReal
<1>2. CanStop(slots, {NULL_TAG, t})
  BY DEF CanStop
<1>3. /\ p \in Index(bits) /\ slots[p] \in {NULL_TAG, t}
      /\ \A j \in Index(bits) : Lost(h, j, p) => slots[j] \notin {NULL_TAG, t}
  BY <1>1, <1>2, ProbeStops
<1>4. Lookup(slots, bits, t) = slots[p]
  BY <1>2 DEF Lookup
<1>5. h \in Index(bits) /\ n \in Nat \ {0} /\ Index(bits) = 0 .. n - 1
  BY <1>1, Sizes, HashInIndex
<1>6. ASSUME NEW i \in Index(bits), slots[i] = t PROVE slots[p] = t
  <2> SUFFICES ASSUME slots[p] = NULL_TAG PROVE FALSE
    BY <1>3
  <2> HIDE DEF p
  <2>1. i # p
    BY <1>1, <1>6
  <2>2. ~ Lost(h, p, i)
    BY <1>1, <1>3, <1>6 DEF Chained
  <2>3. Lost(h, i, p)
    <3> HIDE DEF h, n
    <3> QED
      BY <1>3, <1>5, <2>1, <2>2, Ring
  <2> QED
    BY <1>3, <1>6, <2>3
<1> QED
  BY <1>1, <1>3, <1>4, <1>6 DEF Reals

(* in the slot that a deletion goes to. *)
LEMMA ProbeFinds ==
  ASSUME NEW bits \in Nat, NEW slots \in [Index(bits) -> Word],
         NEW t \in Tag, t \in Reals(slots)
  PROVE  LET i == Probe(slots, bits, t, {t})
         IN  i \in Index(bits) /\ slots[i] = t
<1>1. t \in Word /\ CanStop(slots, {t})
  BY Words DEF CanStop, Reals
<1> QED
  BY <1>1, ProbeStops

-----------------------------------------------------------------------------
(***************************************************************************)
(* r holds what s holds, in other slots.                                   *)
(***************************************************************************)
Keeps(s, r) ==
    /\ Held(r) = Held(s)
    /\ Cardinality(Filled(r)) = Cardinality(Filled(s))
    /\ Cardinality(Markers(r)) = Cardinality(Markers(s))
    /\ Distinct(s) => Distinct(r)

(* An element replaced by a new one leaves the size of a set. *)
LEMMA MovedOne ==
  ASSUME NEW S, IsFiniteSet(S), NEW i \in S, NEW p, p \notin S
  PROVE  Cardinality((S \ {i}) \cup {p}) = Cardinality(S)
<1>1. IsFiniteSet(S \ {i}) /\ Cardinality(S \ {i}) = Cardinality(S) - 1
  BY FS_RemoveElement
<1>2. Cardinality((S \ {i}) \cup {p}) = Cardinality(S \ {i}) + 1
  BY <1>1, FS_AddElement
<1> QED
  BY <1>1, <1>2, FS_CardinalityType

(* One turn of the loop moves an entry into the hole, *)
LEMMA MoveKeeps ==
  ASSUME NEW bits \in Nat, NEW s \in [Index(bits) -> Word],
         NEW p \in Index(bits), NEW i \in Index(bits),
         s[p] = NULL_TAG, s[i] # NULL_TAG
  PROVE  Keeps(s, [s EXCEPT ![p] = s[i], ![i] = NULL_TAG])
<1> DEFINE r == [s EXCEPT ![p] = s[i], ![i] = NULL_TAG]
<1>1. /\ DOMAIN s = Index(bits) /\ DOMAIN r = Index(bits) /\ p # i
      /\ r[p] = s[i] /\ r[i] = NULL_TAG
      /\ \A j \in Index(bits) : j # p /\ j # i => r[j] = s[j]
  OBVIOUS
<1>2. IsFiniteSet(Filled(s)) /\ IsFiniteSet(Markers(s))
  BY <1>1, Sizes, FS_Subset DEF Filled, Markers
<1> HIDE DEF r
<1>3. Held(r) = Held(s)
  <2>1. ASSUME NEW v, v # NULL_TAG
        PROVE  (\E j \in Index(bits) : r[j] = v) <=> (\E j \in Index(bits) : s[j] = v)
    BY <1>1, <2>1
  <2> QED
    BY <1>1, <2>1 DEF Held
<1>4. Cardinality(Filled(r)) = Cardinality(Filled(s))
  <2>1. Filled(r) = (Filled(s) \ {i}) \cup {p} /\ i \in Filled(s) /\ p \notin Filled(s)
    BY <1>1 DEF Filled
  <2> QED
    BY <1>2, <2>1, MovedOne
<1>5. Cardinality(Markers(r)) = Cardinality(Markers(s))
  <2>1. CASE s[i] = FAKE_TAG
    <3>1. Markers(r) = (Markers(s) \ {i}) \cup {p} /\ i \in Markers(s) /\ p \notin Markers(s)
      BY <1>1, <2>1, Words DEF Markers
    <3> QED
      BY <1>2, <3>1, MovedOne
  <2>2. CASE s[i] # FAKE_TAG
    <3>1. Markers(r) = Markers(s)
      BY <1>1, <2>2, Words DEF Markers
    <3> QED
      BY <3>1
  <2> QED
    BY <2>1, <2>2
<1>6. Distinct(s) => Distinct(r)
  BY <1>1 DEF Distinct, IsReal
<1> QED
  BY <1>3, <1>4, <1>5, <1>6 DEF Keeps, r

(* that the deletion of an entry has left. *)
LEMMA Cleared ==
  ASSUME NEW bits \in Nat, NEW s \in [Index(bits) -> Word],
         NEW i \in Index(bits), s[i] # NULL_TAG
  PROVE  LET r == [s EXCEPT ![i] = NULL_TAG]
         IN  /\ Cardinality(Filled(r)) = Cardinality(Filled(s)) - 1
             /\ IsReal(s[i]) => Cardinality(Markers(r)) = Cardinality(Markers(s))
             /\ Distinct(s) => Distinct(r)
             /\ Distinct(s) /\ IsReal(s[i]) => Held(r) = Held(s) \ {s[i]}
<1> DEFINE r == [s EXCEPT ![i] = NULL_TAG]
<1>1. /\ DOMAIN s = Index(bits) /\ DOMAIN r = Index(bits) /\ r[i] = NULL_TAG
      /\ \A j \in Index(bits) : j # i => r[j] = s[j]
  OBVIOUS
<1>2. IsFiniteSet(Filled(s))
  BY <1>1, Sizes, FS_Subset DEF Filled
<1> HIDE DEF r
<1>3. Cardinality(Filled(r)) = Cardinality(Filled(s)) - 1
  <2>1. Filled(r) = Filled(s) \ {i} /\ i \in Filled(s)
    BY <1>1 DEF Filled
  <2> QED
    BY <1>2, <2>1, FS_RemoveElement
<1>4. ASSUME IsReal(s[i]) PROVE Cardinality(Markers(r)) = Cardinality(Markers(s))
  <2>1. Markers(r) = Markers(s)
    BY <1>1, <1>4, Words DEF Markers, IsReal
  <2> QED
    BY <2>1
<1>5. Distinct(s) => Distinct(r)
  BY <1>1 DEF Distinct, IsReal
<1>6. ASSUME Distinct(s), IsReal(s[i]) PROVE Held(r) = Held(s) \ {s[i]}
  <2>1. ASSUME NEW v \in Word \ {NULL_TAG}
        PROVE  (\E j \in Index(bits) : r[j] = v)
                  <=> (\E j \in Index(bits) : s[j] = v) /\ v # s[i]
    BY <1>1, <1>6, <2>1 DEF Distinct
  <2> QED
    BY <1>1, <2>1 DEF Held
<1> QED
  BY <1>3, <1>4, <1>5, <1>6 DEF r

(* Moves follow one another. *)
LEMMA KeepsOnward ==
  ASSUME NEW q, NEW r, NEW s, Keeps(q, r), Keeps(r, s)
  PROVE  Keeps(q, s)
BY DEF Keeps

-----------------------------------------------------------------------------
(***************************************************************************)
(* The loop of remove_helper_open_address                                  *)
(***************************************************************************)
HoleState(bits) == [slots : [Index(bits) -> Word], hole : Index(bits),
                    wrapped : BOOLEAN, done : BOOLEAN]

HoleAt(slots, first) == [slots |-> [slots EXCEPT ![first] = NULL_TAG], hole |-> first,
                         wrapped |-> FALSE, done |-> FALSE]

(* A turn leads from state to state. *)
LEMMA AdvancedType ==
  ASSUME NEW bits \in Nat, NEW a \in HoleState(bits), NEW i \in Index(bits)
  PROVE  Advanced(a, i, bits) \in HoleState(bits)
BY Words DEF Advanced, HoleState

(* The states of the loop, turn by turn *)
LEMMA Closing ==
  ASSUME NEW bits \in Nat, NEW slots \in [Index(bits) -> Word], NEW first \in Index(bits)
  PROVE  \E f :
            /\ f[0] = HoleAt(slots, first)
            /\ \A k \in 1 .. HASHTABLE_SIZE(bits) - 1 :
                  f[k] = Advanced(f[k - 1], At(first, k, HASHTABLE_SIZE(bits)), bits)
            /\ CloseHole(slots, bits, first) = f[HASHTABLE_SIZE(bits) - 1]
<1> DEFINE n == HASHTABLE_SIZE(bits)
           S == HoleState(bits)
           s0 == HoleAt(slots, first)
           F == [k \in 1 .. n - 1 |-> [a \in S |-> Advanced(a, At(first, k, n), bits)]]
<1>1. n \in Nat \ {0} /\ n - 1 \in Nat /\ Index(bits) = 0 .. n - 1
  <2>1. n \in Nat \ {0} /\ Index(bits) = 0 .. n - 1
    BY Sizes
  <2> HIDE DEF n
  <2> QED
    BY <2>1
<1>2. s0 \in S
  BY Words DEF HoleAt, HoleState
<1>3. F \in [1 .. n - 1 -> [S -> S]]
  <2>1. ASSUME NEW k \in 1 .. n - 1, NEW a \in S PROVE Advanced(a, At(first, k, n), bits) \in S
    <3>1. At(first, k, n) \in Index(bits)
      <4> HIDE DEF n
      <4>1. k \in 0 .. n - 1 /\ first \in 0 .. n - 1
        BY <1>1
      <4> QED
        BY <4>1, <1>1, AtOffset
    <3> QED
      BY <3>1, AdvancedType
  <2> HIDE DEF S, n
  <2> QED
    BY <2>1
<1>4. PICK f \in [0 .. n - 1 -> S] : Turns(f, s0, F, n - 1)
  <2> HIDE DEF S, n, F, s0
  <2> QED
    BY <1>1, <1>2, <1>3, Iterates
<1>5. /\ f[0] = s0
      /\ \A k \in 1 .. n - 1 : f[k] = Advanced(f[k - 1], At(first, k, n), bits)
  <2>1. f[0] = s0
    BY <1>4 DEF Turns
  <2>2. ASSUME NEW k \in 1 .. n - 1 PROVE f[k] = Advanced(f[k - 1], At(first, k, n), bits)
    <3>1. k - 1 \in 0 .. n - 1 /\ f[k] = F[k][f[k - 1]]
      <4> HIDE DEF F, n, S, s0
      <4> QED
        BY <1>1, <1>4 DEF Turns
    <3> HIDE DEF S, n
    <3> QED
      BY <3>1
  <2> QED
    BY <2>1, <2>2
<1> DEFINE Body(g) == [k \in Index(bits) |->
              IF k = 0
              THEN [slots |-> [slots EXCEPT ![first] = NULL_TAG], hole |-> first,
                    wrapped |-> FALSE, done |-> FALSE]
              ELSE Advanced(g[k - 1], (first + k) % HASHTABLE_SIZE(bits), bits)]
           After == CHOOSE g : g = Body(g)
<1>6. f = Body(f)
  <2>1. f = [k \in 0 .. n - 1 |-> f[k]]
    BY <1>4
  <2>2. \A k \in 0 .. n - 1 : k = 0 \/ k \in 1 .. n - 1
    OBVIOUS
  <2> HIDE DEF n
  <2> QED
    BY <1>1, <1>5, <2>1, <2>2 DEF At, HoleAt, n
<1>7. After = Body(After)
  <2> HIDE DEF Body
  <2> QED
    BY <1>6
<1>8. CloseHole(slots, bits, first) = After[n - 1]
  BY DEF CloseHole
<1>9. After[0] = HoleAt(slots, first)
  <2> HIDE DEF After
  <2> QED
    BY <1>1, <1>7 DEF HoleAt
<1>10. ASSUME NEW k \in 1 .. n - 1
       PROVE  After[k] = Advanced(After[k - 1], At(first, k, n), bits)
  <2> HIDE DEF After
  <2>1. \A m \in Index(bits) : m # 0 =>
           After[m] = Advanced(After[m - 1], (first + m) % HASHTABLE_SIZE(bits), bits)
    BY <1>7
  <2> HIDE DEF n
  <2>2. k \in Index(bits) /\ k # 0
    BY <1>1
  <2> QED
    BY <2>1, <2>2 DEF At, n
<1> QED
  <2> HIDE DEF After, Body
  <2> QED
    BY <1>8, <1>9, <1>10

-----------------------------------------------------------------------------
(***************************************************************************)
(* Whatever the array, the loop moves entries about; until it has wrapped  *)
(* around, those it moves come from behind the slot it set out from.       *)
(***************************************************************************)
Moved(a, slots, first, bits) ==
    /\ a \in HoleState(bits)
    /\ a.slots[a.hole] = NULL_TAG
    /\ Keeps(HoleAt(slots, first).slots, a.slots)
    /\ ~ a.wrapped =>
          /\ a.hole >= first
          /\ \A j \in Index(bits) : j >= first /\ a.slots[j] # NULL_TAG =>
                \E m \in Index(bits) : m > first /\ a.slots[j] = slots[m]

(* Every turn keeps this, *)
LEMMA AdvancedMoves ==
  ASSUME NEW bits \in Nat, NEW slots \in [Index(bits) -> Word], NEW first \in Index(bits),
         NEW a, Moved(a, slots, first, bits), NEW i \in Index(bits)
  PROVE  Moved(Advanced(a, i, bits), slots, first, bits)
<1> DEFINE e == a.slots[i]
           b == Advanced(a, i, bits)
<1> SUFFICES Moved(b, slots, first, bits)
  OBVIOUS
<1>1. CASE a.done \/ e = NULL_TAG
  <2>1. b = [a EXCEPT !.done = TRUE]
    BY <1>1 DEF Advanced
  <2>2. /\ b \in HoleState(bits) /\ b.slots = a.slots
        /\ b.hole = a.hole /\ b.wrapped = a.wrapped
    BY <2>1 DEF Moved, HoleState
  <2> HIDE DEF b
  <2> QED
    BY <2>2 DEF Moved
<1>2. CASE ~ (a.done \/ e = NULL_TAG) /\ ~ Lost(HASH_FUNC(e, bits), a.hole, i)
  <2>1. b = a
    BY <1>2 DEF Advanced
  <2> QED
    BY <2>1
<1>3. CASE ~ (a.done \/ e = NULL_TAG) /\ Lost(HASH_FUNC(e, bits), a.hole, i)
  <2>1. b = [slots |-> [a.slots EXCEPT ![a.hole] = e, ![i] = NULL_TAG],
             hole |-> i, wrapped |-> a.wrapped \/ i < a.hole, done |-> FALSE]
    BY <1>3 DEF Advanced
  <2>2. /\ b.slots = [a.slots EXCEPT ![a.hole] = e, ![i] = NULL_TAG]
        /\ b.hole = i /\ b.wrapped = (a.wrapped \/ i < a.hole)
    BY <2>1
  <2>3. b \in HoleState(bits)
    BY AdvancedType DEF Moved
  <2>4. /\ a.slots \in [Index(bits) -> Word] /\ a.hole \in Index(bits)
        /\ a.slots[a.hole] = NULL_TAG /\ a.hole # i
    BY <1>3 DEF Moved, HoleState
  <2> HIDE DEF b
  <2>5. Keeps(HoleAt(slots, first).slots, b.slots)
    <3>1. Keeps(a.slots, b.slots)
      BY <1>3, <2>2, <2>4, MoveKeeps
    <3> QED
      BY <3>1, KeepsOnward DEF Moved
  <2>6. /\ b.slots[b.hole] = NULL_TAG /\ b.slots[a.hole] = e
        /\ \A j \in Index(bits) : j # i /\ j # a.hole => b.slots[j] = a.slots[j]
    BY <2>2, <2>4
  <2>7. ASSUME ~ b.wrapped
        PROVE  /\ i > first
               /\ \A j \in Index(bits) : j >= first /\ b.slots[j] # NULL_TAG =>
                     \E m \in Index(bits) : m > first /\ b.slots[j] = slots[m]
    <3>1. Index(bits) \subseteq Nat
      BY Sizes
    <3>2. ~ a.wrapped /\ ~ (i < a.hole) /\ a.hole >= first
      BY <2>2, <2>7 DEF Moved
    <3>3. i > first
      BY <2>4, <3>1, <3>2
    <3>4. \A j \in Index(bits) : j >= first /\ a.slots[j] # NULL_TAG =>
             \E m \in Index(bits) : m > first /\ a.slots[j] = slots[m]
      BY <3>2 DEF Moved
    <3>5. ASSUME NEW j \in Index(bits), j >= first, b.slots[j] # NULL_TAG
          PROVE  \E m \in Index(bits) : m > first /\ b.slots[j] = slots[m]
      <4>1. j # i
        BY <2>2, <2>6, <3>5
      <4>2. CASE j = a.hole
        BY <4>2, <2>6, <1>3, <3>1, <3>3, <3>4
      <4>3. CASE j # a.hole
        BY <4>1, <4>3, <2>6, <3>4, <3>5
      <4> QED
        BY <4>2, <4>3
    <3> QED
      BY <3>3, <3>5
  <2>8. ~ b.wrapped => b.hole >= first
    <3>1. Index(bits) \subseteq Nat
      BY Sizes
    <3> QED
      BY <2>2, <2>7, <3>1
  <2> QED
    BY <2>3, <2>5, <2>6, <2>7, <2>8 DEF Moved
<1> QED
  BY <1>1, <1>2, <1>3

(* it holds at the start of the loop, *)
LEMMA HoleMoved ==
  ASSUME NEW bits \in Nat, NEW slots \in [Index(bits) -> Word], NEW first \in Index(bits)
  PROVE  Moved(HoleAt(slots, first), slots, first, bits)
<1> DEFINE a == HoleAt(slots, first)
<1> SUFFICES Moved(a, slots, first, bits)
  OBVIOUS
<1>1. a \in HoleState(bits)
  BY Words DEF HoleAt, HoleState
<1>2. /\ a.slots = [slots EXCEPT ![first] = NULL_TAG] /\ a.hole = first
      /\ a.slots[first] = NULL_TAG
  BY DEF HoleAt
<1> HIDE DEF a
<1>3. Keeps(a.slots, a.slots)
  BY DEF Keeps
<1>4. Index(bits) \subseteq Nat
  BY Sizes
<1>5. \A j \in Index(bits) : j >= first /\ a.slots[j] # NULL_TAG =>
         j > first /\ a.slots[j] = slots[j]
  BY <1>2, <1>4
<1> QED
  BY <1>1, <1>2, <1>3, <1>4, <1>5 DEF Moved, a

(* and so at its end. *)
LEMMA ClosedMoves ==
  ASSUME NEW bits \in Nat, NEW slots \in [Index(bits) -> Word], NEW first \in Index(bits)
  PROVE  Moved(CloseHole(slots, bits, first), slots, first, bits)
<1> DEFINE n == HASHTABLE_SIZE(bits)
           G(f) == {k \in 0 .. n - 1 : Moved(f[k], slots, first, bits)}
<1>1. PICK f :
            /\ f[0] = HoleAt(slots, first)
            /\ \A k \in 1 .. n - 1 : f[k] = Advanced(f[k - 1], At(first, k, n), bits)
            /\ CloseHole(slots, bits, first) = f[n - 1]
  BY Closing
<1>2. n \in Nat \ {0} /\ Index(bits) = 0 .. n - 1
  BY Sizes
<1> HIDE DEF n
<1>3. 0 \in G(f)
  BY <1>1, <1>2, HoleMoved
<1>4. ASSUME NEW k \in 1 .. n - 1, k - 1 \in G(f) PROVE k \in G(f)
  <2>1. At(first, k, n) \in Index(bits)
    <3>1. k \in 0 .. n - 1
      BY <1>2
    <3> QED
      BY <1>2, <3>1, AtOffset
  <2>2. Moved(Advanced(f[k - 1], At(first, k, n), bits), slots, first, bits)
    BY <1>4, <2>1, AdvancedMoves
  <2> QED
    BY <1>1, <1>2, <2>2
<1>5. n - 1 \in G(f)
  <2>1. n - 1 \in Nat /\ n - 1 \in 0 .. n - 1
    BY <1>2
  <2> HIDE DEF G
  <2> QED
    BY <2>1, <1>3, <1>4, ClimbTo
<1> QED
  BY <1>1, <1>5

-----------------------------------------------------------------------------
(***************************************************************************)
(* Algorithm R is right: where no entry lay behind an empty slot of its    *)
(* probe sequence, none does afterwards.  Until the loop stops, at the     *)
(* first empty slot after first, the hole is the only empty slot that      *)
(* may hide entries, and only entries the loop has not come to.  It does   *)
(* stop, because another slot is empty (z in AdvancedCloses): CloseHole    *)
(* turns no more often than there are other slots.                         *)
(***************************************************************************)
Closes(a, k, slots, first, bits) ==
    LET o(i) == Offset(first, i, HASHTABLE_SIZE(bits))
    IN  IF a.done
        THEN Chained(a.slots, bits)
        ELSE /\ o(a.hole) <= k
             /\ \A i \in Index(bits) : 0 < o(i) /\ o(i) <= k => slots[i] # NULL_TAG
             /\ \A i \in Index(bits) : o(i) > k => a.slots[i] = slots[i]
             /\ \A i, j \in Index(bits) :
                   /\ IsReal(a.slots[i]) /\ a.slots[j] = NULL_TAG
                   /\ Lost(HASH_FUNC(a.slots[i], bits), j, i)
                   => j = a.hole /\ o(i) > k

(* Every turn keeps this, *)
LEMMA AdvancedCloses ==
  ASSUME NEW bits \in Nat, NEW slots \in [Index(bits) -> Word], NEW first \in Index(bits),
         Chained(slots, bits), NEW z \in Index(bits), z # first, slots[z] = NULL_TAG,
         NEW a, Moved(a, slots, first, bits),
         NEW k \in Nat, k + 1 \in Index(bits), Closes(a, k, slots, first, bits)
  PROVE  Closes(Advanced(a, At(first, k + 1, HASHTABLE_SIZE(bits)), bits), k + 1,
                slots, first, bits)
<1> DEFINE n == HASHTABLE_SIZE(bits)
           o(j) == Offset(first, j, n)
           H(v) == HASH_FUNC(v, bits)
           i == At(first, k + 1, n)
           e == a.slots[i]
           b == Advanced(a, i, bits)
<1> SUFFICES Closes(b, k + 1, slots, first, bits)
  OBVIOUS
<1>1. n \in Nat \ {0} /\ Index(bits) = 0 .. n - 1
  BY Sizes
<1>2. i \in Index(bits) /\ o(i) = k + 1
  <2>1. ASSUME NEW m \in Index(bits)
        PROVE  At(first, m, n) \in Index(bits) /\ o(At(first, m, n)) = m
    <3> HIDE DEF n
    <3>1. m \in 0 .. n - 1 /\ first \in 0 .. n - 1
      BY <1>1
    <3> QED
      BY <3>1, <1>1, AtOffset
  <2> HIDE DEF n, o
  <2> QED
    BY <2>1
<1>3. /\ a.slots \in [Index(bits) -> Word] /\ a.hole \in Index(bits)
      /\ a.slots[a.hole] = NULL_TAG /\ a.done \in BOOLEAN
  BY DEF Moved, HoleState
<1>4. \A v \in Word : H(v) \in Index(bits)
  BY HashInIndex
<1>5. \A j \in Index(bits) : o(j) \in 0 .. n - 1
  <2> HIDE DEF n
  <2> QED
    BY <1>1, AtOffset
<1>6. o(z) > 0
  BY <1>1 DEF Offset
<1>7. \A j \in Index(bits) : o(j) = k + 1 => j = i
  <2> HIDE DEF n, i
  <2> QED
    BY <1>1, <1>2 DEF Offset
<1>8. CASE a.done
  <2>1. b = [a EXCEPT !.done = TRUE]
    BY <1>8 DEF Advanced
  <2>2. b.done /\ b.slots = a.slots
    BY <2>1, <1>3 DEF Moved, HoleState
  <2> HIDE DEF b
  <2> QED
    BY <1>8, <2>2 DEF Closes
<1>9. CASE ~ a.done
  <2>1. /\ o(a.hole) <= k
        /\ \A j \in Index(bits) : 0 < o(j) /\ o(j) <= k => slots[j] # NULL_TAG
        /\ \A j \in Index(bits) : o(j) > k => a.slots[j] = slots[j]
    BY <1>9 DEF Closes
  <2>2. ASSUME NEW x \in Index(bits), NEW y \in Index(bits), IsReal(a.slots[x]),
               a.slots[y] = NULL_TAG, Lost(H(a.slots[x]), y, x)
        PROVE  y = a.hole /\ o(x) > k
    BY <1>9, <2>2 DEF Closes
  <2>3. e = slots[i] /\ i # a.hole
    BY <1>2, <1>3, <1>5, <2>1
  <2>4. CASE e = NULL_TAG
    <3>1. b = [a EXCEPT !.done = TRUE]
      BY <2>4 DEF Advanced
    <3>2. b.done /\ b.slots = a.slots
      BY <3>1, <1>3 DEF Moved, HoleState
    <3>3. ASSUME NEW x \in Index(bits), NEW y \in Index(bits), IsReal(a.slots[x]),
                 a.slots[y] = NULL_TAG, Lost(H(a.slots[x]), y, x)
          PROVE  FALSE
      <4>1. y = a.hole /\ o(x) > k /\ x # i
        BY <2>2, <2>4, <3>3 DEF IsReal
      <4>2. o(x) > k + 1
        BY <1>2, <1>5, <1>7, <4>1
      <4>3. a.slots[x] = slots[x] /\ H(slots[x]) \in Index(bits)
        BY <1>3, <1>4, <2>1, <4>1
      <4>4. o(a.hole) < o(i) /\ o(i) < o(x)
        BY <1>2, <1>3, <1>5, <2>1, <4>2
      <4>5. Lost(H(slots[x]), i, x)
        <5> HIDE DEF n, i, H
        <5> QED
          BY <1>1, <1>2, <1>3, <3>3, <4>1, <4>3, <4>4, RingOfThree
      <4> QED
        BY <1>2, <2>3, <2>4, <3>3, <4>3, <4>5 DEF Chained
    <3>4. Chained(b.slots, bits)
      BY <3>2, <3>3 DEF Chained
    <3> HIDE DEF b
    <3> QED
      BY <3>2, <3>4 DEF Closes
  <2>5. CASE e # NULL_TAG
    <3>1. \A j \in Index(bits) : 0 < o(j) /\ o(j) <= k + 1 => slots[j] # NULL_TAG
      BY <1>5, <1>7, <2>1, <2>3, <2>5
    <3>2. o(z) > k + 1 /\ a.slots[z] = NULL_TAG /\ z # a.hole
      BY <1>5, <1>6, <2>1, <3>1
    <3>3. ASSUME NEW x \in Index(bits), IsReal(a.slots[x]), o(x) <= k + 1, x # i,
                 Lost(H(a.slots[x]), i, x)
          PROVE  FALSE
      <4>1. o(x) < o(i) /\ o(i) < o(z)
        BY <1>2, <1>5, <1>7, <3>2, <3>3
      <4>2. H(a.slots[x]) \in Index(bits)
        BY <1>3, <1>4
      <4>3. Lost(H(a.slots[x]), z, x)
        <5> HIDE DEF n, i, H
        <5> QED
          BY <1>1, <1>2, <3>3, <4>1, <4>2, RingOfThree
      <4> QED
        BY <2>2, <3>2, <3>3, <4>3
    <3>4. CASE ~ Lost(H(e), a.hole, i)
      <4>1. b = a
        BY <1>9, <2>5, <3>4 DEF Advanced
      <4>2. ASSUME NEW x \in Index(bits), NEW y \in Index(bits), IsReal(a.slots[x]),
                   a.slots[y] = NULL_TAG, Lost(H(a.slots[x]), y, x)
            PROVE  y = a.hole /\ o(x) > k + 1
        <5>1. y = a.hole /\ o(x) > k
          BY <2>2, <4>2
        <5>2. x # i
          BY <3>4, <4>2, <5>1
        <5> QED
          BY <1>2, <1>5, <1>7, <5>1, <5>2
      <4>3. \A j \in Index(bits) : o(j) > k + 1 => a.slots[j] = slots[j]
        BY <1>5, <2>1
      <4>4. o(a.hole) <= k + 1
        BY <1>3, <1>5, <2>1
      <4>5. Closes(a, k + 1, slots, first, bits)
        BY <1>9, <3>1, <4>2, <4>3, <4>4 DEF Closes
      <4> QED
        BY <4>1, <4>5
    <3>5. CASE Lost(H(e), a.hole, i)
      <4>1. b = [slots |-> [a.slots EXCEPT ![a.hole] = e, ![i] = NULL_TAG],
                 hole |-> i, wrapped |-> a.wrapped \/ i < a.hole, done |-> FALSE]
        BY <1>9, <2>5, <3>5 DEF Advanced
      <4>2. /\ b.slots = [a.slots EXCEPT ![a.hole] = e, ![i] = NULL_TAG]
            /\ b.hole = i /\ ~ b.done
        BY <4>1
      <4> HIDE DEF b
      <4>3. /\ b.slots[a.hole] = e /\ b.slots[i] = NULL_TAG
            /\ \A j \in Index(bits) : j # i /\ j # a.hole => b.slots[j] = a.slots[j]
        BY <1>2, <1>3, <2>3, <4>2
      <4>4. ASSUME NEW x \in Index(bits), NEW y \in Index(bits), IsReal(b.slots[x]),
                   b.slots[y] = NULL_TAG, Lost(H(b.slots[x]), y, x)
            PROVE  y = i /\ o(x) > k + 1
        <5>1. x # i
          BY <4>3, <4>4 DEF IsReal
        <5>2. y = i \/ (y # a.hole /\ a.slots[y] = NULL_TAG)
          BY <2>5, <4>3, <4>4
        <5>3. CASE x = a.hole
          <6>1. b.slots[x] = e /\ IsReal(e) /\ Lost(H(e), y, a.hole) /\ H(e) \in Index(bits)
            BY <1>2, <1>3, <1>4, <4>3, <4>4, <5>3
          <6>2. y # i
            <7> HIDE DEF n, i, H, e
            <7> QED
              BY <1>1, <1>2, <1>3, <3>5, <6>1, Ring
          <6>3. Lost(H(e), y, i)
            <7> HIDE DEF n, i, H, e
            <7> QED
              BY <1>1, <1>2, <1>3, <3>5, <6>1, RingOfThree, SMTT(20)
          <6> QED
            BY <1>2, <2>2, <5>2, <6>1, <6>2, <6>3
        <5>4. CASE x # a.hole
          <6>1. b.slots[x] = a.slots[x]
            BY <4>3, <5>1, <5>4
          <6>2. y = i
            BY <2>2, <4>4, <5>2, <6>1
          <6>3. ~ (o(x) <= k + 1)
            BY <3>3, <4>4, <5>1, <6>1, <6>2
          <6> QED
            BY <1>5, <6>2, <6>3
        <5> QED
          BY <5>3, <5>4
      <4>5. \A j \in Index(bits) : o(j) > k + 1 => b.slots[j] = slots[j]
        <5>1. ASSUME NEW j \in Index(bits), o(j) > k + 1 PROVE b.slots[j] = slots[j]
          <6>1. o(j) > k /\ j # i /\ j # a.hole
            BY <1>2, <1>3, <1>5, <2>1, <5>1
          <6> QED
            BY <2>1, <4>3, <6>1
        <5> QED
          BY <5>1
      <4> QED
        BY <1>2, <3>1, <4>2, <4>4, <4>5 DEF Closes
    <3> QED
      BY <3>4, <3>5
  <2> QED
    BY <2>4, <2>5
<1> QED
  BY <1>3, <1>8, <1>9

(* and so the array that the loop leaves is chained. *)
LEMMA ClosedChained ==
  ASSUME NEW bits \in Nat, NEW slots \in [Index(bits) -> Word], NEW first \in Index(bits),
         Chained(slots, bits), CanStop(slots, {NULL_TAG}), slots[first] # NULL_TAG
  PROVE  Chained(CloseHole(slots, bits, first).slots, bits)
<1> DEFINE n == HASHTABLE_SIZE(bits)
           o(j) == Offset(first, j, n)
           Ok(a, k) == Moved(a, slots, first, bits) /\ Closes(a, k, slots, first, bits)
           G(f) == {k \in 0 .. n - 1 : Ok(f[k], k)}
<1>1. PICK f :
            /\ f[0] = HoleAt(slots, first)
            /\ \A k \in 1 .. n - 1 : f[k] = Advanced(f[k - 1], At(first, k, n), bits)
            /\ CloseHole(slots, bits, first) = f[n - 1]
  BY Closing
<1>2. n \in Nat \ {0} /\ Index(bits) = 0 .. n - 1 /\ first \in 0 .. n - 1
  BY Sizes
<1>3. PICK z \in Index(bits) : z # first /\ slots[z] = NULL_TAG
  BY DEF CanStop
<1>4. \A j \in Index(bits) : o(j) \in 0 .. n - 1 /\ (o(j) > 0 <=> j # first)
  <2> HIDE DEF n
  <2> QED
    BY <1>2 DEF Offset
<1>5. 0 \in G(f)
  <2>1. Moved(f[0], slots, first, bits)
    BY <1>1, HoleMoved
  <2>2. /\ ~ f[0].done /\ f[0].hole = first
        /\ f[0].slots = [slots EXCEPT ![first] = NULL_TAG]
    BY <1>1 DEF HoleAt
  <2>3. /\ f[0].slots[first] = NULL_TAG
        /\ \A j \in Index(bits) : j # first => f[0].slots[j] = slots[j]
    BY <2>2
  <2>4. ASSUME NEW x \in Index(bits), NEW y \in Index(bits), IsReal(f[0].slots[x]),
               f[0].slots[y] = NULL_TAG, Lost(HASH_FUNC(f[0].slots[x], bits), y, x)
        PROVE  y = first /\ o(x) > 0
    <3>1. x # first /\ f[0].slots[x] = slots[x]
      BY <2>3, <2>4 DEF IsReal
    <3>2. y = first
      BY <2>3, <2>4, <3>1 DEF Chained
    <3> QED
      BY <1>4, <3>1, <3>2
  <2>5. o(first) <= 0
    BY <1>4, <1>2
  <2>6. ASSUME NEW j \in Index(bits)
        PROVE  /\ ~ (0 < o(j) /\ o(j) <= 0)
               /\ o(j) > 0 => f[0].slots[j] = slots[j]
    BY <1>4, <2>3
  <2>7. Closes(f[0], 0, slots, first, bits)
    BY <2>2, <2>4, <2>5, <2>6 DEF Closes
  <2> QED
    BY <1>2, <2>1, <2>7
<1>6. ASSUME NEW k \in 1 .. n - 1, k - 1 \in G(f) PROVE k \in G(f)
  <2> DEFINE m == k - 1
  <2>1. m \in Nat /\ k = m + 1 /\ m + 1 \in Index(bits) /\ k \in 0 .. n - 1
    <3> HIDE DEF n
    <3> QED
      BY <1>2
  <2>2. f[k] = Advanced(f[m], At(first, m + 1, n), bits) /\ Ok(f[m], m)
    BY <1>1, <1>6, <2>1
  <2> HIDE DEF m
  <2>3. At(first, m + 1, n) \in Index(bits)
    <3>1. \A x \in 0 .. n - 1 : At(first, x, n) \in 0 .. n - 1
      <4> HIDE DEF n
      <4> QED
        BY <1>2, AtOffset
    <3> QED
      BY <1>2, <2>1, <3>1
  <2>4. Moved(f[k], slots, first, bits)
    BY <2>2, <2>3, AdvancedMoves
  <2>5. Closes(f[k], m + 1, slots, first, bits)
    BY <1>3, <2>1, <2>2, AdvancedCloses
  <2> QED
    BY <2>1, <2>4, <2>5
<1>7. Ok(f[n - 1], n - 1)
  <2>1. n - 1 \in Nat /\ n - 1 \in 0 .. n - 1
    <3> HIDE DEF n
    <3> QED
      BY <1>2
  <2>2. n - 1 \in G(f)
    <3> HIDE DEF G, n
    <3> QED
      BY <2>1, <1>5, <1>6, ClimbTo
  <2> QED
    BY <2>2
<1>8. f[n - 1].done
  <2> SUFFICES ASSUME ~ f[n - 1].done PROVE FALSE
    OBVIOUS
  <2>1. \A i \in Index(bits) : 0 < o(i) /\ o(i) <= n - 1 => slots[i] # NULL_TAG
    BY <1>7 DEF Closes
  <2>2. 0 < o(z) /\ o(z) <= n - 1
    BY <1>2, <1>3, <1>4
  <2> QED
    BY <1>3, <2>1, <2>2
<1> QED
  BY <1>1, <1>7, <1>8 DEF Closes

(* hashtable_remove of the entry in one slot *)
LEMMA Removed ==
  ASSUME NEW bits \in Nat, NEW slots \in [Index(bits) -> Word], NEW first \in Index(bits),
         slots[first] # NULL_TAG
  PROVE  LET c == CloseHole(slots, bits, first)
             r == c.slots
         IN  /\ r \in [Index(bits) -> Word] /\ c.wrapped \in BOOLEAN
             /\ CanStop(r, {NULL_TAG})
             /\ Cardinality(Filled(r)) = Cardinality(Filled(slots)) - 1
             /\ Chained(slots, bits) /\ CanStop(slots, {NULL_TAG}) => Chained(r, bits)
             /\ Distinct(slots) => Distinct(r)
             /\ IsReal(slots[first]) => Cardinality(Markers(r)) = Cardinality(Markers(slots))
             /\ IsReal(slots[first]) /\ Distinct(slots)
                   => Held(r) = Held(slots) \ {slots[first]}
             /\ ~ c.wrapped =>
                   \A j \in Index(bits) : j >= first /\ r[j] # NULL_TAG =>
                      \E m \in Index(bits) : m > first /\ r[j] = slots[m]
<1> DEFINE c == CloseHole(slots, bits, first)
           q == [slots EXCEPT ![first] = NULL_TAG]
<1>1. Moved(c, slots, first, bits)
  BY ClosedMoves
<1>2. HoleAt(slots, first).slots = q
  BY DEF HoleAt
<1>3. /\ Cardinality(Filled(q)) = Cardinality(Filled(slots)) - 1
      /\ IsReal(slots[first]) => Cardinality(Markers(q)) = Cardinality(Markers(slots))
      /\ Distinct(slots) => Distinct(q)
      /\ Distinct(slots) /\ IsReal(slots[first]) => Held(q) = Held(slots) \ {slots[first]}
  BY Cleared
<1>4. Chained(slots, bits) /\ CanStop(slots, {NULL_TAG}) => Chained(c.slots, bits)
  BY ClosedChained
<1> HIDE DEF c, q
<1>5. Keeps(q, c.slots)
  BY <1>1, <1>2 DEF Moved
<1>6. c.slots \in [Index(bits) -> Word] /\ c.wrapped \in BOOLEAN /\ c.hole \in Index(bits)
  BY <1>1 DEF Moved, HoleState
<1>7. CanStop(c.slots, {NULL_TAG})
  BY <1>1, <1>6 DEF Moved, CanStop
<1>8. ~ c.wrapped =>
         \A j \in Index(bits) : j >= first /\ c.slots[j] # NULL_TAG =>
            \E m \in Index(bits) : m > first /\ c.slots[j] = slots[m]
  BY <1>1 DEF Moved
<1> QED
  BY <1>3, <1>4, <1>5, <1>6, <1>7, <1>8 DEF Keeps, c

-----------------------------------------------------------------------------
(***************************************************************************)
(* The walk of range_remove.  It ends: a turn removes an entry or gets     *)
(* nearer to the first slot.                                               *)
(***************************************************************************)
LEMMA WalkedType ==
  ASSUME NEW bits \in Nat, NEW w \in Walk(bits), ~ (w.i < 0), NEW lo, NEW hi
  PROVE  LET v == Walked(w, lo, hi, bits)
         IN  /\ v \in Walk(bits)
             /\ \/ Cardinality(Filled(v.slots)) = Cardinality(Filled(w.slots)) - 1
                \/ v.slots = w.slots /\ v.i = w.i - 1
<1> DEFINE n == HASHTABLE_SIZE(bits)
           v == Walked(w, lo, hi, bits)
<1>1. n \in Nat \ {0} /\ Index(bits) = 0 .. n - 1
  BY Sizes
<1>2. w.slots \in [Index(bits) -> Word] /\ w.i \in Index(bits) /\ w.i \in -1 .. n - 1
  BY <1>1 DEF Walk
<1>3. CASE InRange(w.slots[w.i], lo, hi)
  <2> DEFINE c == CloseHole(w.slots, bits, w.i)
  <2>1. /\ c.slots \in [Index(bits) -> Word] /\ c.wrapped \in BOOLEAN
        /\ Cardinality(Filled(c.slots)) = Cardinality(Filled(w.slots)) - 1
    BY <1>2, <1>3, Removed DEF InRange
  <2>2. v = [slots |-> c.slots, i |-> IF c.wrapped THEN n - 1 ELSE w.i]
    BY <1>3 DEF Walked
  <2> HIDE DEF c, v, n
  <2>3. v.slots = c.slots /\ v \in [slots : [Index(bits) -> Word], i : -1 .. n - 1]
    BY <1>1, <1>2, <2>1, <2>2
  <2> QED
    BY <2>1, <2>3 DEF Walk, n, v
<1>4. CASE ~ InRange(w.slots[w.i], lo, hi)
  <2>1. v = [w EXCEPT !.i = @ - 1]
    BY <1>4 DEF Walked
  <2>2. w \in [slots : [Index(bits) -> Word], i : -1 .. n - 1]
    BY DEF Walk
  <2> HIDE DEF v, n
  <2>3. /\ v \in [slots : [Index(bits) -> Word], i : -1 .. n - 1]
        /\ v.slots = w.slots /\ v.i = w.i - 1
    BY <1>1, <1>2, <2>1, <2>2
  <2> QED
    BY <2>3 DEF Walk, n, v
<1> QED
  BY <1>3, <1>4

(* so that the recursion of Swept has a result. *)
LEMMA Sweeping ==
  ASSUME NEW bits \in Nat, NEW slots \in [Index(bits) -> Word], NEW lo, NEW hi
  PROVE  \E f :
            /\ \A w \in Walk(bits) :
                  f[w] = IF w.i < 0 THEN w.slots ELSE f[Walked(w, lo, hi, bits)]
            /\ Swept(slots, lo, hi, bits)
                  = f[[slots |-> slots, i |-> HASHTABLE_SIZE(bits) - 1]]
<1> DEFINE n == HASHTABLE_SIZE(bits)
           X == Walk(bits)
           Y == [Index(bits) -> Word]
           D == {w \in X : w.i < 0}
           V == [w \in D |-> w.slots]
           next == [w \in X \ D |-> Walked(w, lo, hi, bits)]
           max == n * (n + 1) + n
           size == [w \in X |-> Cardinality(Filled(w.slots)) * (n + 1) + (w.i + 1)]
<1>1. n \in Nat \ {0} /\ Index(bits) = 0 .. n - 1
  BY Sizes
<1>2. D \in SUBSET X /\ V \in [D -> Y]
  BY DEF Walk
<1>3. next \in [X \ D -> X]
  BY WalkedType
<1>4. ASSUME NEW w \in X
      PROVE  Cardinality(Filled(w.slots)) \in 0 .. n /\ w.i \in -1 .. n - 1
  <2>1. Filled(w.slots) \subseteq Index(bits) /\ w.i \in -1 .. n - 1
    BY DEF Walk, Filled
  <2>2. Cardinality(Filled(w.slots)) \in Nat /\ Cardinality(Filled(w.slots)) <= n
    <3>1. IsFiniteSet(Index(bits)) /\ Cardinality(Index(bits)) = n
      BY Sizes
    <3>2. ASSUME NEW A \in SUBSET Index(bits)
          PROVE  Cardinality(A) \in Nat /\ Cardinality(A) <= n
      BY <3>1, FS_Subset, FS_CardinalityType
    <3> QED
      BY <2>1, <3>2
  <2> HIDE DEF n
  <2> QED
    BY <1>1, <2>1, <2>2
<1>5. ASSUME NEW c \in 0 .. n, NEW i \in -1 .. n - 1
      PROVE  /\ c * (n + 1) + (i + 1) \in 0 .. max
             /\ \A d \in 0 .. n, j \in -1 .. n - 1 :
                   c = d - 1 \/ (c = d /\ i = j - 1) =>
                      c * (n + 1) + (i + 1) < d * (n + 1) + (j + 1)
  <2> HIDE DEF n
  <2>1. c * (n + 1) \in 0 .. n * (n + 1)
    <3>1. c * (n + 1) \in Int /\ n * (n + 1) \in Int /\ c * (n + 1) >= 0
      BY <1>1
    <3>2. n * (n + 1) = c * (n + 1) + (n - c) * (n + 1) /\ (n - c) * (n + 1) >= 0
      BY <1>1
    <3> QED
      BY <1>1, <3>1, <3>2
  <2>2. ASSUME NEW d \in 0 .. n, c = d - 1
        PROVE  d * (n + 1) = c * (n + 1) + (n + 1)
    BY <1>1, <2>2
  <2> QED
    BY <1>1, <2>1, <2>2
<1>6. size \in [X -> 0 .. max]
  <2> HIDE DEF n, max, X
  <2> QED
    BY <1>4, <1>5
<1>7. ASSUME NEW w \in X \ D PROVE size[next[w]] < size[w]
  <2> DEFINE v == Walked(w, lo, hi, bits)
  <2>1. /\ v \in X /\ next[w] = v
        /\ \/ Cardinality(Filled(v.slots)) = Cardinality(Filled(w.slots)) - 1
           \/ v.slots = w.slots /\ v.i = w.i - 1
    BY WalkedType
  <2> HIDE DEF v, next, X, n, max, D
  <2>2. /\ Cardinality(Filled(v.slots)) \in 0 .. n /\ v.i \in -1 .. n - 1
        /\ Cardinality(Filled(w.slots)) \in 0 .. n /\ w.i \in -1 .. n - 1
    BY <2>1, <1>4
  <2>3. size[v] = Cardinality(Filled(v.slots)) * (n + 1) + (v.i + 1)
        /\ size[w] = Cardinality(Filled(w.slots)) * (n + 1) + (w.i + 1)
    BY <2>1
  <2> HIDE DEF size
  <2> QED
    BY <2>1, <2>2, <2>3, <1>5
<1>8. PICK f \in [X -> Y] : Resolves(f, X, D, V, next)
  <2>1. max \in Nat /\ slots \in Y
    <3> HIDE DEF n
    <3> QED
      BY <1>1
  <2> HIDE DEF n, X, Y, D, V, next, max, size
  <2> QED
    BY <2>1, <1>2, <1>3, <1>6, <1>7, Descends
<1> DEFINE Body(g) == [w \in Walk(bits) |->
              IF w.i < 0 THEN w.slots ELSE g[Walked(w, lo, hi, bits)]]
           Sweep == CHOOSE g : g = Body(g)
<1>9. f = Body(f)
  <2>1. f = [w \in X |-> f[w]]
    BY <1>8
  <2>2. ASSUME NEW w \in X
        PROVE  f[w] = IF w.i < 0 THEN w.slots ELSE f[Walked(w, lo, hi, bits)]
    <3>1. f[w] = IF w \in D THEN V[w] ELSE f[next[w]]
      BY <1>8 DEF Resolves
    <3> HIDE DEF X
    <3> QED
      BY <3>1
  <2> QED
    BY <2>1, <2>2
<1>10. Sweep = Body(Sweep)
  <2> HIDE DEF Body
  <2> QED
    BY <1>9
<1>11. Swept(slots, lo, hi, bits) = Sweep[[slots |-> slots, i |-> n - 1]]
  BY DEF Swept
<1>12. \A w \in Walk(bits) :
          Sweep[w] = IF w.i < 0 THEN w.slots ELSE Sweep[Walked(w, lo, hi, bits)]
  <2> HIDE DEF Sweep
  <2> QED
    BY <1>10
<1> QED
  <2> HIDE DEF Sweep, Body
  <2> QED
    BY <1>11, <1>12

(* A table that lookups can rely on. *)
Good(s, bits) == /\ s \in [Index(bits) -> Word]
                 /\ Distinct(s) /\ Chained(s, bits) /\ CanStop(s, {NULL_TAG})

(* r is what a removal of the range leaves of s. *)
Cleaned(s, r, lo, hi, bits) ==
    /\ Good(r, bits)
    /\ Held(r) = {v \in Held(s) : ~ InRange(v, lo, hi)}
    /\ Cardinality(Markers(r)) = Cardinality(Markers(s))
    /\ Cardinality(Filled(r)) <= Cardinality(Filled(s))

(* The walk has dealt with the slots behind i. *)
Behind(w, lo, hi, bits) ==
    /\ Good(w.slots, bits)
    /\ \A j \in Index(bits) : j > w.i => ~ InRange(w.slots[j], lo, hi)

(* What is left after a turn is left of the array before it, *)
LEMMA WalkedCleans ==
  ASSUME NEW bits \in Nat, NEW w \in Walk(bits), ~ (w.i < 0),
         NEW lo \in Int, NEW hi \in Int, hi <= FAKE_TAG, Behind(w, lo, hi, bits),
         NEW r, Cleaned(Walked(w, lo, hi, bits).slots, r, lo, hi, bits)
  PROVE  Cleaned(w.slots, r, lo, hi, bits)
<1> DEFINE n == HASHTABLE_SIZE(bits)
           v == Walked(w, lo, hi, bits)
           e == w.slots[w.i]
<1>1. w.i \in Index(bits) /\ w.slots \in [Index(bits) -> Word] /\ DOMAIN w.slots = Index(bits)
  <2>1. n \in Nat \ {0} /\ Index(bits) = 0 .. n - 1
    BY Sizes
  <2> QED
    BY <2>1 DEF Walk
<1>2. CASE ~ InRange(e, lo, hi)
  <2>1. v.slots = w.slots
    BY <1>2 DEF Walked, Walk
  <2> HIDE DEF v
  <2> QED
    BY <2>1 DEF v
<1>3. CASE InRange(e, lo, hi)
  <2>1. v.slots = CloseHole(w.slots, bits, w.i).slots
    BY <1>3 DEF Walked
  <2>2. IsReal(e) /\ e # NULL_TAG
    BY <1>1, <1>3, Words DEF InRange, IsReal
  <2>3. /\ Held(v.slots) = Held(w.slots) \ {e}
        /\ Cardinality(Markers(v.slots)) = Cardinality(Markers(w.slots))
        /\ Cardinality(Filled(v.slots)) = Cardinality(Filled(w.slots)) - 1
    <3> DEFINE c == CloseHole(w.slots, bits, w.i)
    <3>1. Distinct(w.slots)
      BY DEF Behind, Good
    <3>2. /\ Held(c.slots) = Held(w.slots) \ {e}
          /\ Cardinality(Markers(c.slots)) = Cardinality(Markers(w.slots))
          /\ Cardinality(Filled(c.slots)) = Cardinality(Filled(w.slots)) - 1
      BY <1>1, <2>2, <3>1, Removed
    <3> HIDE DEF v, c
    <3> QED
      BY <2>1, <3>2 DEF c
  <2>4. Cleaned(v.slots, r, lo, hi, bits)
    OBVIOUS
  <2>5. Cardinality(Filled(w.slots)) \in Nat /\ Cardinality(Filled(r)) \in Nat
    <3>1. DOMAIN r = Index(bits)
      BY <2>4 DEF Cleaned, Good
    <3>2. Filled(r) \subseteq Index(bits) /\ Filled(w.slots) \subseteq Index(bits)
      BY <1>1, <3>1 DEF Filled
    <3> QED
      BY <3>2, Sizes, FS_Subset, FS_CardinalityType
  <2> HIDE DEF v, e
  <2> QED
    BY <1>3, <2>3, <2>4, <2>5 DEF Cleaned
<1> QED
  BY <1>2, <1>3

(* and the walk leaves nothing of the range behind it. *)
LEMMA WalkedBehind ==
  ASSUME NEW bits \in Nat, NEW w \in Walk(bits), ~ (w.i < 0),
         NEW lo \in Int, NEW hi \in Int, hi <= FAKE_TAG, Behind(w, lo, hi, bits)
  PROVE  Behind(Walked(w, lo, hi, bits), lo, hi, bits)
<1> DEFINE n == HASHTABLE_SIZE(bits)
           v == Walked(w, lo, hi, bits)
           e == w.slots[w.i]
<1> SUFFICES Behind(v, lo, hi, bits)
  OBVIOUS
<1>1. n \in Nat \ {0} /\ Index(bits) = 0 .. n - 1
  BY Sizes
<1>2. /\ w.i \in Index(bits) /\ w.slots \in [Index(bits) -> Word]
      /\ w.i \in Int /\ DOMAIN w.slots = Index(bits)
  BY <1>1 DEF Walk
<1>3. \A j \in Index(bits) : j > w.i => ~ InRange(w.slots[j], lo, hi)
  BY DEF Behind
<1>4. CASE ~ InRange(e, lo, hi)
  <2>1. v.slots = w.slots /\ v.i = w.i - 1
    BY <1>4 DEF Walked, Walk
  <2> HIDE DEF v, n
  <2>2. \A j \in Index(bits) : j > v.i => ~ InRange(w.slots[j], lo, hi)
    BY <1>1, <1>2, <1>3, <1>4, <2>1
  <2> QED
    BY <2>1, <2>2 DEF Behind
<1>5. CASE InRange(e, lo, hi)
  <2> DEFINE c == CloseHole(w.slots, bits, w.i)
  <2>1. v.slots = c.slots /\ v.i = IF c.wrapped THEN n - 1 ELSE w.i
    BY <1>5 DEF Walked
  <2>2. w.slots[w.i] # NULL_TAG
    BY <1>5 DEF InRange
  <2>3. /\ c.slots \in [Index(bits) -> Word] /\ CanStop(c.slots, {NULL_TAG})
        /\ Chained(c.slots, bits) /\ Distinct(c.slots)
        /\ ~ c.wrapped =>
              \A j \in Index(bits) : j >= w.i /\ c.slots[j] # NULL_TAG =>
                 \E m \in Index(bits) : m > w.i /\ c.slots[j] = w.slots[m]
    <3>1. Distinct(w.slots) /\ Chained(w.slots, bits) /\ CanStop(w.slots, {NULL_TAG})
      BY DEF Behind, Good
    <3> QED
      BY <1>2, <2>2, <3>1, Removed
  <2>4. c.wrapped \in BOOLEAN
    BY <1>2, <2>2, Removed
  <2> HIDE DEF c, v, n
  <2>5. ASSUME NEW j \in Index(bits), j > v.i PROVE ~ InRange(c.slots[j], lo, hi)
    <3>1. ~ c.wrapped /\ j >= w.i
      BY <1>1, <1>2, <2>1, <2>4, <2>5
    <3> QED
      BY <1>3, <2>3, <3>1 DEF InRange
  <2> QED
    BY <2>1, <2>3, <2>5 DEF Behind, Good
<1> QED
  BY <1>4, <1>5

(* A range removal takes all entries of the range, and no other. *)
LEMMA SweptCleans ==
  ASSUME NEW bits \in Nat, NEW slots, Good(slots, bits),
         NEW lo \in Int, NEW hi \in Int, hi <= FAKE_TAG
  PROVE  Cleaned(slots, Swept(slots, lo, hi, bits), lo, hi, bits)
<1> DEFINE n == HASHTABLE_SIZE(bits)
           measure(w) == Cardinality(Filled(w.slots)) * (n + 1) + (w.i + 1)
<1>1. n \in Nat \ {0} /\ Index(bits) = 0 .. n - 1
  BY Sizes
<1>2. slots \in [Index(bits) -> Word]
  BY DEF Good
<1>3. PICK f :
         /\ \A w \in Walk(bits) :
               f[w] = IF w.i < 0 THEN w.slots ELSE f[Walked(w, lo, hi, bits)]
         /\ Swept(slots, lo, hi, bits) = f[[slots |-> slots, i |-> n - 1]]
  BY <1>2, Sweeping
<1>4. ASSUME NEW w \in Walk(bits), Behind(w, lo, hi, bits), w.i < 0
      PROVE  Cleaned(w.slots, f[w], lo, hi, bits)
  <2>1. f[w] = w.slots
    BY <1>3, <1>4
  <2>2. w.i \in Int /\ DOMAIN w.slots = Index(bits)
    BY DEF Walk
  <2>3. \A j \in Index(bits) : ~ InRange(w.slots[j], lo, hi)
    BY <1>1, <1>4, <2>2 DEF Behind
  <2>4. Held(w.slots) = {v \in Held(w.slots) : ~ InRange(v, lo, hi)}
    BY <2>2, <2>3 DEF Held
  <2>5. Cardinality(Filled(w.slots)) <= Cardinality(Filled(w.slots))
    <3>1. Filled(w.slots) \subseteq Index(bits)
      BY <2>2 DEF Filled
    <3> QED
      BY <3>1, Sizes, FS_Subset, FS_CardinalityType
  <2>6. Good(w.slots, bits)
    BY <1>4 DEF Behind
  <2> QED
    BY <2>1, <2>4, <2>5, <2>6 DEF Cleaned
<1> DEFINE G == {m \in Nat : \A w \in Walk(bits) :
                    Behind(w, lo, hi, bits) /\ measure(w) < m =>
                       Cleaned(w.slots, f[w], lo, hi, bits)}
<1>5. ASSUME NEW w \in Walk(bits)
      PROVE  /\ Cardinality(Filled(w.slots)) \in Nat /\ w.i \in -1 .. n - 1
             /\ measure(w) \in Nat
  <2>1. Filled(w.slots) \subseteq Index(bits) /\ w.i \in -1 .. n - 1
    BY DEF Walk, Filled
  <2>2. Cardinality(Filled(w.slots)) \in Nat
    BY <2>1, Sizes, FS_Subset, FS_CardinalityType
  <2>3. \A a, b \in Nat, i \in -1 .. n - 1 : a * (n + 1) + (i + 1) \in Nat
    <3> HIDE DEF n
    <3>1. \A a \in Nat : a * (n + 1) \in Nat
      BY <1>1
    <3> QED
      BY <1>1, <3>1
  <2> QED
    BY <2>1, <2>2, <2>3
<1>6. 0 \in G
  <2> HIDE DEF measure
  <2> QED
    BY <1>5
<1>7. ASSUME NEW m \in Nat, m \in G PROVE m + 1 \in G
  <2> SUFFICES ASSUME NEW w \in Walk(bits), Behind(w, lo, hi, bits), measure(w) < m + 1
               PROVE  Cleaned(w.slots, f[w], lo, hi, bits)
    OBVIOUS
  <2> SUFFICES ASSUME ~ (w.i < 0) PROVE Cleaned(w.slots, f[w], lo, hi, bits)
    BY <1>4
  <2> DEFINE v == Walked(w, lo, hi, bits)
  <2>1. f[w] = f[v]
    BY <1>3
  <2>2. /\ v \in Walk(bits)
        /\ \/ Cardinality(Filled(v.slots)) = Cardinality(Filled(w.slots)) - 1
           \/ v.slots = w.slots /\ v.i = w.i - 1
    BY WalkedType
  <2>3. Behind(v, lo, hi, bits)
    BY WalkedBehind
  <2>4. measure(v) < measure(w)
    <3> HIDE DEF v, n
    <3>1. /\ Cardinality(Filled(w.slots)) \in Nat /\ w.i \in -1 .. n - 1
          /\ Cardinality(Filled(v.slots)) \in Nat /\ v.i \in -1 .. n - 1
      BY <1>5, <2>2
    <3>2. ASSUME NEW c \in Nat, NEW d \in Nat, NEW i \in -1 .. n - 1, NEW j \in -1 .. n - 1,
                 d = c - 1 \/ (d = c /\ j = i - 1)
          PROVE  d * (n + 1) + (j + 1) < c * (n + 1) + (i + 1)
      <4>1. CASE d = c - 1
        <5>1. c * (n + 1) = d * (n + 1) + (n + 1) /\ d * (n + 1) \in Int
          BY <1>1, <4>1
        <5> QED
          BY <1>1, <5>1
      <4>2. CASE d = c /\ j = i - 1
        BY <1>1, <4>2
      <4> QED
        BY <3>2, <4>1, <4>2
    <3>3. Cardinality(Filled(v.slots)) = Cardinality(Filled(w.slots)) - 1
          \/ (Cardinality(Filled(v.slots)) = Cardinality(Filled(w.slots)) /\ v.i = w.i - 1)
      BY <2>2
    <3> QED
      BY <3>1, <3>2, <3>3
  <2> HIDE DEF v, measure
  <2>5. measure(v) < m
    BY <1>5, <2>2, <2>4
  <2>6. Cleaned(v.slots, f[v], lo, hi, bits)
    BY <1>7, <2>2, <2>3, <2>5
  <2> QED
    BY <2>1, <2>6, WalkedCleans DEF v
<1> DEFINE w == [slots |-> slots, i |-> n - 1]
<1>8. w \in Walk(bits) /\ w.slots = slots /\ w.i = n - 1
  <2>1. n - 1 \in -1 .. n - 1
    <3> HIDE DEF n
    <3> QED
      BY <1>1
  <2> QED
    BY <1>2, <2>1 DEF Walk
<1> HIDE DEF w
<1>9. Behind(w, lo, hi, bits)
  <2>1. \A j \in Index(bits) : ~ (j > n - 1)
    <3> HIDE DEF n
    <3> QED
      BY <1>1
  <2> QED
    BY <1>8, <2>1 DEF Behind
<1>10. measure(w) + 1 \in G
  <2>1. measure(w) \in Nat /\ measure(w) + 1 \in Nat
    BY <1>5, <1>8
  <2> HIDE DEF G, measure
  <2> QED
    BY <1>6, <1>7, <2>1, Climb
<1>11. Cleaned(w.slots, f[w], lo, hi, bits)
  <2>1. measure(w) < measure(w) + 1
    BY <1>5, <1>8
  <2> HIDE DEF measure
  <2> QED
    BY <1>8, <1>9, <1>10, <2>1
<1> QED
  BY <1>3, <1>8, <1>11 DEF w

-----------------------------------------------------------------------------
(***************************************************************************)
(* Counting: the arrays of tables hold tags, markers and empty slots.      *)
(***************************************************************************)
Slots(bits) == [Index(bits) -> Tag \cup {NULL_TAG, FAKE_TAG}]

(* An array of a table is one of words. *)
LEMMA SlotsAreWords == ASSUME NEW bits PROVE Slots(bits) \subseteq [Index(bits) -> Word]
BY Words DEF Slots

(* Slots are empty, or hold a marker or an entry, and no entry twice. *)
LEMMA Counts ==
  ASSUME NEW bits \in Nat, NEW s \in Slots(bits)
  PROVE  /\ Cardinality(RealIn(s)) \in Nat /\ Cardinality(Markers(s)) \in Nat
         /\ Cardinality(Filled(s)) = Cardinality(RealIn(s)) + Cardinality(Markers(s))
         /\ Cardinality(Filled(s)) \in Nat
         /\ Cardinality(Filled(s)) < HASHTABLE_SIZE(bits) <=> CanStop(s, {NULL_TAG})
         /\ Distinct(s) => /\ Cardinality(Reals(s)) = Cardinality(RealIn(s))
                           /\ IsFiniteSet(Reals(s))
<1>1. /\ DOMAIN s = Index(bits) /\ IsFiniteSet(Index(bits))
      /\ Cardinality(Index(bits)) = HASHTABLE_SIZE(bits)
  BY Sizes DEF Slots
<1>2. /\ RealIn(s) \subseteq Index(bits) /\ Markers(s) \subseteq Index(bits)
      /\ Filled(s) = RealIn(s) \cup Markers(s) /\ RealIn(s) \cap Markers(s) = {}
      /\ Filled(s) \subseteq Index(bits)
  BY <1>1, Words DEF RealIn, Markers, Filled, IsReal
<1>3. /\ IsFiniteSet(RealIn(s)) /\ Cardinality(RealIn(s)) \in Nat
      /\ IsFiniteSet(Markers(s)) /\ Cardinality(Markers(s)) \in Nat
      /\ IsFiniteSet(Filled(s)) /\ Cardinality(Filled(s)) \in Nat
  BY <1>1, <1>2, FS_Subset, FS_CardinalityType
<1>4. Cardinality(Filled(s)) = Cardinality(RealIn(s)) + Cardinality(Markers(s))
  <2>1. Cardinality(RealIn(s) \cup Markers(s))
           = Cardinality(RealIn(s)) + Cardinality(Markers(s))
                - Cardinality(RealIn(s) \cap Markers(s))
    BY <1>3, FS_Union
  <2>2. Cardinality(RealIn(s) \cap Markers(s)) = 0
    BY <1>2, FS_EmptySet
  <2> QED
    BY <1>2, <1>3, <2>1, <2>2
<1>5. Cardinality(Filled(s)) < HASHTABLE_SIZE(bits) <=> CanStop(s, {NULL_TAG})
  <2>1. Cardinality(Filled(s)) <= HASHTABLE_SIZE(bits) /\ HASHTABLE_SIZE(bits) \in Nat
    BY <1>1, <1>2, FS_Subset, Sizes
  <2>2. Cardinality(Filled(s)) = HASHTABLE_SIZE(bits) <=> Filled(s) = Index(bits)
    BY <1>1, <1>2, FS_Subset
  <2>3. Filled(s) = Index(bits) <=> ~ CanStop(s, {NULL_TAG})
    BY <1>1 DEF Filled, CanStop
  <2> QED
    BY <1>3, <2>1, <2>2, <2>3
<1>6. ASSUME Distinct(s)
      PROVE  Cardinality(Reals(s)) = Cardinality(RealIn(s)) /\ IsFiniteSet(Reals(s))
  <2> DEFINE f == [i \in RealIn(s) |-> s[i]]
  <2>1. \A i \in RealIn(s) : s[i] \in Reals(s)
    BY <1>1 DEF Slots, RealIn, Reals, IsReal
  <2>2. \A t \in Reals(s) : \E i \in RealIn(s) : s[i] = t
    BY <1>1, Words DEF RealIn, Reals
  <2>3. \A i, j \in RealIn(s) : s[i] = s[j] => i = j
    BY <1>1, <1>6 DEF RealIn, Distinct
  <2>4. f \in Bijection(RealIn(s), Reals(s))
    BY <2>1, <2>2, <2>3 DEF Bijection, Injection, Surjection, IsInjective
  <2> QED
    BY <1>3, <2>4, FS_Bijection DEF ExistsBijection
<1> QED
  BY <1>3, <1>4, <1>5, <1>6

(* The store of a tag that is not in the array *)
Stops == {{NULL_TAG}, {NULL_TAG, FAKE_TAG}}

Put(s, i, e) == [s EXCEPT ![i] = e]

(* The tag is in the array and found there, and a marker it replaced is gone. *)
LEMMA Stored ==
  ASSUME NEW bits \in Nat, NEW s \in Slots(bits), NEW t \in Tag, t \notin Reals(s),
         Distinct(s), Chained(s, bits), CanStop(s, {NULL_TAG}),
         NEW stop \in Stops
  PROVE  LET i == Probe(s, bits, t, stop)
             r == Put(s, i, t)
         IN  /\ i \in Index(bits) /\ s[i] \in stop
             /\ r \in Slots(bits) /\ Distinct(r) /\ Chained(r, bits)
             /\ Reals(r) = Reals(s) \cup {t}
             /\ Cardinality(RealIn(r)) = Cardinality(RealIn(s)) + 1
             /\ s[i] = FAKE_TAG => Cardinality(Markers(r)) = Cardinality(Markers(s)) - 1
             /\ s[i] # FAKE_TAG => Markers(r) = Markers(s)
<1> DEFINE i == Probe(s, bits, t, stop)
           r == Put(s, i, t)
<1>1. s \in [Index(bits) -> Word] /\ DOMAIN s = Index(bits)
  BY SlotsAreWords DEF Slots
<1>2. t \in Word /\ IsReal(t) /\ t # NULL_TAG /\ t # FAKE_TAG
  BY Words DEF IsReal
<1>3. /\ i \in Index(bits) /\ s[i] \in stop
      /\ \A j \in Index(bits) : Lost(HASH_FUNC(t, bits), j, i) => s[j] \notin stop
  <2>1. CanStop(s, stop)
    BY DEF CanStop, Stops
  <2> QED
    BY <1>1, <1>2, <2>1, ProbeStops
<1> HIDE DEF i
<1>4. /\ r \in Slots(bits) /\ DOMAIN r = Index(bits) /\ r[i] = t
      /\ \A j \in Index(bits) : j # i => r[j] = s[j]
  BY <1>1, <1>3 DEF Slots, Put
<1>5. s[i] \in {NULL_TAG, FAKE_TAG} /\ ~ IsReal(s[i]) /\ NULL_TAG \in stop
  BY <1>3 DEF IsReal, Stops
<1>6. /\ IsFiniteSet(RealIn(s)) /\ IsFiniteSet(Markers(s))
      /\ Cardinality(RealIn(s)) \in Nat /\ Cardinality(Markers(s)) \in Nat
  BY <1>1, Sizes, FS_Subset, FS_CardinalityType DEF RealIn, Markers
<1> HIDE DEF r
<1>7. \A j \in Index(bits) : s[j] # t
  BY <1>1 DEF Reals
<1>8. Distinct(r)
  BY <1>1, <1>4, <1>7 DEF Distinct
<1>9. Chained(r, bits)
  <2> SUFFICES ASSUME NEW x \in Index(bits), NEW y \in Index(bits), IsReal(r[x]),
                      Lost(HASH_FUNC(r[x], bits), y, x)
               PROVE  r[y] # NULL_TAG
    BY DEF Chained
  <2>1. CASE y = i
    BY <1>2, <1>4, <2>1
  <2>2. CASE y # i /\ x = i
    BY <1>3, <1>4, <1>5, <2>2
  <2>3. CASE y # i /\ x # i
    BY <1>4, <2>3 DEF Chained
  <2> QED
    BY <2>1, <2>2, <2>3
<1>10. Reals(r) = Reals(s) \cup {t}
  <2>1. ASSUME NEW v \in Tag
        PROVE  (\E j \in Index(bits) : r[j] = v) <=>
                  (\E j \in Index(bits) : s[j] = v) \/ v = t
    <3>1. v # s[i]
      BY <1>5, Words
    <3> QED
      BY <1>3, <1>4, <3>1
  <2> QED
    BY <1>1, <1>4, <2>1 DEF Reals
<1>11. Cardinality(RealIn(r)) = Cardinality(RealIn(s)) + 1
  <2>1. RealIn(r) = RealIn(s) \cup {i} /\ i \notin RealIn(s)
    BY <1>1, <1>2, <1>3, <1>4, <1>5 DEF RealIn
  <2> QED
    BY <1>6, <2>1, FS_AddElement
<1>12. ASSUME s[i] = FAKE_TAG PROVE Cardinality(Markers(r)) = Cardinality(Markers(s)) - 1
  <2>1. Markers(r) = Markers(s) \ {i} /\ i \in Markers(s)
    BY <1>1, <1>2, <1>3, <1>4, <1>12 DEF Markers
  <2> QED
    BY <1>6, <2>1, FS_RemoveElement
<1>13. ASSUME s[i] # FAKE_TAG PROVE Markers(r) = Markers(s)
  BY <1>1, <1>2, <1>3, <1>4, <1>13 DEF Markers
<1> QED
  BY <1>3, <1>4, <1>8, <1>9, <1>10, <1>11, <1>12, <1>13 DEF i, r

(* The entry of an IBL table that becomes a marker *)
LEMMA Unlinked ==
  ASSUME NEW bits \in Nat, NEW s \in Slots(bits), NEW i \in Index(bits), s[i] \in Tag,
         Distinct(s), Chained(s, bits)
  PROVE  LET r == Put(s, i, FAKE_TAG)
         IN  /\ r \in Slots(bits) /\ Distinct(r) /\ Chained(r, bits)
             /\ Reals(r) = Reals(s) \ {s[i]}
             /\ Cardinality(RealIn(r)) = Cardinality(RealIn(s)) - 1
             /\ Cardinality(Markers(r)) = Cardinality(Markers(s)) + 1
             /\ Cardinality(Filled(r)) = Cardinality(Filled(s))
<1> DEFINE r == Put(s, i, FAKE_TAG)
<1>1. DOMAIN s = Index(bits) /\ IsReal(s[i])
  BY Words DEF Slots
<1>2. /\ r \in Slots(bits) /\ DOMAIN r = Index(bits) /\ r[i] = FAKE_TAG
      /\ \A j \in Index(bits) : j # i => r[j] = s[j]
  BY <1>1 DEF Slots, Put
<1>3. /\ IsFiniteSet(RealIn(s)) /\ IsFiniteSet(Markers(s))
      /\ Cardinality(RealIn(s)) \in Nat /\ Cardinality(Markers(s)) \in Nat
  BY <1>1, Sizes, FS_Subset, FS_CardinalityType DEF RealIn, Markers
<1> HIDE DEF r
<1>4. Distinct(r)
  BY <1>1, <1>2 DEF Distinct, IsReal
<1>5. Chained(r, bits)
  BY <1>2, Words DEF Chained, IsReal
<1>6. Reals(r) = Reals(s) \ {s[i]}
  <2>1. ASSUME NEW t \in Tag
        PROVE  (\E j \in Index(bits) : r[j] = t) <=>
                  (\E j \in Index(bits) : s[j] = t) /\ t # s[i]
    BY <1>1, <1>2, <2>1, Words DEF Distinct, IsReal
  <2> QED
    BY <1>1, <1>2, <2>1 DEF Reals
<1>7. Cardinality(RealIn(r)) = Cardinality(RealIn(s)) - 1
  <2>1. RealIn(r) = RealIn(s) \ {i} /\ i \in RealIn(s)
    BY <1>1, <1>2 DEF RealIn, IsReal
  <2> QED
    BY <1>3, <2>1, FS_RemoveElement, ZenonT(30)
<1>8. Cardinality(Markers(r)) = Cardinality(Markers(s)) + 1
  <2>1. Markers(r) = Markers(s) \cup {i} /\ i \notin Markers(s)
    BY <1>1, <1>2 DEF Markers, IsReal
  <2> QED
    BY <1>3, <2>1, FS_AddElement
<1>9. Cardinality(Filled(r)) = Cardinality(Filled(s))
  <2>1. Filled(r) = Filled(s)
    BY <1>1, <1>2, Words DEF Filled, IsReal
  <2> QED
    BY <2>1
<1> QED
  BY <1>2, <1>4, <1>5, <1>6, <1>7, <1>8, <1>9 DEF r

(* What an array holds, besides markers, are tags. *)
LEMMA HeldReals ==
  ASSUME NEW bits \in Nat, NEW s \in Slots(bits),
         NEW r \in [Index(bits) -> Word], Held(r) \subseteq Held(s)
  PROVE  r \in Slots(bits) /\ Reals(r) = Held(r) \cap Tag /\ Reals(s) = Held(s) \cap Tag
<1>1. DOMAIN s = Index(bits) /\ DOMAIN r = Index(bits)
  BY DEF Slots
<1>2. Held(s) \subseteq Tag \cup {FAKE_TAG}
  BY <1>1 DEF Held, Slots
<1>3. \A i \in Index(bits) : r[i] = NULL_TAG \/ r[i] \in Held(r)
  BY <1>1 DEF Held
<1>4. \A i \in Index(bits) : r[i] \in Tag \cup {NULL_TAG, FAKE_TAG}
  BY <1>2, <1>3
<1>5. Tag \subseteq Word \ {NULL_TAG}
  BY Words DEF IsReal
<1> QED
  BY <1>1, <1>4, <1>5 DEF Slots, Reals, Held

(* An array with as many markers as one without any has none. *)
LEMMA NoMarkers ==
  ASSUME NEW bits \in Nat, NEW s, NEW r \in Slots(bits), Markers(s) = {},
         Cardinality(Markers(r)) = Cardinality(Markers(s))
  PROVE  Markers(r) = {}
<1>1. IsFiniteSet(Markers(r))
  BY Sizes, FS_Subset DEF Markers, Slots
<1> QED
  BY <1>1, FS_EmptySet

-----------------------------------------------------------------------------
(***************************************************************************)
(* Sizes and load factors                                                  *)
(***************************************************************************)
LEMMA ThresholdType ==
  ASSUME NEW bits \in Nat, NEW percent \in Nat
  PROVE  Threshold(bits, percent) \in Nat
<1>1. (HASHTABLE_SIZE(bits) + 1) * percent \in Nat
  BY Sizes
<1>2. \A a \in Nat : a \div 100 \in Nat
  OBVIOUS
<1> QED
  BY <1>1, <1>2 DEF Threshold

(* A table that holds no more than its threshold has an empty slot. *)
LEMMA ThresholdLeavesRoom ==
  ASSUME NEW bits \in Nat, bits >= InitBits
  PROVE  Threshold(bits, Load) < HASHTABLE_SIZE(bits)
<1> DEFINE l == HASHTABLE_SIZE(InitBits)
           u == HASHTABLE_SIZE(bits)
<1>1. /\ l \in Nat \ {0} /\ u \in Nat \ {0} /\ l <= u /\ Load \in 1 .. 99
      /\ ((l + 1) * Load) \div 100 < l
  BY LoadAssumption, Sizes, ShiftedGrows DEF Threshold, HASHTABLE_SIZE
<1> HIDE DEF l, u
<1>2. ASSUME NEW a \in Nat, NEW b \in Nat PROVE a \div 100 < b <=> a < 100 * b
  OBVIOUS
<1>3. (l + 1) * Load < 100 * l
  <2>1. (l + 1) * Load \in Nat
    BY <1>1
  <2> QED
    BY <1>1, <1>2, <2>1
<1>4. (u + 1) * Load < 100 * u
  <2>1. u * (100 - Load) >= l * (100 - Load)
    <3>1. (u - l) * (100 - Load) >= 0
      BY <1>1
    <3>2. u * (100 - Load) = l * (100 - Load) + (u - l) * (100 - Load)
      BY <1>1
    <3> QED
      BY <1>1, <3>1, <3>2
  <2>2. /\ u * (100 - Load) = 100 * u - u * Load /\ l * (100 - Load) = 100 * l - l * Load
        /\ (u + 1) * Load = u * Load + Load /\ (l + 1) * Load = l * Load + Load
        /\ u * Load \in Int /\ l * Load \in Int
    BY <1>1
  <2> QED
    BY <1>1, <1>3, <2>1, <2>2
<1>5. ((u + 1) * Load) \div 100 < u
  <2>1. (u + 1) * Load \in Nat
    BY <1>1
  <2> QED
    BY <1>1, <1>2, <1>4, <2>1
<1> QED
  BY <1>5 DEF Threshold, u

(* A large enough table can take any number of entries. *)
LEMMA ThresholdGrows ==
  ASSUME NEW bits \in Nat, NEW wanted \in Nat, bits >= 100 * wanted
  PROVE  wanted <= Threshold(bits, Load)
<1> DEFINE n == HASHTABLE_SIZE(bits)
<1>1. n \in Nat /\ n > bits /\ Load \in 1 .. 99
  BY Sizes, LoadAssumption
<1> HIDE DEF n
<1>2. (n + 1) * Load \in Nat /\ (n + 1) * Load >= 100 * wanted
  <2>1. (n + 1) * Load = (n + 1) + (n + 1) * (Load - 1) /\ (n + 1) * (Load - 1) \in Nat
    BY <1>1
  <2> QED
    BY <1>1, <2>1
<1>3. ASSUME NEW a \in Nat, a >= 100 * wanted PROVE wanted <= a \div 100
  BY <1>3
<1>4. wanted <= ((n + 1) * Load) \div 100
  BY <1>2, <1>3
<1> QED
  BY <1>4 DEF Threshold, n

(* What a table may hold, markers included *)
Limit(bits) == Threshold(bits, Load)

(* A table may hold an entry, not all it has slots for, and more if larger. *)
LEMMA Limits ==
  ASSUME NEW bits \in Nat, bits >= InitBits
  PROVE  /\ Limit(bits) \in Nat /\ Limit(bits) >= 1
         /\ HASHTABLE_SIZE(bits) \in Nat /\ Limit(bits) < HASHTABLE_SIZE(bits)
         /\ \A more \in Nat : more > bits => Limit(bits) + 1 <= Limit(more)
<1> DEFINE l == HASHTABLE_SIZE(InitBits)
           n == HASHTABLE_SIZE(bits)
<1>1. /\ l \in Nat /\ n \in Nat /\ l <= n /\ Load \in 1 .. 99 /\ l * Load >= 100
  BY LoadAssumption, Sizes, ShiftedGrows DEF HASHTABLE_SIZE
<1>2. Limit(bits) = ((n + 1) * Load) \div 100 /\ Limit(bits) < n
  BY ThresholdLeavesRoom DEF Limit, Threshold
<1>3. ASSUME NEW more \in Nat, more > bits
      PROVE  /\ HASHTABLE_SIZE(more) \in Nat /\ HASHTABLE_SIZE(more) >= 2 * n
             /\ Limit(more) = ((HASHTABLE_SIZE(more) + 1) * Load) \div 100
  <2>1. bits + 1 \in Nat /\ bits + 1 <= more
    BY <1>3
  <2>2. /\ Shifted[bits + 1] <= Shifted[more] /\ Shifted[bits + 1] = 2 * Shifted[bits]
        /\ Shifted[more] \in Nat /\ Shifted[bits] \in Nat
    BY <2>1, ShiftedGrows
  <2> QED
    BY <2>2 DEF HASHTABLE_SIZE, Limit, Threshold
<1> HIDE DEF l, n
<1>4. n * Load \in Nat /\ n * Load >= 100
  <2>1. (n - l) * Load >= 0 /\ n * Load = l * Load + (n - l) * Load
        /\ l * Load \in Int /\ (n - l) * Load \in Int
    BY <1>1
  <2> QED
    BY <1>1, <2>1
<1>5. (n + 1) * Load = n * Load + Load
  BY <1>1
<1>6. ASSUME NEW a \in Nat, a >= 100 PROVE a \div 100 \in Nat /\ a \div 100 >= 1
  BY <1>6
<1>7. Limit(bits) \in Nat /\ Limit(bits) >= 1
  <2>1. (n + 1) * Load \in Nat /\ (n + 1) * Load >= 100
    BY <1>1, <1>4, <1>5
  <2> QED
    BY <1>2, <1>6, <2>1
<1>8. ASSUME NEW more \in Nat, more > bits PROVE Limit(bits) + 1 <= Limit(more)
  <2> DEFINE m == HASHTABLE_SIZE(more)
  <2>1. m \in Nat /\ m >= 2 * n /\ Limit(more) = ((m + 1) * Load) \div 100
    BY <1>3, <1>8
  <2> HIDE DEF m
  <2>2. (m + 1) * Load \in Nat /\ (m + 1) * Load >= (n + 1) * Load + 100
    <3>1. /\ (m - 2 * n) * Load >= 0 /\ (m - 2 * n) * Load \in Int
          /\ (m + 1) * Load = (n + 1) * Load + n * Load + (m - 2 * n) * Load
      BY <1>1, <2>1
    <3> QED
      BY <1>1, <1>4, <1>5, <3>1
  <2>3. ASSUME NEW a \in Nat, NEW b \in Nat, b >= a + 100
        PROVE  a \div 100 + 1 <= b \div 100
    BY <2>3
  <2>4. (n + 1) * Load \in Nat
    BY <1>1
  <2> QED
    BY <1>2, <2>1, <2>2, <2>3, <2>4
<1> QED
  BY <1>1, <1>2, <1>7, <1>8 DEF n

-----------------------------------------------------------------------------
(***************************************************************************)
(* A table between two operations (n = 0), or with n entries counted that  *)
(* are still to be stored.  Markers and entries together stay within the   *)
(* threshold.                                                              *)
(***************************************************************************)
Shape(h) == h \in [table : Slots(h.hash_bits), hash_bits : Nat, entries : Int,
                   unlinked_entries : Int, groom_threshold : Nat]

Sound(h, n) ==
    /\ Shape(h)
    /\ h.hash_bits >= InitBits
    /\ Distinct(h.table)
    /\ Chained(h.table, h.hash_bits)
    /\ h.entries = Cardinality(RealIn(h.table)) + n
    /\ h.unlinked_entries = Cardinality(Markers(h.table))
    /\ Cardinality(Filled(h.table)) + n <= Limit(h.hash_bits)
    /\ h.groom_threshold = 0
    /\ config.kind = "primary" => Markers(h.table) = {}
    /\ config.max_capacity_bits # 0 => h.hash_bits <= config.max_capacity_bits

(* The fields of a sound table, whose lookups end *)
LEMMA SoundShape ==
  ASSUME NEW h, NEW n \in Int, Sound(h, n)
  PROVE  /\ h.hash_bits \in Nat /\ h.table \in Slots(h.hash_bits)
         /\ h.entries \in Int /\ h.unlinked_entries \in Int /\ h.groom_threshold \in Nat
         /\ h.table \in [Index(h.hash_bits) -> Word] /\ DOMAIN h.table = Index(h.hash_bits)
         /\ n >= 0 => Good(h.table, h.hash_bits)
<1>1. /\ h.hash_bits \in Nat /\ h.table \in Slots(h.hash_bits)
      /\ h.entries \in Int /\ h.unlinked_entries \in Int /\ h.groom_threshold \in Nat
  BY DEF Sound, Shape
<1>2. h.table \in [Index(h.hash_bits) -> Word] /\ DOMAIN h.table = Index(h.hash_bits)
  BY <1>1, SlotsAreWords DEF Slots
<1>3. ASSUME n >= 0 PROVE CanStop(h.table, {NULL_TAG})
  <2>1. /\ HASHTABLE_SIZE(h.hash_bits) \in Nat /\ Limit(h.hash_bits) \in Nat
        /\ Limit(h.hash_bits) < HASHTABLE_SIZE(h.hash_bits)
        /\ Cardinality(Filled(h.table)) \in Nat
    <3>1. ASSUME NEW b \in Nat, NEW q \in Slots(b)
          PROVE  Cardinality(Filled(q)) \in Nat
      BY Counts
    <3>2. h.hash_bits >= InitBits
      BY DEF Sound
    <3> QED
      BY <1>1, <3>1, <3>2, Limits
  <2>2. Cardinality(Filled(h.table)) < HASHTABLE_SIZE(h.hash_bits)
    BY <1>3, <2>1 DEF Sound
  <2> QED
    BY <1>1, <2>2, Counts
<1> QED
  BY <1>1, <1>2, <1>3 DEF Sound, Good

Rebuilt(h, slots, count, markers, threshold) ==
    [h EXCEPT !.table = slots, !.entries = count, !.unlinked_entries = markers,
              !.groom_threshold = threshold]

(* New values for some of the fields leave a table. *)
LEMMA ShapeKept ==
  ASSUME NEW h, Shape(h), NEW r, r \in Slots(h.hash_bits), NEW e \in Int, NEW u \in Int,
         NEW th \in Nat
  PROVE  LET g == Rebuilt(h, r, e, u, th)
         IN  /\ g.table = r /\ g.hash_bits = h.hash_bits /\ g.entries = e
             /\ g.unlinked_entries = u /\ g.groom_threshold = th /\ Shape(g)
<1> DEFINE g == Rebuilt(h, r, e, u, th)
           b == h.hash_bits
           S == Slots(b)
<1>1. h \in [table : S, hash_bits : Nat, entries : Int,
            unlinked_entries : Int, groom_threshold : Nat] /\ b = h.hash_bits
  BY DEF Shape
<1>2. r \in S
  OBVIOUS
<1> HIDE DEF b, S
<1>3. /\ g.table = r /\ g.hash_bits = b /\ g.entries = e
      /\ g.unlinked_entries = u /\ g.groom_threshold = th
      /\ g \in [table : S, hash_bits : Nat, entries : Int,
               unlinked_entries : Int, groom_threshold : Nat]
  BY <1>1, <1>2 DEF Rebuilt
<1> HIDE DEF g
<1>4. Shape(g)
  BY <1>1, <1>3 DEF Shape, S
<1> QED
  BY <1>1, <1>3, <1>4 DEF g

(* The store takes up the entry that was counted. *)
LEMMA StoreSound ==
  ASSUME NEW h, Sound(h, 1), NEW t \in Tag, t \notin Reals(h.table)
  PROVE  /\ Sound(Store(h, t), 0)
         /\ Store(h, t).hash_bits = h.hash_bits
         /\ Reals(Store(h, t).table) = Reals(h.table) \cup {t}
         /\ Markers(h.table) = {} => Markers(Store(h, t).table) = {}
<1> DEFINE stop == IF SharedLockless THEN {NULL_TAG} ELSE {NULL_TAG, FAKE_TAG}
           i == Probe(h.table, h.hash_bits, t, stop)
           r == [h.table EXCEPT ![i] = t]
           g == Store(h, t)
<1> SUFFICES /\ Sound(g, 0) /\ g.hash_bits = h.hash_bits
             /\ Reals(g.table) = Reals(h.table) \cup {t}
             /\ Markers(h.table) = {} => Markers(g.table) = {}
  OBVIOUS
<1>1. /\ h.hash_bits \in Nat /\ h.table \in Slots(h.hash_bits)
      /\ h.entries \in Int /\ h.unlinked_entries \in Int /\ h.groom_threshold \in Nat
      /\ Good(h.table, h.hash_bits)
  BY SoundShape
<1>2. stop \in Stops
  BY DEF Stops
<1> HIDE DEF stop
<1>3. /\ i \in Index(h.hash_bits) /\ h.table[i] \in stop
      /\ r \in Slots(h.hash_bits) /\ Distinct(r) /\ Chained(r, h.hash_bits)
      /\ Reals(r) = Reals(h.table) \cup {t}
      /\ Cardinality(RealIn(r)) = Cardinality(RealIn(h.table)) + 1
      /\ h.table[i] = FAKE_TAG => Cardinality(Markers(r)) = Cardinality(Markers(h.table)) - 1
      /\ h.table[i] # FAKE_TAG => Markers(r) = Markers(h.table)
  <2> DEFINE b == h.hash_bits
             s == h.table
             j == Probe(s, b, t, stop)
             q == Put(s, j, t)
  <2>1. /\ b \in Nat /\ s \in Slots(b) /\ t \notin Reals(s)
        /\ Distinct(s) /\ Chained(s, b) /\ CanStop(s, {NULL_TAG})
    BY <1>1 DEF Good
  <2> HIDE DEF b, s
  <2>2. /\ j \in Index(b) /\ s[j] \in stop
        /\ q \in Slots(b) /\ Distinct(q) /\ Chained(q, b)
        /\ Reals(q) = Reals(s) \cup {t}
        /\ Cardinality(RealIn(q)) = Cardinality(RealIn(s)) + 1
        /\ s[j] = FAKE_TAG => Cardinality(Markers(q)) = Cardinality(Markers(s)) - 1
        /\ s[j] # FAKE_TAG => Markers(q) = Markers(s)
    BY <1>2, <2>1, Stored
  <2> QED
    BY <2>2 DEF b, s, Put
<1>4. g = [h EXCEPT !.table[i] = t,
                    !.unlinked_entries = IF h.table[i] = FAKE_TAG THEN @ - 1 ELSE @]
  BY DEF Store, stop
<1> HIDE DEF g, i
<1>5. /\ g.table = r /\ g.hash_bits = h.hash_bits /\ g.entries = h.entries
      /\ g.unlinked_entries = IF h.table[i] = FAKE_TAG THEN h.unlinked_entries - 1
                              ELSE h.unlinked_entries
      /\ g.groom_threshold = h.groom_threshold
      /\ Shape(g)
  <2> DEFINE u == IF h.table[i] = FAKE_TAG THEN h.unlinked_entries - 1
                  ELSE h.unlinked_entries
  <2>1. u \in Int /\ Shape(h)
    BY <1>1 DEF Sound
  <2>2. g = Rebuilt(h, r, h.entries, u, h.groom_threshold)
    BY <1>4, <2>1 DEF Shape, Rebuilt
  <2> HIDE DEF r, u
  <2>3. /\ g.table = r /\ g.hash_bits = h.hash_bits /\ g.entries = h.entries
        /\ g.unlinked_entries = u /\ g.groom_threshold = h.groom_threshold /\ Shape(g)
    BY <1>1, <1>3, <2>1, <2>2, ShapeKept
  <2> QED
    BY <2>3 DEF u
<1> HIDE DEF r
<1>6. /\ Cardinality(RealIn(h.table)) \in Nat /\ Cardinality(Markers(h.table)) \in Nat
      /\ Cardinality(Filled(h.table))
            = Cardinality(RealIn(h.table)) + Cardinality(Markers(h.table))
      /\ Cardinality(RealIn(r)) \in Nat /\ Cardinality(Markers(r)) \in Nat
      /\ Cardinality(Filled(r)) = Cardinality(RealIn(r)) + Cardinality(Markers(r))
      /\ Limit(h.hash_bits) \in Nat
  BY <1>1, <1>3, Counts, Limits DEF Sound
<1>7. g.entries = Cardinality(RealIn(r)) + 0
  BY <1>3, <1>5, <1>6 DEF Sound
<1>8. g.unlinked_entries = Cardinality(Markers(r))
  BY <1>3, <1>5 DEF Sound
<1>9. Cardinality(Filled(r)) + 0 <= Limit(h.hash_bits)
  BY <1>3, <1>6 DEF Sound
<1>10. Markers(h.table) = {} => Markers(r) = {}
  <2>1. ASSUME Markers(h.table) = {} PROVE h.table[i] # FAKE_TAG
    BY <1>1, <1>3, <2>1 DEF Markers, Slots
  <2> QED
    BY <1>3, <2>1
<1> QED
  BY <1>3, <1>5, <1>7, <1>8, <1>9, <1>10 DEF Sound

(* A deletion takes one tag, *)
LEMMA RemoveSound ==
  ASSUME NEW h, Sound(h, 0), NEW i \in Index(h.hash_bits), h.table[i] \in Tag
  PROVE  /\ Sound(RemoveAt(h, i), 0)
         /\ Reals(RemoveAt(h, i).table) = Reals(h.table) \ {h.table[i]}
<1> DEFINE r == CloseHole(h.table, h.hash_bits, i).slots
           g == RemoveAt(h, i)
<1> SUFFICES Sound(g, 0) /\ Reals(g.table) = Reals(h.table) \ {h.table[i]}
  OBVIOUS
<1>1. /\ h.hash_bits \in Nat /\ h.table \in Slots(h.hash_bits)
      /\ h.entries \in Int /\ h.unlinked_entries \in Int /\ h.groom_threshold \in Nat
      /\ Good(h.table, h.hash_bits) /\ DOMAIN h.table = Index(h.hash_bits)
  BY SoundShape
<1>2. IsReal(h.table[i]) /\ h.table[i] # NULL_TAG
  BY Words DEF IsReal
<1>3. /\ r \in [Index(h.hash_bits) -> Word]
      /\ Cardinality(Filled(r)) = Cardinality(Filled(h.table)) - 1
      /\ Chained(r, h.hash_bits) /\ Distinct(r)
      /\ Cardinality(Markers(r)) = Cardinality(Markers(h.table))
      /\ Held(r) = Held(h.table) \ {h.table[i]}
  <2> DEFINE b == h.hash_bits
             s == h.table
             q == CloseHole(s, b, i).slots
  <2>1. /\ b \in Nat /\ s \in [Index(b) -> Word] /\ i \in Index(b)
        /\ IsReal(s[i]) /\ s[i] # NULL_TAG
        /\ Distinct(s) /\ Chained(s, b) /\ CanStop(s, {NULL_TAG})
    BY <1>1, <1>2 DEF Good
  <2> HIDE DEF b, s
  <2>2. /\ q \in [Index(b) -> Word]
        /\ Cardinality(Filled(q)) = Cardinality(Filled(s)) - 1
        /\ Chained(q, b) /\ Distinct(q)
        /\ Cardinality(Markers(q)) = Cardinality(Markers(s))
        /\ Held(q) = Held(s) \ {s[i]}
    BY <2>1, Removed, ZenonT(30)
  <2> QED
    BY <2>2 DEF b, s
<1>4. g = [h EXCEPT !.table = r, !.entries = @ - 1]
  BY DEF RemoveAt
<1> HIDE DEF g, r
<1>5. r \in Slots(h.hash_bits) /\ Reals(r) = Reals(h.table) \ {h.table[i]}
  BY <1>1, <1>3, HeldReals
<1>6. /\ g.table = r /\ g.hash_bits = h.hash_bits /\ g.entries = h.entries - 1
      /\ g.unlinked_entries = h.unlinked_entries
      /\ g.groom_threshold = h.groom_threshold
      /\ Shape(g)
  <2>1. Shape(h) /\ h.entries - 1 \in Int
    BY <1>1 DEF Sound
  <2>2. g = Rebuilt(h, r, h.entries - 1, h.unlinked_entries, h.groom_threshold)
    BY <1>4, <2>1 DEF Shape, Rebuilt
  <2> QED
    BY <1>1, <1>5, <2>1, <2>2, ShapeKept
<1>7. /\ Cardinality(RealIn(h.table)) \in Nat /\ Cardinality(Markers(h.table)) \in Nat
      /\ Cardinality(Filled(h.table))
            = Cardinality(RealIn(h.table)) + Cardinality(Markers(h.table))
      /\ Cardinality(RealIn(r)) \in Nat /\ Cardinality(Markers(r)) \in Nat
      /\ Cardinality(Filled(r)) = Cardinality(RealIn(r)) + Cardinality(Markers(r))
      /\ Limit(h.hash_bits) \in Nat
  BY <1>1, <1>5, Counts, Limits DEF Sound
<1>8. /\ g.entries = Cardinality(RealIn(r)) + 0
      /\ g.unlinked_entries = Cardinality(Markers(r))
      /\ Cardinality(Filled(r)) + 0 <= Limit(h.hash_bits)
  BY <1>3, <1>6, <1>7 DEF Sound
<1>9. Markers(h.table) = {} => Markers(r) = {}
  BY <1>1, <1>3, <1>5, NoMarkers
<1> QED
  BY <1>3, <1>5, <1>6, <1>8, <1>9 DEF Sound

(* and a range removal those of the range. *)
LEMMA RangeSound ==
  ASSUME NEW h, NEW n \in Int, Sound(h, n), CanStop(h.table, {NULL_TAG}),
         NEW lo \in Int, NEW hi \in Int, hi <= FAKE_TAG
  PROVE  LET g == RangeRemoved(h, lo, hi)
         IN  /\ Sound(g, n)
             /\ g.hash_bits = h.hash_bits
             /\ Reals(g.table) = {t \in Reals(h.table) : ~ InRange(t, lo, hi)}
             /\ Markers(h.table) = {} => Markers(g.table) = {}
<1> DEFINE r == Swept(h.table, lo, hi, h.hash_bits)
           g == RangeRemoved(h, lo, hi)
<1> SUFFICES /\ Sound(g, n) /\ g.hash_bits = h.hash_bits
             /\ Reals(g.table) = {t \in Reals(h.table) : ~ InRange(t, lo, hi)}
             /\ Markers(h.table) = {} => Markers(g.table) = {}
  OBVIOUS
<1>1. /\ h.hash_bits \in Nat /\ h.table \in Slots(h.hash_bits)
      /\ h.entries \in Int /\ h.unlinked_entries \in Int /\ h.groom_threshold \in Nat
      /\ h.table \in [Index(h.hash_bits) -> Word]
  BY SoundShape
<1>2. Good(h.table, h.hash_bits)
  BY <1>1 DEF Sound, Good
<1>3. Cleaned(h.table, r, lo, hi, h.hash_bits)
  BY <1>1, <1>2, SweptCleans
<1>4. g = [h EXCEPT !.table = r,
                    !.entries = @ - (Cardinality(Reals(h.table)) - Cardinality(Reals(r)))]
  BY DEF RangeRemoved
<1> HIDE DEF g, r
<1>5. /\ r \in Slots(h.hash_bits)
      /\ Reals(r) = {t \in Reals(h.table) : ~ InRange(t, lo, hi)}
  <2>1. r \in [Index(h.hash_bits) -> Word] /\ Held(r) \subseteq Held(h.table)
    BY <1>3 DEF Cleaned, Good
  <2>2. r \in Slots(h.hash_bits) /\ Reals(r) = Held(r) \cap Tag
        /\ Reals(h.table) = Held(h.table) \cap Tag
    BY <1>1, <2>1, HeldReals
  <2> QED
    BY <1>3, <2>2 DEF Cleaned
<1>6. /\ Cardinality(RealIn(h.table)) \in Nat /\ Cardinality(RealIn(r)) \in Nat
      /\ Cardinality(Reals(h.table)) = Cardinality(RealIn(h.table))
      /\ Cardinality(Reals(r)) = Cardinality(RealIn(r))
      /\ Cardinality(Filled(r)) \in Nat /\ Cardinality(Filled(h.table)) \in Nat
      /\ Limit(h.hash_bits) \in Nat
  BY <1>1, <1>2, <1>3, <1>5, Counts, Limits DEF Cleaned, Good, Sound
<1>7. /\ g.table = r /\ g.hash_bits = h.hash_bits
      /\ g.entries = h.entries - (Cardinality(Reals(h.table)) - Cardinality(Reals(r)))
      /\ g.unlinked_entries = h.unlinked_entries
      /\ g.groom_threshold = h.groom_threshold
      /\ Shape(g)
  <2> DEFINE e == h.entries - (Cardinality(Reals(h.table)) - Cardinality(Reals(r)))
  <2>1. Shape(h) /\ e \in Int
    BY <1>1, <1>6 DEF Sound
  <2>2. g = Rebuilt(h, r, e, h.unlinked_entries, h.groom_threshold)
    BY <1>4, <2>1 DEF Shape, Rebuilt
  <2> HIDE DEF e
  <2>3. /\ g.table = r /\ g.hash_bits = h.hash_bits /\ g.entries = e
        /\ g.unlinked_entries = h.unlinked_entries
        /\ g.groom_threshold = h.groom_threshold /\ Shape(g)
    BY <1>1, <1>5, <2>1, <2>2, ShapeKept
  <2> QED
    BY <2>3 DEF e
<1>8. /\ g.entries = Cardinality(RealIn(r)) + n
      /\ g.unlinked_entries = Cardinality(Markers(r))
      /\ Cardinality(Filled(r)) + n <= Limit(h.hash_bits)
  BY <1>3, <1>6, <1>7 DEF Sound, Cleaned
<1>9. Markers(h.table) = {} => Markers(r) = {}
  BY <1>1, <1>3, <1>5, NoMarkers DEF Cleaned
<1> QED
  BY <1>3, <1>5, <1>7, <1>8, <1>9 DEF Sound, Cleaned, Good

-----------------------------------------------------------------------------
(***************************************************************************)
(* How many bits a resized table has                                       *)
(***************************************************************************)
(* The new table has room, or is as large as it may be. *)
LEMMA NewBitsFit ==
  ASSUME NEW h, h.hash_bits \in Nat, NEW wanted \in Nat,
         config.max_capacity_bits \in Nat,
         config.max_capacity_bits # 0 => h.hash_bits <= config.max_capacity_bits
  PROVE  LET b == NewBits(h, wanted)
         IN  /\ b \in Nat /\ b >= h.hash_bits
             /\ config.max_capacity_bits # 0 => b <= config.max_capacity_bits
             /\ \/ /\ Lockless /\ b = h.hash_bits
                   /\ h.entries <= Threshold(h.hash_bits, Load) \/ AtMaxBits(h)
                \/ wanted <= Threshold(b, Load)
                \/ b = config.max_capacity_bits
<1> DEFINE max == config.max_capacity_bits
           l == h.hash_bits
           Fits(b) == wanted <= Threshold(b, Load) \/ b = max
           Least(b) == Fits(b) /\ \A c \in l .. b - 1 : wanted > Threshold(c, Load) /\ c # max
           b == NewBits(h, wanted)
<1>1. CASE Lockless /\ (h.entries <= Threshold(l, Load) \/ AtMaxBits(h))
  <2>1. b = l
    BY <1>1 DEF NewBits
  <2> QED
    BY <1>1, <2>1
<1>2. CASE ~ (Lockless /\ (h.entries <= Threshold(l, Load) \/ AtMaxBits(h)))
  <2>1. b = CHOOSE x \in l .. l + 100 * wanted : Least(x)
    BY <1>2 DEF NewBits
  <2> HIDE DEF b
  <2> DEFINE S == {x \in Nat : x >= l /\ Fits(x)}
  <2>2. l + 100 * wanted \in S
    BY ThresholdGrows
  <2>3. PICK x \in S : \A y \in S : x <= y
    <3>1. S \in SUBSET Nat /\ S # {}
      BY <2>2
    <3> HIDE DEF S
    <3> QED
      BY <3>1, LeastOf
  <2>4. ASSUME NEW c \in l .. x - 1 PROVE wanted > Threshold(c, Load) /\ c # max
    <3>1. c \in Nat /\ c >= l /\ ~ (x <= c)
      BY <2>3
    <3>2. ~ Fits(c)
      BY <2>3, <3>1
    <3>3. Threshold(c, Load) \in Nat
      <4>1. Load \in Nat
        BY LoadAssumption
      <4> QED
        BY <3>1, <4>1, ThresholdType
    <3> QED
      BY <3>2, <3>3
  <2>5. x \in l .. l + 100 * wanted /\ Least(x)
    BY <2>2, <2>3, <2>4
  <2>6. b \in l .. l + 100 * wanted /\ Least(b)
    <3> HIDE DEF Found
    <3> QED
      BY <2>1, <2>5
  <2>7. ASSUME max # 0 PROVE b <= max
    <3>1. l <= max
      BY <2>7
    <3> QED
      BY <2>6, <3>1
  <2> QED
    BY <2>6, <2>7 DEF b
<1> QED
  BY <1>1, <1>2

-----------------------------------------------------------------------------
(***************************************************************************)
(* A rehash adds the real entries of the old table to an empty one.        *)
(***************************************************************************)
LEMMA EmptySound ==
  ASSUME config \in Config, NEW bits \in Nat, bits >= InitBits,
         config.max_capacity_bits # 0 => bits <= config.max_capacity_bits
  PROVE  LET e == EmptyTable(bits)
         IN  /\ Sound(e, 0) /\ e.hash_bits = bits
             /\ Reals(e.table) = {} /\ Markers(e.table) = {}
<1> DEFINE e == EmptyTable(bits)
<1> SUFFICES /\ Sound(e, 0) /\ e.hash_bits = bits
             /\ Reals(e.table) = {} /\ Markers(e.table) = {}
  OBVIOUS
<1>1. Threshold(bits, 0) = 0
  <2>1. HASHTABLE_SIZE(bits) \in Nat
    BY Sizes
  <2>2. (HASHTABLE_SIZE(bits) + 1) * 0 = 0 /\ 0 \div 100 = 0
    BY <2>1
  <2> QED
    BY <2>2 DEF Threshold
<1> DEFINE s == [i \in Index(bits) |-> NULL_TAG]
<1>4. /\ e.table = s /\ e.hash_bits = bits /\ e.entries = 0 /\ e.unlinked_entries = 0
      /\ e.groom_threshold = 0
      /\ e = [table |-> s, hash_bits |-> bits, entries |-> 0, unlinked_entries |-> 0,
              groom_threshold |-> 0]
  BY <1>1 DEF EmptyTable
<1>5. s \in Slots(bits) /\ DOMAIN s = Index(bits) /\ \A i \in Index(bits) : s[i] = NULL_TAG
  BY DEF Slots
<1> HIDE DEF e, s
<1>6. Shape(e)
  BY <1>4, <1>5 DEF Shape
<1>7. /\ RealIn(s) = {} /\ Markers(s) = {} /\ Filled(s) = {} /\ Reals(s) = {}
      /\ Distinct(s) /\ Chained(s, bits)
  BY <1>5, Words DEF RealIn, Markers, Filled, Reals, Distinct, Chained, IsReal
<1>8. Cardinality({}) = 0 /\ Limit(bits) \in Nat
  BY FS_EmptySet, Limits
<1> QED
  BY <1>4, <1>6, <1>7, <1>8 DEF Sound

Readded(a, e) == IF IsReal(e) THEN Store(Entered(a, 1), e) ELSE a

(* An entry is counted, or no longer. *)
Counted(h, k) == [h EXCEPT !.entries = @ + k]

(* Without a groom threshold check_size only counts, before it compares. *)
LEMMA EnteredIs ==
  ASSUME NEW h, h.groom_threshold = 0, NEW k
  PROVE  Entered(h, k) = Counted(h, k)
BY DEF Entered, Counted

(* The new table, entry by entry *)
LEMMA Rehashing ==
  ASSUME config \in Config, NEW h, h.hash_bits \in Nat, h.table \in Slots(h.hash_bits),
         NEW bits \in Nat
  PROVE  \E f :
            /\ f[-1] = EmptyTable(bits)
            /\ \A i \in Index(h.hash_bits) : f[i] = Readded(f[i - 1], h.table[i])
            /\ Rehashed(h, bits) = f[HASHTABLE_SIZE(h.hash_bits) - 1]
<1> DEFINE n == HASHTABLE_SIZE(h.hash_bits)
           S == [table : Slots(bits), hash_bits : Nat, entries : Int,
                 unlinked_entries : Int, groom_threshold : {0}]
           s0 == EmptyTable(bits)
           F == [k \in 1 .. n |-> [a \in S |-> Readded(a, h.table[k - 1])]]
<1>1. n \in Nat \ {0} /\ Index(h.hash_bits) = 0 .. n - 1
  BY Sizes
<1>2. s0 \in S
  <2>1. Threshold(bits, 0) = 0
    <3>1. HASHTABLE_SIZE(bits) \in Nat
      BY Sizes
    <3>2. (HASHTABLE_SIZE(bits) + 1) * 0 = 0 /\ 0 \div 100 = 0
      BY <3>1
    <3> QED
      BY <3>2 DEF Threshold
  <2>2. [i \in Index(bits) |-> NULL_TAG] \in Slots(bits)
    BY DEF Slots
  <2> QED
    BY <2>1, <2>2 DEF EmptyTable
<1>3. ASSUME NEW a \in S, NEW e \in Tag \cup {NULL_TAG, FAKE_TAG} PROVE Readded(a, e) \in S
  <2>1. CASE IsReal(e)
    <3> DEFINE b == Entered(a, 1)
               i == Probe(b.table, b.hash_bits, e,
                          IF SharedLockless THEN {NULL_TAG} ELSE {NULL_TAG, FAKE_TAG})
               g == Store(b, e)
    <3>1. b \in S /\ e \in Tag
      <4>1. b = [a EXCEPT !.entries = @ + 1]
        BY EnteredIs DEF Counted
      <4> HIDE DEF b
      <4> QED
        BY <2>1, <4>1 DEF IsReal
    <3>2. g = [b EXCEPT !.table[i] = e,
                        !.unlinked_entries = IF b.table[i] = FAKE_TAG THEN @ - 1 ELSE @]
      BY DEF Store
    <3> HIDE DEF b, i, g
    <3>3. [b.table EXCEPT ![i] = e] \in Slots(bits)
      <4> DEFINE q == b.table
      <4>1. q \in [Index(bits) -> Tag \cup {NULL_TAG, FAKE_TAG}]
        BY <3>1 DEF Slots
      <4> HIDE DEF q
      <4>2. [q EXCEPT ![i] = e] \in [Index(bits) -> Tag \cup {NULL_TAG, FAKE_TAG}]
        BY <3>1, <4>1
      <4> QED
        BY <4>2 DEF Slots, q
    <3>4. g \in S
      <4> DEFINE q == [b.table EXCEPT ![i] = e]
                 u == IF b.table[i] = FAKE_TAG THEN b.unlinked_entries - 1
                      ELSE b.unlinked_entries
      <4>1. g = [b EXCEPT !.table = q, !.unlinked_entries = u]
        BY <3>1, <3>2
      <4>2. q \in Slots(bits) /\ u \in Int
        BY <3>1, <3>3
      <4> HIDE DEF q, u
      <4> QED
        BY <3>1, <4>1, <4>2
    <3> QED
      BY <2>1, <3>4 DEF Readded, g, b
  <2>2. CASE ~ IsReal(e)
    BY <2>2 DEF Readded
  <2> QED
    BY <2>1, <2>2
<1>4. ASSUME NEW i \in Index(h.hash_bits) PROVE h.table[i] \in Tag \cup {NULL_TAG, FAKE_TAG}
  BY DEF Slots
<1>5. F \in [1 .. n -> [S -> S]]
  <2>1. ASSUME NEW k \in 1 .. n, NEW a \in S PROVE Readded(a, h.table[k - 1]) \in S
    <3>1. k - 1 \in Index(h.hash_bits)
      <4> HIDE DEF n
      <4> QED
        BY <1>1
    <3> HIDE DEF S
    <3> QED
      BY <3>1, <1>3, <1>4
  <2> HIDE DEF S, n
  <2> QED
    BY <2>1
<1>6. PICK f \in [0 .. n -> S] : Turns(f, s0, F, n)
  <2> HIDE DEF S, n, F, s0
  <2> QED
    BY <1>1, <1>2, <1>5, Iterates
<1>7. ASSUME NEW k \in 1 .. n PROVE f[k] = Readded(f[k - 1], h.table[k - 1])
  <2>1. k - 1 \in 0 .. n /\ f[k - 1] \in S /\ f[k] = F[k][f[k - 1]]
    <3> HIDE DEF F, n, S, s0
    <3> QED
      BY <1>1, <1>6 DEF Turns
  <2> HIDE DEF S, n
  <2> QED
    BY <2>1
<1> DEFINE Body(g) == [i \in -1 .. HASHTABLE_SIZE(h.hash_bits) - 1 |->
              IF i < 0 THEN EmptyTable(bits)
              ELSE IF IsReal(h.table[i])
              THEN Store(Entered(g[i - 1], 1), h.table[i])
              ELSE g[i - 1]]
           Added == CHOOSE g : g = Body(g)
           shifted == [i \in -1 .. n - 1 |-> f[i + 1]]
<1>8. shifted = Body(shifted)
  <2>1. ASSUME NEW i \in -1 .. n - 1
        PROVE  shifted[i] = IF i < 0 THEN EmptyTable(bits)
                            ELSE IF IsReal(h.table[i])
                            THEN Store(Entered(shifted[i - 1], 1), h.table[i])
                            ELSE shifted[i - 1]
    <3>1. CASE i < 0
      <4>1. i = -1 /\ f[0] = s0 /\ i + 1 = 0
        <5> HIDE DEF n, s0
        <5> QED
          BY <1>1, <1>6, <3>1 DEF Turns
      <4> HIDE DEF n
      <4> QED
        BY <4>1
    <3>2. CASE ~ (i < 0)
      <4>1. i + 1 \in 1 .. n /\ (i + 1) - 1 = i /\ i - 1 \in -1 .. n - 1 /\ (i - 1) + 1 = i
        <5> HIDE DEF n
        <5> QED
          BY <1>1, <3>2
      <4>2. shifted[i] = f[i + 1] /\ shifted[i - 1] = f[i]
        <5> HIDE DEF n
        <5> QED
          BY <4>1
      <4> DEFINE k == i + 1
      <4>3. k \in 1 .. n /\ k - 1 = i /\ shifted[i] = f[k]
        BY <4>1, <4>2
      <4> HIDE DEF k, shifted
      <4>4. f[k] = Readded(f[i], h.table[i])
        BY <1>7, <4>3
      <4> QED
        BY <3>2, <4>2, <4>3, <4>4 DEF Readded
    <3> QED
      BY <3>1, <3>2
  <2>2. shifted = [i \in -1 .. n - 1 |-> shifted[i]]
    OBVIOUS
  <2> HIDE DEF shifted
  <2> QED
    BY <2>1, <2>2
<1>9. Added = Body(Added)
  <2> HIDE DEF Body, shifted
  <2> QED
    BY <1>8
<1>10. Rehashed(h, bits) = Added[n - 1]
  BY DEF Rehashed
<1>11. Added[-1] = EmptyTable(bits)
  <2> HIDE DEF Added
  <2> QED
    BY <1>1, <1>9
<1>12. ASSUME NEW i \in Index(h.hash_bits)
       PROVE  Added[i] = Readded(Added[i - 1], h.table[i])
  <2> HIDE DEF Added
  <2>1. i \in -1 .. n - 1 /\ ~ (i < 0)
    <3>1. ASSUME NEW m \in Nat, NEW j \in 0 .. m - 1 PROVE j \in -1 .. m - 1 /\ ~ (j < 0)
      OBVIOUS
    <3> HIDE DEF n, S, F, s0, Body, shifted
    <3>2. n \in Nat /\ i \in 0 .. n - 1
      BY <1>1
    <3> QED
      BY <3>1, <3>2
  <2> QED
    BY <1>9, <2>1 DEF Readded
<1> QED
  <2> HIDE DEF Added, Body
  <2> QED
    BY <1>10, <1>11, <1>12

(* To count entries in advance changes no other field, *)
LEMMA CountedIs ==
  ASSUME NEW h, Shape(h), NEW k \in Int
  PROVE  LET g == Counted(h, k)
         IN  /\ Shape(g) /\ g.table = h.table /\ g.hash_bits = h.hash_bits
             /\ g.entries = h.entries + k /\ g.unlinked_entries = h.unlinked_entries
             /\ g.groom_threshold = h.groom_threshold
<1> DEFINE g == Counted(h, k)
<1>1. h.entries + k \in Int /\ h.unlinked_entries \in Int /\ h.groom_threshold \in Nat
  BY DEF Shape
<1>2. g = Rebuilt(h, h.table, h.entries + k, h.unlinked_entries, h.groom_threshold)
  BY DEF Rebuilt, Shape, Counted
<1>3. h.table \in Slots(h.hash_bits)
  BY DEF Shape
<1> HIDE DEF g
<1>4. /\ g.table = h.table /\ g.hash_bits = h.hash_bits /\ g.entries = h.entries + k
      /\ g.unlinked_entries = h.unlinked_entries
      /\ g.groom_threshold = h.groom_threshold /\ Shape(g)
  BY <1>1, <1>2, <1>3, ShapeKept
<1> QED
  BY <1>4 DEF g

(* and leaves the table sound where there is room for them. *)
LEMMA CountedSound ==
  ASSUME NEW h, NEW n \in Int, Sound(h, n), NEW k \in Int,
         Cardinality(Filled(h.table)) + (n + k) <= Limit(h.hash_bits)
  PROVE  Sound(Counted(h, k), n + k)
<1> DEFINE g == Counted(h, k)
<1> SUFFICES Sound(g, n + k)
  OBVIOUS
<1>1. Shape(h)
  BY DEF Sound
<1>2. /\ Shape(g) /\ g.table = h.table /\ g.hash_bits = h.hash_bits
      /\ g.entries = h.entries + k /\ g.unlinked_entries = h.unlinked_entries
      /\ g.groom_threshold = h.groom_threshold
  BY <1>1, CountedIs
<1> HIDE DEF g
<1>3. Cardinality(RealIn(h.table)) \in Nat
  <2>1. h.hash_bits \in Nat /\ h.table \in Slots(h.hash_bits)
    BY SoundShape
  <2> QED
    BY <2>1, Counts
<1>4. g.entries = Cardinality(RealIn(h.table)) + (n + k)
  BY <1>2, <1>3 DEF Sound
<1> QED
  BY <1>2, <1>4 DEF Sound

(* A rehash keeps the real entries and drops the markers. *)
LEMMA RehashSound ==
  ASSUME config \in Config, NEW h, h.hash_bits \in Nat, h.table \in Slots(h.hash_bits),
         Distinct(h.table), Cardinality(Reals(h.table)) <= Limit(h.hash_bits),
         h.hash_bits >= InitBits, NEW bits \in Nat, bits >= h.hash_bits,
         config.max_capacity_bits # 0 => bits <= config.max_capacity_bits
  PROVE  LET r == Rehashed(h, bits)
         IN  /\ Sound(r, 0) /\ r.hash_bits = bits
             /\ Reals(r.table) = Reals(h.table) /\ Markers(r.table) = {}
<1> DEFINE n == HASHTABLE_SIZE(h.hash_bits)
           Upto(i) == {t \in Tag : \E j \in Index(h.hash_bits) : j <= i /\ h.table[j] = t}
           Ok(r, i) == /\ Sound(r, 0) /\ r.hash_bits = bits
                       /\ Reals(r.table) = Upto(i) /\ Markers(r.table) = {}
<1>1. PICK f :
         /\ f[-1] = EmptyTable(bits)
         /\ \A i \in Index(h.hash_bits) : f[i] = Readded(f[i - 1], h.table[i])
         /\ Rehashed(h, bits) = f[n - 1]
  BY Rehashing
<1>2. n \in Nat \ {0} /\ Index(h.hash_bits) = 0 .. n - 1
  BY Sizes
<1>3. DOMAIN h.table = Index(h.hash_bits) /\ InitBits \in Nat
  BY LoadAssumption DEF Slots
<1>4. /\ Limit(h.hash_bits) \in Nat /\ Limit(bits) \in Nat
      /\ Limit(h.hash_bits) <= Limit(bits)
  <2>1. bits >= InitBits
    BY <1>3
  <2>2. CASE bits = h.hash_bits
    BY <1>3, <2>2, Limits
  <2>3. CASE bits > h.hash_bits
    BY <1>3, <2>1, <2>3, Limits
  <2> QED
    BY <2>2, <2>3
<1>5. /\ Cardinality(Reals(h.table)) <= Limit(h.hash_bits) /\ IsFiniteSet(Reals(h.table))
      /\ Cardinality(Reals(h.table)) \in Nat
  <2> DEFINE b == h.hash_bits
             s == h.table
  <2>1. b \in Nat /\ s \in Slots(b) /\ Distinct(s)
    OBVIOUS
  <2> HIDE DEF b, s
  <2>2. /\ Cardinality(RealIn(s)) \in Nat
        /\ Cardinality(Reals(s)) = Cardinality(RealIn(s)) /\ IsFiniteSet(Reals(s))
    BY <2>1, Counts
  <2> QED
    BY <2>2 DEF s
<1> HIDE DEF n
<1>6. Ok(f[-1], -1)
  <2>1. Upto(-1) = {}
    BY <1>2
  <2>2. bits >= InitBits
    BY <1>3
  <2> HIDE DEF Upto
  <2> QED
    BY <1>1, <2>1, <2>2, EmptySound
<1>7. ASSUME NEW i \in Index(h.hash_bits), Ok(f[i - 1], i - 1) PROVE Ok(f[i], i)
  <2> DEFINE a == f[i - 1]
             t == h.table[i]
  <2>1. f[i] = Readded(a, t) /\ Ok(a, i - 1)
    BY <1>1, <1>7
  <2>2. t \in Tag \cup {NULL_TAG, FAKE_TAG}
    BY DEF Slots
  <2>3. i \in Int /\ \A j \in Index(h.hash_bits) : j <= i <=> j <= i - 1 \/ j = i
    BY <1>2
  <2> HIDE DEF a
  <2>4. CASE ~ IsReal(t)
    <3>1. f[i] = a
      BY <2>1, <2>4 DEF Readded
    <3>2. Upto(i) = Upto(i - 1)
      <4>1. \A u \in Tag : h.table[i] # u
        BY <2>4, Words
      <4> QED
        BY <2>3, <4>1
    <3> HIDE DEF Upto
    <3> QED
      BY <2>1, <3>1, <3>2
  <2>5. CASE IsReal(t)
    <3>1. t \in Tag
      BY <2>2, <2>5 DEF IsReal
    <3>2. Upto(i) = Upto(i - 1) \cup {t}
      BY <2>3, <3>1
    <3>3. t \notin Upto(i - 1)
      <4>1. ASSUME NEW j \in Index(h.hash_bits), j <= i - 1, h.table[j] = t PROVE FALSE
        <5>1. j = i
          BY <1>3, <2>5, <4>1 DEF Distinct
        <5> QED
          BY <2>3, <4>1, <5>1
      <4> QED
        BY <4>1
    <3>4. Upto(i) \subseteq Reals(h.table)
      BY <1>3 DEF Reals
    <3> HIDE DEF Upto, t
    <3>5. /\ a.hash_bits \in Nat /\ a.table \in Slots(a.hash_bits) /\ Distinct(a.table)
          /\ Shape(a)
      <4>1. Sound(a, 0)
        BY <2>1
      <4>2. Distinct(a.table) /\ Shape(a)
        BY <4>1 DEF Sound
      <4>3. a.hash_bits \in Nat /\ a.table \in Slots(a.hash_bits)
        BY <4>2 DEF Shape
      <4> QED
        BY <4>2, <4>3
    <3>6. Cardinality(Filled(a.table)) + 1 <= Limit(bits)
      <4>1. Cardinality(Upto(i - 1)) + 1 <= Cardinality(Reals(h.table))
            /\ Cardinality(Upto(i - 1)) \in Nat
        <5>1. IsFiniteSet(Upto(i - 1)) /\ Cardinality(Upto(i - 1)) \in Nat
          BY <1>5, <3>2, <3>4, FS_Subset, FS_CardinalityType
        <5>2. Cardinality(Upto(i - 1) \cup {t}) = Cardinality(Upto(i - 1)) + 1
          BY <3>3, <5>1, FS_AddElement
        <5>3. Cardinality(Upto(i - 1) \cup {t}) <= Cardinality(Reals(h.table))
          BY <1>5, <3>2, <3>4, FS_Subset
        <5> QED
          BY <5>1, <5>2, <5>3
      <4>2. Cardinality(Filled(a.table)) = Cardinality(Upto(i - 1))
        <5>1. /\ Cardinality(RealIn(a.table)) \in Nat
              /\ Cardinality(Filled(a.table))
                    = Cardinality(RealIn(a.table)) + Cardinality(Markers(a.table))
              /\ Cardinality(Reals(a.table)) = Cardinality(RealIn(a.table))
          BY <3>5, Counts
        <5>2. Cardinality(Markers(a.table)) = 0
          BY <2>1, FS_EmptySet
        <5> QED
          BY <2>1, <5>1, <5>2
      <4>3. ASSUME NEW u \in Nat, NEW v \in Nat, NEW w \in Nat, NEW x \in Nat,
                   u + 1 <= v, v <= w, w <= x
            PROVE  u + 1 <= x
        BY <4>3
      <4>4. /\ Cardinality(Filled(a.table)) \in Nat
            /\ Cardinality(Filled(a.table)) + 1 <= Cardinality(Reals(h.table))
        BY <1>2, <4>1, <4>2
      <4> QED
        BY <1>4, <1>5, <4>3, <4>4
    <3> DEFINE m == Counted(a, 1)
    <3>7. Sound(m, 1) /\ m.table = a.table /\ m.hash_bits = bits
      <4>1. m.table = a.table /\ m.hash_bits = a.hash_bits
        BY <3>5, CountedIs
      <4>2. Sound(m, 0 + 1)
        <5>1. /\ Sound(a, 0)
              /\ Cardinality(Filled(a.table)) + (0 + 1) <= Limit(a.hash_bits)
          BY <2>1, <3>6
        <5> HIDE DEF m
        <5> QED
          BY <5>1, CountedSound DEF m
      <4> HIDE DEF m
      <4> QED
        BY <2>1, <4>1, <4>2
    <3>8. f[i] = Store(m, t)
      <4>1. a.groom_threshold = 0
        BY <2>1 DEF Sound
      <4> QED
        BY <2>1, <2>5, <4>1, EnteredIs DEF Readded
    <3> HIDE DEF m
    <3>9. /\ Sound(f[i], 0) /\ f[i].hash_bits = bits
          /\ Reals(f[i].table) = Upto(i - 1) \cup {t} /\ Markers(f[i].table) = {}
      BY <2>1, <3>1, <3>3, <3>7, <3>8, StoreSound
    <3> QED
      BY <3>2, <3>9
  <2> QED
    BY <2>4, <2>5
<1> DEFINE G == {k \in 0 .. n : Ok(f[k - 1], k - 1)}
<1>8. n \in G
  <2>1. 0 \in G
    BY <1>2, <1>6
  <2>2. ASSUME NEW k \in 1 .. n, k - 1 \in G PROVE k \in G
    <3> DEFINE i == k - 1
    <3>1. i \in Index(h.hash_bits) /\ k \in 0 .. n
      BY <1>2
    <3>2. Ok(f[i - 1], i - 1)
      BY <2>2
    <3> HIDE DEF Ok, i
    <3>3. Ok(f[i], i)
      BY <1>7, <3>1, <3>2
    <3> QED
      BY <3>1, <3>3 DEF i
  <2>3. n \in Nat /\ n \in 0 .. n
    BY <1>2
  <2> HIDE DEF G
  <2> QED
    BY <2>1, <2>2, <2>3, ClimbTo
<1>9. Upto(n - 1) = Reals(h.table)
  <2>1. \A j \in Index(h.hash_bits) : j <= n - 1
    BY <1>2
  <2> QED
    BY <1>3, <2>1 DEF Reals
<1> QED
  <2>1. Ok(f[n - 1], n - 1)
    BY <1>8
  <2> QED
    BY <1>1, <1>9, <2>1 DEF n

-----------------------------------------------------------------------------
(***************************************************************************)
(* hashtable_check_size                                                    *)
(***************************************************************************)

(* A private IBL table whose size is bounded fills up with markers, that   *)
(* nothing rebuilds it without: no table of this kind.                     *)
PrivateUnbounded ==
    \A c \in Config : c.kind = "private" => c.max_capacity_bits = 0

(* So a table that is at its maximal size is rebuilt, not groomed. *)
LEMMA BoundedIsShared ==
  ASSUME config \in Config, PrivateUnbounded, config.max_capacity_bits # 0
  PROVE  SharedLockless /\ Lockless
<1>1. config.kind \in Kind
  BY ConfigAssumption
<1> QED
  BY <1>1, ConfigAssumption DEF PrivateUnbounded, SharedLockless, Lockless, Kind

(* A sound table counts what it holds, and has an empty slot. *)
LEMMA SoundCounts ==
  ASSUME NEW h, Sound(h, 0)
  PROVE  /\ Cardinality(RealIn(h.table)) \in Nat /\ Cardinality(Markers(h.table)) \in Nat
         /\ Cardinality(Filled(h.table))
               = Cardinality(RealIn(h.table)) + Cardinality(Markers(h.table))
         /\ Cardinality(Filled(h.table)) <= Limit(h.hash_bits)
         /\ Limit(h.hash_bits) \in Nat /\ h.hash_bits >= InitBits
         /\ Cardinality(Reals(h.table)) = Cardinality(RealIn(h.table))
         /\ h.entries = Cardinality(RealIn(h.table))
         /\ h.unlinked_entries = Cardinality(Markers(h.table))
         /\ HASHTABLE_SIZE(h.hash_bits) \in Nat /\ h.hash_bits \in Nat
         /\ CanStop(h.table, {NULL_TAG})
<1> DEFINE b == h.hash_bits
           s == h.table
<1>1. b \in Nat /\ s \in Slots(b) /\ Good(s, b)
  BY SoundShape
<1>2. Distinct(s) /\ CanStop(s, {NULL_TAG})
  BY <1>1 DEF Good
<1> HIDE DEF b, s
<1>3. /\ Cardinality(RealIn(s)) \in Nat /\ Cardinality(Markers(s)) \in Nat
      /\ Cardinality(Filled(s)) = Cardinality(RealIn(s)) + Cardinality(Markers(s))
      /\ Cardinality(Reals(s)) = Cardinality(RealIn(s))
      /\ HASHTABLE_SIZE(b) \in Nat
  BY <1>1, <1>2, Counts, Sizes
<1>4. h.entries = Cardinality(RealIn(s)) /\ h.unlinked_entries = Cardinality(Markers(s))
  <2>1. h.entries = Cardinality(RealIn(h.table)) + 0
        /\ h.unlinked_entries = Cardinality(Markers(h.table))
    BY DEF Sound
  <2> QED
    BY <2>1, <1>3 DEF s
<1>5. Cardinality(Filled(s)) <= Limit(b) /\ Limit(b) \in Nat /\ b >= InitBits
  <2>1. Cardinality(Filled(h.table)) + 0 <= Limit(h.hash_bits) /\ h.hash_bits >= InitBits
    BY DEF Sound
  <2>2. Limit(b) \in Nat
    BY <1>1, <2>1, Limits DEF b
  <2> QED
    BY <1>3, <2>1, <2>2 DEF b, s
<1> QED
  BY <1>1, <1>2, <1>3, <1>4, <1>5 DEF b, s

(* Grooming takes the tags, and leaves the markers. *)
LEMMA GroomSound ==
  ASSUME NEW h, NEW n \in Int, Sound(h, n), CanStop(h.table, {NULL_TAG})
  PROVE  LET g == GroomTable(h)
         IN  /\ Sound(g, n) /\ g.hash_bits = h.hash_bits
             /\ Reals(g.table) = {}
             /\ Markers(h.table) = {} => Markers(g.table) = {}
<1> DEFINE r == RangeRemoved(h, 0, FAKE_TAG)
           g == GroomTable(h)
<1>1. /\ Sound(r, n) /\ r.hash_bits = h.hash_bits
      /\ Reals(r.table) = {t \in Reals(h.table) : ~ InRange(t, 0, FAKE_TAG)}
      /\ Markers(h.table) = {} => Markers(r.table) = {}
  <2>1. FAKE_TAG \in Int /\ FAKE_TAG <= FAKE_TAG
    BY Words
  <2> QED
    BY <2>1, RangeSound
<1>2. g = [r EXCEPT !.groom_threshold = 0]
  BY DEF GroomTable
<1> HIDE DEF r, g
<1>3. Reals(r.table) = {}
  <2>1. \A t \in Tag : InRange(t, 0, FAKE_TAG)
    BY TagAssumption, Words DEF InRange, NULL_TAG
  <2> QED
    BY <1>1, <2>1 DEF Reals
<1>4. /\ Shape(g) /\ g.table = r.table /\ g.hash_bits = r.hash_bits
      /\ g.entries = r.entries /\ g.unlinked_entries = r.unlinked_entries
      /\ g.groom_threshold = 0
  <2>1. Shape(r)
    BY <1>1 DEF Sound
  <2>2. r.table \in Slots(r.hash_bits) /\ r.entries \in Int /\ r.unlinked_entries \in Int
    BY <2>1 DEF Shape
  <2>3. g = Rebuilt(r, r.table, r.entries, r.unlinked_entries, 0)
    BY <1>2, <2>1 DEF Rebuilt, Shape
  <2> QED
    BY <2>1, <2>2, <2>3, ShapeKept
<1>5. Sound(g, n)
  BY <1>1, <1>4 DEF Sound
<1> QED
  BY <1>1, <1>3, <1>4, <1>5 DEF g

(* So does grooming while one entry is counted in advance. *)
LEMMA GroomHelperSound ==
  ASSUME NEW r, Sound(r, 0), Markers(r.table) = {}, NEW n \in {0, 1}
  PROVE  LET g == GroomHelper(Counted(r, n))
         IN  Sound(g, n) /\ Reals(g.table) = {}
<1> DEFINE m == Counted(r, n - 1)
           e == GroomTable(m)
           g == GroomHelper(Counted(r, n))
<1>1. Shape(r) /\ CanStop(r.table, {NULL_TAG})
  BY SoundCounts DEF Sound
<1>2. m = [Counted(r, n) EXCEPT !.entries = @ - 1]
  <2>1. /\ r.entries \in Int /\ n \in Int
        /\ r \in [table : Slots(r.hash_bits), hash_bits : Nat, entries : Int,
                unlinked_entries : Int, groom_threshold : Nat]
    BY <1>1 DEF Shape
  <2>2. (r.entries + n) - 1 = r.entries + (n - 1)
    BY <2>1
  <2>3. /\ m = [r EXCEPT !.entries = r.entries + (n - 1)]
        /\ Counted(r, n) = [r EXCEPT !.entries = r.entries + n]
    BY <2>1 DEF Counted
  <2>4. Counted(r, n).entries = r.entries + n
    BY <2>1, <2>3
  <2> HIDE DEF m
  <2> QED
    BY <2>1, <2>2, <2>3, <2>4
<1>3. g = Counted(e, 1)
  BY <1>2 DEF GroomHelper, Counted
<1> HIDE DEF m, g
<1>4. m.table = r.table /\ m.hash_bits = r.hash_bits
  BY <1>1, CountedIs DEF m
<1>5. Sound(m, n - 1)
  <2>1. Sound(r, 0) /\ n - 1 \in Int /\ 0 + (n - 1) = n - 1
    OBVIOUS
  <2>2. Cardinality(Filled(r.table)) + (0 + (n - 1)) <= Limit(r.hash_bits)
    BY SoundCounts
  <2>3. Sound(Counted(r, n - 1), 0 + (n - 1))
    BY <2>1, <2>2, CountedSound
  <2> QED
    BY <2>1, <2>3 DEF m
<1>6. /\ Sound(e, n - 1) /\ e.hash_bits = m.hash_bits
      /\ Reals(e.table) = {} /\ Markers(e.table) = {}
  BY <1>1, <1>4, <1>5, GroomSound
<1> HIDE DEF e
<1>7. Shape(e) /\ Distinct(e.table)
  BY <1>6 DEF Sound
<1>8. Cardinality(Filled(e.table)) = 0
  <2>1. e.hash_bits \in Nat /\ e.table \in Slots(e.hash_bits)
    BY <1>7 DEF Shape
  <2>2. /\ Cardinality(Filled(e.table))
              = Cardinality(RealIn(e.table)) + Cardinality(Markers(e.table))
        /\ Cardinality(Reals(e.table)) = Cardinality(RealIn(e.table))
    BY <1>7, <2>1, Counts
  <2>3. Cardinality(Reals(e.table)) = 0 /\ Cardinality(Markers(e.table)) = 0
    BY <1>6, FS_EmptySet
  <2> QED
    BY <2>2, <2>3
<1>9. Limit(e.hash_bits) \in Nat /\ Limit(e.hash_bits) >= 1
  BY <1>6, <1>7, Limits DEF Sound, Shape
<1>10. Sound(g, n)
  <2>1. n - 1 \in Int /\ (n - 1) + 1 = n /\ n < 2
    OBVIOUS
  <2>2. Cardinality(Filled(e.table)) + ((n - 1) + 1) <= Limit(e.hash_bits)
    BY <1>8, <1>9, <2>1
  <2>3. Sound(Counted(e, 1), (n - 1) + 1)
    BY <1>6, <2>1, <2>2, CountedSound
  <2> QED
    BY <1>3, <2>1, <2>3
<1>11. Reals(g.table) = {}
  BY <1>3, <1>6, <1>7, CountedIs
<1> QED
  BY <1>10, <1>11 DEF g

(* What hashtable_check_size holds against the threshold *)
Total(c) == IF Lockless THEN c.entries + c.unlinked_entries ELSE c.entries

(* Only such a table is groomed, and may lose its entries by that. *)
HasMaximum == config.max_capacity_bits # 0

(* A resized table has room for the entry to be added. *)
LEMMA ResizedSound ==
  ASSUME config \in Config, PrivateUnbounded, NEW g, Sound(g, 0),
         NEW add_now \in {0, 1}, NEW k \in Nat, add_now <= k, NEW c, c = Counted(g, k),
         NEW wanted, wanted = Total(c), ~ (wanted <= Threshold(c.hash_bits, Load))
  PROVE  LET r == Resized(c, wanted, add_now)
         IN  /\ Sound(r, add_now)
             /\ \/ Reals(r.table) = Reals(g.table)
                \/ HasMaximum /\ Reals(r.table) = {}
<1> DEFINE b == NewBits(c, wanted)
           r == Rehashed(c, b)
           n == Counted(r, add_now)
           max == config.max_capacity_bits
           q == Resized(c, wanted, add_now)
<1> SUFFICES /\ Sound(q, add_now)
             /\ Reals(q.table) = Reals(g.table) \/ (HasMaximum /\ Reals(q.table) = {})
  OBVIOUS
<1>1. /\ Cardinality(RealIn(g.table)) \in Nat /\ Cardinality(Markers(g.table)) \in Nat
      /\ Cardinality(Filled(g.table))
            = Cardinality(RealIn(g.table)) + Cardinality(Markers(g.table))
      /\ Cardinality(Filled(g.table)) <= Limit(g.hash_bits)
      /\ Limit(g.hash_bits) \in Nat
      /\ Cardinality(Reals(g.table)) = Cardinality(RealIn(g.table))
      /\ g.entries = Cardinality(RealIn(g.table))
      /\ g.unlinked_entries = Cardinality(Markers(g.table))
      /\ HASHTABLE_SIZE(g.hash_bits) \in Nat /\ g.hash_bits \in Nat
      /\ CanStop(g.table, {NULL_TAG})
  BY SoundCounts
<1>2. /\ Shape(g) /\ g.table \in Slots(g.hash_bits) /\ g.hash_bits >= InitBits
      /\ Distinct(g.table) /\ (max # 0 => g.hash_bits <= max)
  BY DEF Sound, Shape
<1>3. /\ c.table = g.table /\ c.hash_bits = g.hash_bits /\ c.entries = g.entries + k
      /\ c.unlinked_entries = g.unlinked_entries
  BY <1>2, CountedIs
<1>4. InitBits \in Nat \ {0} /\ max \in Nat
  BY LoadAssumption, ConfigAssumption
<1>5. wanted \in Nat /\ wanted >= Cardinality(RealIn(g.table)) + k
  BY <1>1, <1>3 DEF Total
<1>6. /\ b \in Nat /\ b >= g.hash_bits /\ (max # 0 => b <= max)
      /\ \/ /\ Lockless /\ b = g.hash_bits
            /\ c.entries <= Threshold(b, Load) \/ g.hash_bits = max
         \/ wanted <= Threshold(b, Load)
         \/ b = max
  <2>1. /\ c.hash_bits \in Nat /\ max \in Nat /\ (max # 0 => c.hash_bits <= max)
    BY <1>1, <1>2, <1>3, <1>4
  <2> HIDE DEF b
  <2> QED
    BY <1>3, <1>5, <2>1, NewBitsFit DEF b, AtMaxBits
<1> HIDE DEF b
<1>7. /\ Sound(r, 0) /\ r.hash_bits = b
      /\ Reals(r.table) = Reals(g.table) /\ Markers(r.table) = {}
  <2>1. /\ c.hash_bits \in Nat /\ c.table \in Slots(c.hash_bits)
        /\ Distinct(c.table) /\ Cardinality(Reals(c.table)) <= Limit(c.hash_bits)
        /\ c.hash_bits >= InitBits
        /\ b \in Nat /\ b >= c.hash_bits /\ (max # 0 => b <= max)
    BY <1>1, <1>2, <1>3, <1>6
  <2>2. /\ Sound(Rehashed(c, b), 0) /\ Rehashed(c, b).hash_bits = b
        /\ Reals(Rehashed(c, b).table) = Reals(c.table)
        /\ Markers(Rehashed(c, b).table) = {}
    BY <2>1, RehashSound
  <2> QED
    BY <1>3, <2>2
<1> HIDE DEF r
<1>8. Shape(r) /\ n.hash_bits = b /\ n.table = r.table
  <2>1. Shape(r)
    BY <1>7 DEF Sound
  <2> QED
    BY <1>7, <2>1, CountedIs, SMTT(20)
<1>9. q = IF n.hash_bits = c.hash_bits /\ AtMaxBits(n) THEN GroomHelper(n) ELSE n
  BY DEF Resized, Counted, r, b
<1> HIDE DEF q
<1>10. CASE b = g.hash_bits /\ b = max
  <2>1. q = GroomHelper(n)
    BY <1>3, <1>8, <1>9, <1>10 DEF AtMaxBits
  <2>2. HasMaximum
    BY <1>2, <1>4, <1>10 DEF HasMaximum
  <2>3. Sound(GroomHelper(n), add_now) /\ Reals(GroomHelper(n).table) = {}
    BY <1>7, GroomHelperSound
  <2> QED
    BY <2>1, <2>2, <2>3
<1>11. CASE ~ (b = g.hash_bits /\ b = max)
  <2>1. q = n
    BY <1>3, <1>8, <1>9, <1>11 DEF AtMaxBits
  <2>2. Cardinality(Filled(r.table)) = Cardinality(RealIn(g.table))
    <3>1. /\ Cardinality(Filled(r.table))
                = Cardinality(RealIn(r.table)) + Cardinality(Markers(r.table))
          /\ Cardinality(Reals(r.table)) = Cardinality(RealIn(r.table))
          /\ Cardinality(RealIn(r.table)) \in Nat
      BY <1>7, SoundCounts
    <3>2. Cardinality(Markers(r.table)) = 0
      BY <1>7, FS_EmptySet
    <3> QED
      BY <1>1, <1>7, <3>1, <3>2
  <2>3. Cardinality(RealIn(g.table)) + add_now <= Limit(b)
    <3>1. b >= InitBits /\ Limit(b) \in Nat
      <4>1. b >= InitBits
        BY <1>1, <1>2, <1>4, <1>6
      <4> QED
        BY <1>6, <4>1, Limits
    <3>2. CASE wanted <= Threshold(b, Load)
      BY <1>1, <1>5, <3>1, <3>2 DEF Limit
    <3>3. CASE c.entries <= Threshold(b, Load)
      BY <1>1, <1>3, <3>1, <3>3 DEF Limit
    <3>4. CASE b = max
      <4>1. b > g.hash_bits
        BY <1>1, <1>6, <1>11, <3>4
      <4>2. Limit(g.hash_bits) + 1 <= Limit(b)
        BY <1>1, <1>2, <1>6, <4>1, Limits
      <4> QED
        BY <1>1, <3>1, <4>2
    <3> QED
      BY <1>6, <1>11, <3>2, <3>3, <3>4
  <2>4. Sound(n, 0 + add_now)
    <3>1. Cardinality(Filled(r.table)) + (0 + add_now) <= Limit(r.hash_bits)
      BY <1>7, <2>2, <2>3
    <3> QED
      BY <1>7, <3>1, CountedSound
  <2>5. Sound(q, add_now)
    <3>1. 0 + add_now = add_now
      OBVIOUS
    <3> QED
      BY <2>1, <2>4, <3>1
  <2> QED
    BY <1>7, <1>8, <2>1, <2>5
<1> QED
  BY <1>10, <1>11

(* The table has room for the entry to be added, and kept its tags unless  *)
(* it has a maximal size.                                                  *)
LEMMA CheckSizeSound ==
  ASSUME config \in Config, PrivateUnbounded, NEW h, Sound(h, 0),
         NEW add_now \in {0, 1}, NEW add_later \in Nat
  PROVE  LET r == CheckSize(h, add_now, add_later)
         IN  /\ Sound(r, add_now)
             /\ \/ Reals(r.table) = Reals(h.table)
                \/ HasMaximum /\ Reals(r.table) = {}
<1> DEFINE k == add_now + add_later
           c == Entered(h, k)
           wanted == Total(c)
           q == CheckSize(h, add_now, add_later)
<1> SUFFICES /\ Sound(q, add_now)
             /\ Reals(q.table) = Reals(h.table) \/ (HasMaximum /\ Reals(q.table) = {})
  OBVIOUS
<1>1. q = IF wanted <= Threshold(c.hash_bits, Load)
          THEN [c EXCEPT !.entries = @ - add_later]
          ELSE IF AtMaxBits(c) /\ ~ SharedLockless THEN GroomHelper(c)
          ELSE Resized(c, wanted, add_now)
  BY DEF CheckSize, Total
<1> HIDE DEF q
<1>2. c = Counted(h, k)
  BY EnteredIs DEF Sound
<1>3. /\ Cardinality(RealIn(h.table)) \in Nat /\ Cardinality(Markers(h.table)) \in Nat
      /\ Cardinality(Filled(h.table))
            = Cardinality(RealIn(h.table)) + Cardinality(Markers(h.table))
      /\ h.entries = Cardinality(RealIn(h.table))
      /\ h.unlinked_entries = Cardinality(Markers(h.table))
      /\ h.hash_bits \in Nat /\ Limit(h.hash_bits) \in Nat
  BY SoundCounts
<1>4. Shape(h) /\ h.hash_bits >= InitBits
  BY DEF Sound
<1>5. k \in Nat /\ k \in Int /\ add_now <= k
  OBVIOUS
<1>6. /\ c.table = h.table /\ c.hash_bits = h.hash_bits /\ c.entries = h.entries + k
      /\ c.unlinked_entries = h.unlinked_entries /\ Shape(c)
  <2> HIDE DEF c, k
  <2> QED
    BY <1>2, <1>4, <1>5, CountedIs
<1>7. wanted = IF Lockless THEN c.entries + c.unlinked_entries ELSE c.entries
  BY DEF Total
<1> HIDE DEF wanted, c
<1>8. CASE wanted <= Threshold(c.hash_bits, Load)
  <2>1. q = [c EXCEPT !.entries = @ - add_later]
    BY <1>1, <1>8
  <2>2. q = Counted(h, add_now)
    <3>1. c = Rebuilt(h, h.table, h.entries + k, h.unlinked_entries, h.groom_threshold)
      BY <1>2, <1>4 DEF Rebuilt, Shape, Counted
    <3>2. q = Rebuilt(h, h.table, (h.entries + k) - add_later, h.unlinked_entries,
                      h.groom_threshold)
      BY <2>1, <3>1 DEF Rebuilt
    <3>3. (h.entries + k) - add_later = h.entries + add_now
      BY <1>3
    <3>4. Counted(h, add_now) = Rebuilt(h, h.table, h.entries + add_now,
                                        h.unlinked_entries, h.groom_threshold)
      BY <1>4 DEF Rebuilt, Shape, Counted
    <3> QED
      BY <3>2, <3>3, <3>4
  <2>3. Cardinality(Filled(h.table)) + (0 + add_now) <= Limit(h.hash_bits)
    <3>1. CASE Lockless
      BY <1>3, <1>6, <1>7, <1>8, <3>1 DEF Limit
    <3>2. CASE ~ Lockless
      <4>1. Markers(h.table) = {}
        BY <3>2 DEF Sound, Lockless
      <4>2. Cardinality(Markers(h.table)) = 0
        BY <4>1, FS_EmptySet
      <4> QED
        BY <1>3, <1>6, <1>7, <1>8, <3>2, <4>2 DEF Limit
    <3> QED
      BY <3>1, <3>2
  <2>4. Sound(q, add_now)
    <3>1. 0 + add_now = add_now
      OBVIOUS
    <3>2. Sound(Counted(h, add_now), 0 + add_now)
      BY <2>3, CountedSound
    <3> QED
      BY <2>2, <3>1, <3>2
  <2>5. q.table = h.table
    BY <1>4, <2>2, CountedIs
  <2> QED
    BY <2>4, <2>5
<1>9. CASE ~ (wanted <= Threshold(c.hash_bits, Load))
  <2>1. ~ (AtMaxBits(c) /\ ~ SharedLockless)
    <3> SUFFICES ASSUME AtMaxBits(c) PROVE SharedLockless
      OBVIOUS
    <3>1. config.max_capacity_bits # 0
      BY <1>3, <1>4, <1>6, LoadAssumption DEF AtMaxBits
    <3> QED
      BY <3>1, BoundedIsShared
  <2>2. q = Resized(c, wanted, add_now)
    BY <1>1, <1>9, <2>1
  <2> HIDE DEF k
  <2>3. /\ Sound(Resized(c, wanted, add_now), add_now)
        /\ \/ Reals(Resized(c, wanted, add_now).table) = Reals(h.table)
           \/ HasMaximum /\ Reals(Resized(c, wanted, add_now).table) = {}
    <3>1. wanted = Total(c)
      BY DEF wanted
    <3>2. ASSUME NEW x, x = Counted(h, k), NEW w, w = Total(x),
                 ~ (w <= Threshold(x.hash_bits, Load))
          PROVE  /\ Sound(Resized(x, w, add_now), add_now)
                 /\ \/ Reals(Resized(x, w, add_now).table) = Reals(h.table)
                    \/ HasMaximum /\ Reals(Resized(x, w, add_now).table) = {}
      BY <1>5, <3>2, ResizedSound, SMTT(20) DEF Reals
    <3> QED
      BY <1>2, <1>9, <3>1, <3>2
  <2> QED
    BY <2>2, <2>3
<1> QED
  BY <1>8, <1>9

-----------------------------------------------------------------------------
(***************************************************************************)
(* The inductive invariant, and what each operation does to it and to the  *)
(* set of tags that is in the table.                                       *)
(***************************************************************************)
IInv == config \in Config /\ Sound(htable, 0)

(* The invariant holds of a next state whose table is sound. *)
LEMMA NextTable ==
  ASSUME NEW h, htable' = h, UNCHANGED config, Sound(h, 0), config \in Config
  PROVE  IInv' /\ Reals(htable.table)' = Reals(h.table)
<1>1. Sound(htable, 0)'
  BY DEF Sound, Shape, Distinct, Chained, RealIn, Markers, Filled, IsReal, Lost, Slots
<1> QED
  BY <1>1 DEF IInv, Reals

(* A tag that is in the table is found, and only such a tag. *)
LEMMA FoundIs ==
  ASSUME IInv
  PROVE  /\ Found = Reals(htable.table)
         /\ \A t \in Tag : Lookup(htable.table, htable.hash_bits, t) = t
                              <=> t \in Reals(htable.table)
<1> DEFINE b == htable.hash_bits
           s == htable.table
<1>1. /\ b \in Nat /\ s \in [Index(b) -> Word] /\ Chained(s, b)
      /\ CanStop(s, {NULL_TAG})
  BY SoundShape DEF IInv, Good
<1> HIDE DEF b, s
<1>2. \A t \in Tag : Lookup(s, b, t) = t <=> t \in Reals(s)
  BY <1>1, LookupFinds
<1>3. Reals(s) \subseteq Tag
  BY DEF Reals
<1> QED
  BY <1>2, <1>3 DEF Found, b, s

(* A tag in the table is at the end of its probe sequence. *)
LEMMA FoundAt ==
  ASSUME IInv, NEW t \in Tag, t \in Reals(htable.table)
  PROVE  LET i == Probe(htable.table, htable.hash_bits, t, {t})
         IN  i \in Index(htable.hash_bits) /\ htable.table[i] = t
<1> DEFINE b == htable.hash_bits
           s == htable.table
<1>1. b \in Nat /\ s \in [Index(b) -> Word] /\ t \in Reals(s)
  BY SoundShape DEF IInv
<1> HIDE DEF b, s
<1>2. /\ Probe(s, b, t, {t}) \in Index(b) /\ s[Probe(s, b, t, {t})] = t
  BY <1>1, ProbeFinds
<1> QED
  BY <1>2 DEF b, s

(* A new table is empty. *)
LEMMA InitStep ==
  ASSUME Init
  PROVE  IInv /\ Reals(htable.table) = {}
<1>1. config \in Config /\ htable = EmptyTable(InitBits)
  BY DEF Init
<1>2. /\ InitBits \in Nat /\ InitBits >= InitBits
      /\ config.max_capacity_bits # 0 => InitBits <= config.max_capacity_bits
  BY <1>1, LoadAssumption, ConfigAssumption
<1>3. Sound(EmptyTable(InitBits), 0) /\ Reals(EmptyTable(InitBits).table) = {}
  BY <1>1, <1>2, EmptySound
<1> QED
  BY <1>1, <1>3 DEF IInv

(* hashtable_add, after hashtable_check_size *)
LEMMA AddStep ==
  ASSUME PrivateUnbounded, IInv, NEW t \in Tag, Add(t)
  PROVE  /\ IInv' /\ t \notin Reals(htable.table)
         /\ \/ Reals(htable.table)' = Reals(htable.table) \cup {t}
            \/ HasMaximum /\ Reals(htable.table)' = {t}
<1> DEFINE r == CheckSize(htable, 1, 0)
           g == Store(r, t)
<1>1. t \notin Reals(htable.table)
  BY FoundIs DEF Add
<1>2. /\ Sound(r, 1)
      /\ \/ Reals(r.table) = Reals(htable.table)
         \/ HasMaximum /\ Reals(r.table) = {}
  BY CheckSizeSound DEF IInv
<1>3. g = htable' /\ UNCHANGED config /\ config \in Config
  BY DEF Add, IInv
<1> HIDE DEF r
<1>4. t \notin Reals(r.table)
  BY <1>1, <1>2
<1>5. Sound(g, 0) /\ Reals(g.table) = Reals(r.table) \cup {t}
  BY <1>2, <1>4, StoreSound
<1> HIDE DEF g
<1>6. IInv' /\ Reals(htable.table)' = Reals(g.table)
  BY <1>3, <1>5, NextTable
<1> QED
  BY <1>1, <1>2, <1>5, <1>6

(* hashtable_remove *)
LEMMA RemoveStep ==
  ASSUME IInv, NEW t \in Tag, Remove(t)
  PROVE  /\ IInv' /\ t \in Reals(htable.table)
         /\ Reals(htable.table)' = Reals(htable.table) \ {t}
<1> DEFINE i == Probe(htable.table, htable.hash_bits, t, {t})
           g == RemoveAt(htable, i)
<1>1. t \in Reals(htable.table)
  BY FoundIs DEF Remove
<1>2. i \in Index(htable.hash_bits) /\ htable.table[i] = t
  BY <1>1, FoundAt
<1>3. g = htable' /\ UNCHANGED config /\ config \in Config
  BY DEF Remove, IInv
<1> HIDE DEF i
<1>4. Sound(g, 0) /\ Reals(g.table) = Reals(htable.table) \ {t}
  BY <1>2, RemoveSound DEF IInv
<1> HIDE DEF g
<1> QED
  BY <1>1, <1>3, <1>4, NextTable

(* fragment_prepare_for_removal_from_table *)
LEMMA UnlinkStep ==
  ASSUME IInv, NEW t \in Tag, Unlink(t)
  PROVE  /\ IInv' /\ t \in Reals(htable.table)
         /\ Reals(htable.table)' = Reals(htable.table) \ {t}
<1> DEFINE i == Probe(htable.table, htable.hash_bits, t, {t})
           b == htable.hash_bits
           s == htable.table
           r == Put(s, i, FAKE_TAG)
           e == htable.entries - 1
           u == htable.unlinked_entries + 1
           g == Rebuilt(htable, r, e, u, htable.groom_threshold)
<1>1. t \in Reals(s)
  BY FoundIs DEF Unlink
<1>2. i \in Index(b) /\ s[i] = t
  BY <1>1, FoundAt
<1>3. /\ b \in Nat /\ s \in Slots(b) /\ Distinct(s) /\ Chained(s, b)
      /\ e \in Int /\ u \in Int /\ htable.groom_threshold \in Nat /\ Shape(htable)
      /\ config \in Config
  BY SoundShape DEF IInv, Sound
<1>4. htable' = g /\ UNCHANGED config /\ Lockless
  BY <1>3 DEF Unlink, Rebuilt, Shape, Put
<1>5. /\ htable.entries = Cardinality(RealIn(s))
      /\ htable.unlinked_entries = Cardinality(Markers(s))
      /\ Cardinality(Filled(s)) <= Limit(b)
      /\ Cardinality(RealIn(s)) \in Nat /\ Cardinality(Markers(s)) \in Nat
      /\ Cardinality(Filled(s)) = Cardinality(RealIn(s)) + Cardinality(Markers(s))
  BY SoundCounts DEF IInv
<1> HIDE DEF i
<1>6. /\ r \in Slots(b) /\ Distinct(r) /\ Chained(r, b)
      /\ Reals(r) = Reals(s) \ {t}
      /\ Cardinality(RealIn(r)) = Cardinality(RealIn(s)) - 1
      /\ Cardinality(Markers(r)) = Cardinality(Markers(s)) + 1
      /\ Cardinality(Filled(r)) = Cardinality(Filled(s))
  <2> HIDE DEF b, s
  <2> QED
    BY <1>2, <1>3, Unlinked
<1>7. /\ g.table = r /\ g.hash_bits = b /\ g.entries = e /\ g.unlinked_entries = u
      /\ g.groom_threshold = htable.groom_threshold /\ Shape(g)
  <2> HIDE DEF r, e, u
  <2> QED
    BY <1>3, <1>6, ShapeKept
<1> HIDE DEF g, r
<1>8. Sound(g, 0)
  <2>1. g.entries = Cardinality(RealIn(r)) + 0
    BY <1>5, <1>6, <1>7
  <2>2. g.unlinked_entries = Cardinality(Markers(r))
    BY <1>5, <1>6, <1>7
  <2>3. Cardinality(Filled(r)) + 0 <= Limit(b)
    <3>1. ASSUME NEW x \in Int, NEW y, y = x, y <= Limit(b)
          PROVE  x + 0 <= Limit(b)
      BY <3>1
    <3> QED
      BY <1>5, <1>6, <3>1
  <2>4. /\ b >= InitBits
        /\ config.kind # "primary" /\ htable.groom_threshold = 0
        /\ config.max_capacity_bits # 0 => b <= config.max_capacity_bits
    BY <1>4 DEF Sound, IInv, Lockless
  <2> HIDE DEF b, e, u
  <2> QED
    BY <1>6, <1>7, <2>1, <2>2, <2>3, <2>4 DEF Sound
<1> QED
  BY <1>1, <1>3, <1>4, <1>6, <1>7, <1>8, NextTable

(* hashtable_range_remove *)
LEMMA RangeStep ==
  ASSUME IInv, NEW lo \in Bound, NEW hi \in Bound, RangeRemove(lo, hi)
  PROVE  /\ IInv'
         /\ Reals(htable.table)' = {t \in Reals(htable.table) : t < lo \/ t >= hi}
<1> DEFINE g == RangeRemoved(htable, lo, hi)
<1>1. lo \in Int /\ hi \in Int /\ hi <= FAKE_TAG
  BY InputAssumption, Words
<1>2. Sound(htable, 0) /\ CanStop(htable.table, {NULL_TAG})
  BY SoundCounts DEF IInv
<1>3. Sound(g, 0) /\ Reals(g.table) = {t \in Reals(htable.table) : ~ InRange(t, lo, hi)}
  BY <1>1, <1>2, RangeSound
<1>4. htable' = g /\ UNCHANGED config /\ config \in Config
  BY DEF RangeRemove, IInv
<1> HIDE DEF g
<1>5. \A t \in Reals(htable.table) : ~ InRange(t, lo, hi) <=> t < lo \/ t >= hi
  <2> SUFFICES ASSUME NEW t \in Tag PROVE ~ InRange(t, lo, hi) <=> t < lo \/ t >= hi
    BY DEF Reals
  <2>1. t \in Int /\ t # NULL_TAG
    BY Words DEF IsReal
  <2> QED
    BY <1>1, <2>1 DEF InRange
<1>6. IInv' /\ Reals(htable.table)' = Reals(g.table)
  BY <1>3, <1>4, NextTable
<1> QED
  BY <1>3, <1>5, <1>6

(* hashtable_check_size ahead of a number of entries *)
LEMMA RoomStep ==
  ASSUME PrivateUnbounded, IInv, NEW n \in Later, MakeRoom(n)
  PROVE  /\ IInv'
         /\ \/ Reals(htable.table)' = Reals(htable.table)
            \/ HasMaximum /\ Reals(htable.table)' = {}
<1> DEFINE g == CheckSize(htable, 0, n)
<1>1. n \in Nat
  BY InputAssumption
<1>2. /\ Sound(g, 0)
      /\ \/ Reals(g.table) = Reals(htable.table)
         \/ HasMaximum /\ Reals(g.table) = {}
  BY <1>1, CheckSizeSound DEF IInv
<1>3. htable' = g /\ UNCHANGED config /\ config \in Config
  BY DEF MakeRoom, IInv
<1> HIDE DEF g
<1>4. IInv' /\ Reals(htable.table)' = Reals(g.table)
  BY <1>2, <1>3, NextTable
<1> QED
  BY <1>2, <1>4

(* No step breaks the invariant. *)
LEMMA NextIInv ==
  ASSUME PrivateUnbounded, IInv, [Next]_vars
  PROVE  IInv'
<1>1. CASE UNCHANGED vars
  BY <1>1, NextTable DEF IInv, vars
<1>2. ASSUME NEW t \in Tag, Add(t) PROVE IInv'
  BY <1>2, AddStep
<1>3. ASSUME NEW t \in Tag, Remove(t) PROVE IInv'
  BY <1>3, RemoveStep
<1>4. ASSUME NEW t \in Tag, Unlink(t) PROVE IInv'
  BY <1>4, UnlinkStep
<1>5. ASSUME NEW lo \in Bound, NEW hi \in Bound, RangeRemove(lo, hi) PROVE IInv'
  BY <1>5, RangeStep
<1>6. ASSUME NEW n \in Later, MakeRoom(n) PROVE IInv'
  BY <1>6, RoomStep
<1> QED
  BY <1>1, <1>2, <1>3, <1>4, <1>5, <1>6 DEF Next
-----------------------------------------------------------------------------
(***************************************************************************)
(* Between two operations a table is sound: the slots hold tags, markers   *)
(* and empty ones, no tag is there twice, no entry is behind an empty slot *)
(* of its probe sequence, the counters count, and a slot is left empty.    *)
(***************************************************************************)
THEOREM Invariance == ASSUME PrivateUnbounded PROVE Spec => []IInv
<1>1. Init => IInv
  BY InitStep
<1>2. IInv /\ [Next]_vars => IInv'
  BY NextIInv
<1> QED
  BY <1>1, <1>2, PTL DEF Spec

(***************************************************************************)
(* The fields keep their types, in a table of any size.                    *)
(***************************************************************************)
THEOREM Types == ASSUME PrivateUnbounded PROVE Spec => []TypeOK
<1>1. ASSUME IInv PROVE TypeOK
  <2>1. /\ config \in Config /\ htable.hash_bits \in Nat
        /\ htable.table \in Slots(htable.hash_bits)
        /\ htable.groom_threshold \in Nat
    BY <1>1, SoundShape DEF IInv
  <2>2. htable.entries \in Nat /\ htable.unlinked_entries \in Nat
    BY <1>1, SoundCounts DEF IInv
  <2> QED
    BY <2>1, <2>2 DEF TypeOK, Slots
<1> QED
  BY <1>1, Invariance, PTL

(***************************************************************************)
(* entries counts the tags and unlinked_entries the markers in the array,  *)
(* through every store, deletion, bulk removal and rehash.                 *)
(***************************************************************************)
THEOREM Counters == ASSUME PrivateUnbounded PROVE Spec => []CountsExact
<1>1. ASSUME IInv PROVE CountsExact
  BY <1>1, SoundCounts DEF IInv, CountsExact, RealIn
<1> QED
  BY <1>1, Invariance, PTL

(***************************************************************************)
(* A lookup ends, whatever tag it looks for: there is an empty slot.       *)
(***************************************************************************)
THEOREM Lookups == ASSUME PrivateUnbounded PROVE Spec => []LookupsEnd
<1>1. ASSUME IInv PROVE LookupsEnd
  BY <1>1, SoundCounts DEF IInv, LookupsEnd
<1> QED
  BY <1>1, Invariance, PTL

(***************************************************************************)
(* No table is loaded beyond its threshold, so the adds of a rehash, which *)
(* fill a table that is not smaller, never resize it (hashtablex.h:1114).  *)
(***************************************************************************)
THEOREM ThresholdKept == ASSUME PrivateUnbounded PROVE Spec => []LoadKept
<1>1. ASSUME IInv PROVE LoadKept
  BY <1>1, SoundCounts DEF IInv, LoadKept, Limit
<1> QED
  BY <1>1, Invariance, PTL

(***************************************************************************)
(* Seen through lookups the table is a set of tags: every operation adds,  *)
(* removes or keeps exactly the tags its name says, and only a table that  *)
(* has a maximal size, as a cache of fragments may, is ever emptied on the *)
(* way.                                                                    *)
(***************************************************************************)
THEOREM Refinement == ASSUME PrivateUnbounded PROVE Spec => ImplementsTagSet
<1> DEFINE InTable == Found = Reals(htable.table)
<1>1. Init => Contents!Init
  <2> SUFFICES ASSUME Init PROVE Found = {}
    BY DEF Contents!Init
  <2> QED
    BY InitStep, FoundIs
<1>2. IInv => InTable
  BY FoundIs
<1>3. ASSUME IInv, InTable, InTable' PROVE Corresponds
  <2>1. Found = Reals(htable.table) /\ Found' = Reals(htable.table)'
    BY <1>3
  <2>2. ASSUME NEW t \in Tag, Add(t)
        PROVE  \/ Contents!Add(t)
               \/ config.max_capacity_bits # 0 /\ Contents!AddAfresh(t)
    BY <1>3, <2>1, <2>2, AddStep DEF HasMaximum, Contents!Add, Contents!AddAfresh
  <2>3. ASSUME NEW t \in Tag, Remove(t) \/ Unlink(t)
        PROVE  Contents!Remove(t)
    BY <1>3, <2>1, <2>3, RemoveStep, UnlinkStep DEF Contents!Remove
  <2>4. ASSUME NEW lo \in Bound, NEW hi \in Bound, RangeRemove(lo, hi)
        PROVE  Contents!RemoveRange(lo, hi)
    BY <1>3, <2>1, <2>4, RangeStep DEF Contents!RemoveRange
  <2>5. ASSUME NEW n \in Later, MakeRoom(n)
        PROVE  UNCHANGED Found \/ (config.max_capacity_bits # 0 /\ Contents!Forget)
    BY <1>3, <2>1, <2>5, RoomStep DEF HasMaximum, Contents!Forget
  <2> QED
    BY <2>2, <2>3, <2>4, <2>5 DEF Corresponds
<1> HIDE DEF InTable
<1>4. Spec => []IInv
  BY Invariance
<1> QED
  BY <1>1, <1>2, <1>3, <1>4, PTL DEF Spec, ImplementsTagSet
================================================================================
