--------------------------- MODULE HistCounterProofs ---------------------------
(***************************************************************************)
(* Proofs about HistCounter, for rings of any length, slots of any size    *)
(* and any records: the total is the sum of the slots, the peak index is   *)
(* right, the ring holds the traffic of the newest slots, and every share  *)
(* of a record is placed once.                                             *)
(***************************************************************************)
EXTENDS HistCounter, WellFoundedInduction, TLAPS

(* Every non-empty set of naturals has a least element. *)
LEMMA LeastOfNaturals ==
  ASSUME NEW S, S \subseteq Nat, S # {}
  PROVE  \E i \in S : \A j \in S : i <= j
<1> DEFINE R == {ss \in Nat \X Nat : ss[1] < ss[2]}
<1>1. IsWellFoundedOn(R, Nat)
  BY NatLessThanWellFounded, Zenon DEF OpToRel
<1>2. PICK i \in S : \A j \in S : <<j, i>> \notin R
  BY <1>1, WFMin
<1>3. \A j \in S : <<j, i>> \in Nat \X Nat
  OBVIOUS
<1>4. \A j \in S : ~(j < i)
  BY <1>2, <1>3
<1> QED
  BY <1>2, <1>4

--------------------------------------------------------------------------------
(* Sums. *)

(* g[i] is the sum of the first i values of f. *)
PrefixSums(f, n, g) ==
  /\ g \in [0 .. n -> Int] /\ g[0] = 0
  /\ \A i \in 1 .. n : g[i] = g[i - 1] + f[i - 1]

(* A set of lengths that holds 0 and with each length the next one up to n *)
(* holds all of them.                                                      *)
LEMMA UpToLength ==
  ASSUME NEW n \in Nat, NEW S, 0 \in S, \A i \in 1 .. n : i - 1 \in S => i \in S
  PROVE  \A i \in 0 .. n : i \in S
<1> DEFINE T == {i \in 0 .. n : i \notin S}
<1> SUFFICES ASSUME T # {} PROVE FALSE
  OBVIOUS
<1>1. PICK i \in T : \A j \in T : i <= j
  <2>1. T \subseteq Nat
    OBVIOUS
  <2> QED
    BY <2>1, LeastOfNaturals
<1>2. i \in 1 .. n /\ i - 1 \in 0 .. n /\ i - 1 \notin T
  BY <1>1
<1> QED
  BY <1>1, <1>2

LEMMA PrefixSumsExist ==
  ASSUME NEW n \in Nat, NEW f \in [0 .. n - 1 -> Int]
  PROVE  \E g : PrefixSums(f, n, g)
<1> DEFINE S == {k \in 0 .. n : \E g : PrefixSums(f, k, g)}
<1>1. 0 \in S
  <2>1. PrefixSums(f, 0, [i \in 0 .. 0 |-> 0])
    BY DEF PrefixSums
  <2> QED
    BY <2>1
<1>2. ASSUME NEW k \in 1 .. n, k - 1 \in S PROVE k \in S
  <2>1. PICK g : PrefixSums(f, k - 1, g)
    BY <1>2
  <2> DEFINE h == [i \in 0 .. k |-> IF i = k THEN g[k - 1] + f[k - 1] ELSE g[i]]
  <2>2. /\ g \in [0 .. k - 1 -> Int] /\ g[0] = 0 /\ f[k - 1] \in Int
        /\ \A i \in 1 .. k - 1 : g[i] = g[i - 1] + f[i - 1]
    BY <2>1 DEF PrefixSums
  <2>3. h \in [0 .. k -> Int]
    BY <2>2
  <2>4. h[0] = 0
    BY <2>2
  <2>5. \A i \in 1 .. k : h[i] = h[i - 1] + f[i - 1]
    <3> TAKE i \in 1 .. k
    <3>1. h[i - 1] = g[i - 1]
      OBVIOUS
    <3>2. CASE i = k
      BY <3>1, <3>2
    <3>3. CASE i # k
      <4>1. i \in 1 .. k - 1 /\ h[i] = g[i]
        BY <3>3
      <4> QED
        BY <2>2, <3>1, <4>1
    <3> QED
      BY <3>2, <3>3
  <2> HIDE DEF h
  <2>6. PrefixSums(f, k, h)
    BY <2>3, <2>4, <2>5 DEF PrefixSums
  <2> QED
    BY <2>6
<1> HIDE DEF S
<1>3. \A k \in 0 .. n : k \in S
  BY <1>1, <1>2, UpToLength
<1>4. n \in S
  BY <1>3
<1> QED
  BY <1>4 DEF S

(* SumUpTo is the last of the prefix sums, whichever function satisfies    *)
(* its recursive definition.                                               *)
LEMMA SumIsLastPrefix ==
  ASSUME NEW n \in Nat, NEW f, NEW g, PrefixSums(f, n, g)
  PROVE  SumUpTo(f, n) = g[n]
<1> DEFINE Body(u) == [i \in 0 .. n |-> IF i = 0 THEN 0 ELSE u[i - 1] + f[i - 1]]
           u == CHOOSE v : v = Body(v)
<1>1. g = Body(g)
  <2>1. g \in [0 .. n -> Int]
    BY DEF PrefixSums
  <2>2. \A i \in 0 .. n : g[i] = IF i = 0 THEN 0 ELSE g[i - 1] + f[i - 1]
    BY DEF PrefixSums
  <2>3. g = [i \in 0 .. n |-> g[i]]
    BY <2>1
  <2> QED
    BY <2>2, <2>3
<1>2. u = Body(u)
  BY <1>1
<1>3. SumUpTo(f, n) = u[n]
  BY DEF SumUpTo
<1> HIDE DEF u
<1>4. \A i \in 0 .. n : u[i] = IF i = 0 THEN 0 ELSE u[i - 1] + f[i - 1]
  BY <1>2
<1> HIDE DEF Body
<1> DEFINE S == {i \in 0 .. n : u[i] = g[i]}
<1>5. 0 \in S
  BY <1>4 DEF PrefixSums
<1>6. ASSUME NEW i \in 1 .. n, i - 1 \in S PROVE i \in S
  <2>1. u[i] = u[i - 1] + f[i - 1] /\ g[i] = g[i - 1] + f[i - 1]
    BY <1>4 DEF PrefixSums
  <2> QED
    BY <1>6, <2>1
<1> HIDE DEF S
<1>7. n \in S
  BY <1>5, <1>6, UpToLength
<1> QED
  BY <1>3, <1>7 DEF S

(* The sum of natural numbers none of which is above p. *)
LEMMA SumBounded ==
  ASSUME NEW n \in Nat, NEW f \in [0 .. n - 1 -> Nat], NEW p \in Nat,
         \A i \in 0 .. n - 1 : f[i] <= p
  PROVE  SumUpTo(f, n) \in Nat /\ SumUpTo(f, n) <= n * p
<1>1. PICK g : PrefixSums(f, n, g)
  <2>1. f \in [0 .. n - 1 -> Int]
    OBVIOUS
  <2> QED
    BY <2>1, PrefixSumsExist
<1>2. g[0] = 0 /\ \A i \in 1 .. n : g[i] = g[i - 1] + f[i - 1]
  BY <1>1 DEF PrefixSums
<1> DEFINE S == {i \in 0 .. n : g[i] \in Nat /\ g[i] <= i * p}
<1>3. 0 \in S
  BY <1>2
<1>4. ASSUME NEW i \in 1 .. n, i - 1 \in S PROVE i \in S
  <2>1. g[i] = g[i - 1] + f[i - 1] /\ f[i - 1] \in Nat /\ f[i - 1] <= p
    BY <1>2
  <2>2. g[i - 1] \in Nat /\ g[i - 1] <= (i - 1) * p
    BY <1>4
  <2>3. (i - 1) * p + p = i * p /\ (i - 1) * p \in Int
    OBVIOUS
  <2> QED
    BY <2>1, <2>2, <2>3
<1> HIDE DEF S
<1>5. \A i \in 0 .. n : i \in S
  BY <1>3, <1>4, UpToLength
<1>6. n \in S
  BY <1>5
<1> QED
  BY <1>1, <1>6, SumIsLastPrefix DEF S

(* One value changes: the sums after it change by as much. *)
LEMMA SumOfChanged ==
  ASSUME NEW n \in Nat, NEW f \in [0 .. n - 1 -> Int], NEW k \in 0 .. n - 1,
         NEW v \in Int
  PROVE  SumUpTo([f EXCEPT ![k] = v], n) = SumUpTo(f, n) - f[k] + v
<1>1. PICK g : PrefixSums(f, n, g)
  BY PrefixSumsExist
<1>2. /\ g \in [0 .. n -> Int] /\ g[0] = 0
      /\ \A i \in 1 .. n : g[i] = g[i - 1] + f[i - 1]
  BY <1>1 DEF PrefixSums
<1> DEFINE e == [f EXCEPT ![k] = v]
           h == [i \in 0 .. n |-> IF i > k THEN g[i] - f[k] + v ELSE g[i]]
<1>3. h \in [0 .. n -> Int] /\ h[0] = 0
  BY <1>2
<1>4. \A i \in 1 .. n : h[i] = h[i - 1] + e[i - 1]
  <2> TAKE i \in 1 .. n
  <2>1. g[i] = g[i - 1] + f[i - 1] /\ g[i] \in Int /\ g[i - 1] \in Int /\ f[i - 1] \in Int
    BY <1>2
  <2>2. e[i - 1] = IF i - 1 = k THEN v ELSE f[i - 1]
    OBVIOUS
  <2>3. /\ h[i] = IF i > k THEN g[i] - f[k] + v ELSE g[i]
        /\ h[i - 1] = IF i - 1 > k THEN g[i - 1] - f[k] + v ELSE g[i - 1]
    OBVIOUS
  <2> HIDE DEF e, h
  <2> QED
    BY <2>1, <2>2, <2>3
<1>5. h[n] = g[n] - f[k] + v
  OBVIOUS
<1> HIDE DEF e, h
<1>6. PrefixSums(e, n, h)
  BY <1>3, <1>4 DEF PrefixSums
<1>7. SumUpTo(f, n) = g[n] /\ SumUpTo(e, n) = h[n]
  BY <1>1, <1>6, SumIsLastPrefix
<1> QED
  BY <1>5, <1>7 DEF e

--------------------------------------------------------------------------------
(* Arithmetic of time and slots. *)

LEMMA DivMod ==
  ASSUME NEW a \in Nat, NEW b \in Nat \ {0}
  PROVE  /\ a \div b \in Nat /\ a % b \in 0 .. b - 1
         /\ a = b * (a \div b) + (a % b)
OBVIOUS

LEMMA NextMultiple ==
  ASSUME NEW b \in Nat, NEW p \in Int, NEW q \in Int, p < q
  PROVE  b * p + b <= b * q
OBVIOUS

(* A later time is in no earlier slot. *)
LEMMA SlotsInOrder ==
  ASSUME NEW a \in Nat, NEW c \in Nat, a <= c, NEW b \in Nat \ {0}
  PROVE  a \div b <= c \div b
<1> DEFINE p == a \div b
           q == c \div b
<1>1. /\ p \in Nat /\ q \in Nat
      /\ a % b \in 0 .. b - 1 /\ c % b \in 0 .. b - 1
      /\ a = b * p + (a % b) /\ c = b * q + (c % b)
  BY DivMod
<1>2. q < p => b * q + b <= b * p
  BY <1>1, NextMultiple
<1>3. b * p \in Int /\ b * q \in Int
  BY <1>1
<1> HIDE DEF p, q
<1>4. p <= q
  BY <1>1, <1>2, <1>3
<1> QED
  BY <1>4 DEF p, q

(* Two slot numbers less than a ring apart have different places in it. *)
LEMMA PlacesDiffer ==
  ASSUME NEW g \in Nat, NEW h \in Nat, NEW n \in Nat \ {0},
         g % n = h % n, g - h < n, h - g < n
  PROVE  g = h
<1> DEFINE p == g \div n
           q == h \div n
<1>1. /\ p \in Nat /\ q \in Nat /\ g % n \in 0 .. n - 1
      /\ g = n * p + (g % n) /\ h = n * q + (g % n)
  BY DivMod
<1>2. /\ q < p => n * q + n <= n * p
      /\ p < q => n * p + n <= n * q
  BY <1>1, NextMultiple
<1>3. n * p \in Int /\ n * q \in Int
  BY <1>1
<1> HIDE DEF p, q
<1>4. p = q
  BY <1>1, <1>2, <1>3
<1> QED
  BY <1>1, <1>4

(* A record is divided into as many shares as slots its duration fills. *)
LEMMA SharesCover ==
  ASSUME NEW d \in Nat
  PROVE  /\ Shares(d) \in Nat \ {0}
         /\ d = 0 => Shares(d) = 1
         /\ d > 0 => /\ (Shares(d) - 1) * SlotSize < d
                     /\ d <= Shares(d) * SlotSize
<1> DEFINE p == d \div SlotSize
           r == d % SlotSize
<1>1. SlotSize \in Nat \ {0}
  BY HistCounterAssumption
<1>2. p \in Nat /\ r \in 0 .. SlotSize - 1 /\ d = SlotSize * p + r
  BY <1>1, DivMod
<1>3. Shares(d) = IF d = 0 THEN 1 ELSE p + (IF r > 0 THEN 1 ELSE 0)
  BY DEF Shares
<1>4. /\ SlotSize * p \in Nat
      /\ p * SlotSize = SlotSize * p
      /\ (p + 1) * SlotSize = SlotSize * p + SlotSize
      /\ (p - 1) * SlotSize = SlotSize * p - SlotSize
      /\ p = 0 => SlotSize * p = 0
  BY <1>1, <1>2
<1> HIDE DEF p, r
<1>5. d > 0 /\ r = 0 => p > 0
  BY <1>1, <1>2, <1>4
<1>6. CASE d = 0
  BY <1>3, <1>6
<1>7. CASE d > 0 /\ r > 0
  <2>1. Shares(d) = p + 1 /\ Shares(d) - 1 = p
    BY <1>2, <1>3, <1>7
  <2> QED
    BY <1>1, <1>2, <1>4, <1>7, <2>1
<1>8. CASE d > 0 /\ r = 0
  <2>1. Shares(d) = p /\ p \in Nat \ {0}
    BY <1>2, <1>3, <1>5, <1>8
  <2> QED
    BY <1>1, <1>2, <1>4, <1>8, <2>1
<1> QED
  BY <1>2, <1>6, <1>7, <1>8

--------------------------------------------------------------------------------
(* The scan for a new peak finds the last of the fullest slots: there is    *)
(* one among the first n, for the least n without one would have one.       *)
LEMMA RescannedIsPeak ==
  ASSUME NEW s \in [Slots -> [g : Nat, count : [Measures -> Nat]]], NEW m \in Measures
  PROVE  /\ Rescanned(s, m) \in Slots
         /\ \A j \in Slots : s[j].count[m] <= s[Rescanned(s, m)].count[m]
<1> DEFINE c(i) == s[i].count[m]
           After(j, i) == c(j) < c(i) \/ (c(j) = c(i) /\ j <= i)
           Found(n) == \E i \in 0 .. n - 1 : \A j \in 0 .. n - 1 : After(j, i)
           Bad == {n \in 1 .. NumSlots : ~Found(n)}
<1>1. NumSlots \in Nat \ {0} /\ Slots = 0 .. NumSlots - 1
  BY HistCounterAssumption DEF Slots
<1>2. \A i \in Slots : c(i) \in Nat
  OBVIOUS
<1> HIDE DEF c
<1>3. ASSUME Bad # {} PROVE FALSE
  <2>1. PICK n \in Bad : \A k \in Bad : n <= k
    <3>1. Bad \subseteq Nat
      OBVIOUS
    <3> QED
      BY <1>3, <3>1, LeastOfNaturals
  <2>2. n \in 1 .. NumSlots /\ ~Found(n)
    OBVIOUS
  <2>3. CASE n = 1
    <3>1. \A j \in 0 .. n - 1 : After(j, 0)
      BY <2>3
    <3> QED
      BY <2>2, <2>3, <3>1
  <2>4. CASE n > 1
    <3>1. n - 1 \in 1 .. NumSlots /\ (n - 1) - 1 = n - 2
      BY <1>1, <2>2, <2>4
    <3>2. PICK i \in 0 .. n - 2 : \A j \in 0 .. n - 2 : After(j, i)
      <4>1. n - 1 \notin Bad
        <5> HIDE DEF Bad
        <5>1. ASSUME n - 1 \in Bad PROVE FALSE
          <6>1. n <= n - 1
            BY <2>1, <5>1
          <6> QED
            BY <2>2, <6>1
        <5> QED
          BY <5>1
      <4>2. Found(n - 1)
        BY <3>1, <4>1
      <4> QED
        BY <3>1, <4>2
    <3>3. /\ n - 1 \in Slots /\ i \in Slots
          /\ \A j \in 0 .. n - 1 : j \in Slots /\ (j = n - 1 \/ j \in 0 .. n - 2)
      BY <1>1, <2>2, <2>4
    <3>4. CASE c(n - 1) >= c(i)
      <4>1. ASSUME NEW j \in 0 .. n - 1 PROVE After(j, n - 1)
        <5>1. CASE j = n - 1
          BY <5>1, <2>2
        <5>2. CASE j \in 0 .. n - 2
          <6>1. After(j, i) /\ j \in Slots /\ n - 1 \in Slots /\ i \in Slots
            BY <3>2, <3>3, <5>2
          <6>2. c(j) \in Nat /\ c(i) \in Nat /\ c(n - 1) \in Nat
            BY <1>2, <6>1
          <6>3. c(j) <= c(n - 1)
            <7>1. c(j) <= c(i)
              BY <6>1, <6>2
            <7> HIDE DEF After
            <7> QED
              BY <3>4, <6>2, <7>1
          <6>4. j <= n - 1
            BY <2>2, <5>2
          <6>5. c(j) < c(n - 1) \/ c(j) = c(n - 1)
            BY <6>2, <6>3
          <6> QED
            BY <6>4, <6>5
        <5> QED
          BY <3>3, <5>1, <5>2
      <4> QED
        BY <2>2, <4>1
    <3>5. CASE c(n - 1) < c(i)
      <4>1. \A j \in 0 .. n - 1 : After(j, i)
        BY <1>2, <2>2, <3>2, <3>3, <3>5
      <4> QED
        BY <2>2, <3>2, <4>1
    <3> QED
      BY <1>2, <3>3, <3>4, <3>5
  <2> QED
    BY <2>2, <2>3, <2>4
<1>4. Found(NumSlots)
  <2>1. NumSlots \in 1 .. NumSlots
    BY <1>1
  <2> QED
    BY <1>3, <2>1
<1>5. \E i \in Slots : \A j \in Slots : After(j, i)
  BY <1>1, <1>4
<1>6. Rescanned(s, m) = CHOOSE i \in Slots : \A j \in Slots : After(j, i)
  BY DEF Rescanned, c
<1>7. /\ Rescanned(s, m) \in Slots
      /\ \A j \in Slots : After(j, Rescanned(s, m))
  BY <1>5, <1>6
<1> QED
  BY <1>2, <1>7 DEF c

--------------------------------------------------------------------------------
(* The effect of the two steps. *)

LEMMA ConstantsTyped ==
  /\ NumSlots \in Nat \ {0} /\ SlotSize \in Nat \ {0} /\ MaxGlobal \in Nat
  /\ Zero \in [Measures -> Nat]
  /\ Slots = 0 .. NumSlots - 1 /\ 0 \in Slots
  /\ GlobalSlots = 0 .. MaxGlobal
BY HistCounterAssumption DEF Slots, GlobalSlots, Zero

(* One share goes to the slot of its time, which is emptied first if it    *)
(* belonged to another.                                                    *)
LEMMA ShareAdded ==
  ASSUME LoopTyped, AddShare,
         NEW g, g = ts \div SlotSize, NEW k, k = g % NumSlots,
         NEW base, base = (IF slots[k].g = g THEN slots[k].count ELSE Zero)
  PROVE  /\ g \in GlobalSlots /\ k \in Slots /\ base \in [Measures -> Nat]
         /\ slots' = [slots EXCEPT ![k] =
              [g |-> g, count |-> [m \in Measures |-> base[m] + share[m]]]]
         /\ slots' \in [Slots -> [g : Nat, count : [Measures -> Nat]]]
<1>1. /\ ts < end /\ ts \in Nat /\ end \in Nat /\ end \div SlotSize <= MaxGlobal
      /\ share \in [Measures -> Nat]
      /\ slots \in [Slots -> [g : Nat, count : [Measures -> Nat]]]
  BY DEF LoopTyped, AddShare
<1>2. g \in GlobalSlots
  <2>1. g \in Nat /\ end \div SlotSize \in Nat
    BY <1>1, ConstantsTyped, DivMod
  <2>2. g <= end \div SlotSize
    <3>1. ts <= end /\ SlotSize \in Nat \ {0}
      BY <1>1, ConstantsTyped
    <3> QED
      BY <1>1, <3>1, SlotsInOrder
  <2> QED
    BY <1>1, <2>1, <2>2, ConstantsTyped
<1>3. g \in Nat /\ k \in Slots
  <2>1. g \in Nat /\ NumSlots \in Nat \ {0}
    BY <1>2, ConstantsTyped
  <2>2. g % NumSlots \in 0 .. NumSlots - 1
    BY <2>1, DivMod
  <2> QED
    BY <2>1, <2>2, ConstantsTyped
<1>4. base \in [Measures -> Nat]
  BY <1>1, <1>3, ConstantsTyped
<1> DEFINE sum == [m \in Measures |-> base[m] + share[m]]
           cleared == IF Changed(k, g)
                        THEN [slots EXCEPT ![k] = [g |-> g, count |-> Zero]] ELSE slots
<1>5. slots' = [cleared EXCEPT ![k].count = [m \in Measures |-> @[m] + share[m]]]
  BY DEF AddShare
<1>6. /\ cleared \in [Slots -> [g : Nat, count : [Measures -> Nat]]]
      /\ cleared[k] = [g |-> g, count |-> base]
      /\ \A i \in Slots : i # k => cleared[i] = slots[i]
  BY <1>1, <1>3, ConstantsTyped DEF Changed
<1> HIDE DEF cleared
<1>7. sum \in [Measures -> Nat]
  BY <1>1, <1>4
<1>8. slots' = [cleared EXCEPT ![k] = [g |-> g, count |-> sum]]
  <2>1. slots' = [cleared EXCEPT ![k] =
          [cleared[k] EXCEPT !.count = [m \in Measures |-> cleared[k].count[m] + share[m]]]]
    BY <1>5
  <2>2. cleared[k].count = base /\ cleared[k].g = g
    BY <1>6
  <2>3. [m \in Measures |-> cleared[k].count[m] + share[m]] = sum
    BY <2>2
  <2>4. [cleared[k] EXCEPT !.count = sum] = [g |-> g, count |-> sum]
    BY <1>6
  <2> QED
    BY <2>1, <2>3, <2>4
<1>9. slots' = [slots EXCEPT ![k] = [g |-> g, count |-> sum]]
  BY <1>1, <1>6, <1>8
<1> HIDE DEF sum
<1>10. slots' \in [Slots -> [g : Nat, count : [Measures -> Nat]]]
  BY <1>1, <1>3, <1>7, <1>9
<1> QED
  BY <1>2, <1>3, <1>4, <1>9, <1>10 DEF sum

(* The peak stays a peak: a slot that is emptied without a scan was not    *)
(* the peak, and the slot that grows is compared with the old peak.        *)
LEMMA PeakKept ==
  ASSUME LoopTyped, PeakIsMax, AddShare
  PROVE  PeakIsMax' /\ peak' \in [Measures -> Slots]
<1> DEFINE g == ts \div SlotSize
           k == g % NumSlots
           base == IF slots[k].g = g THEN slots[k].count ELSE Zero
           cleared == IF Changed(k, g)
                        THEN [slots EXCEPT ![k] = [g |-> g, count |-> Zero]] ELSE slots
           top(m) == IF Changed(k, g) /\ peak[m] = k THEN Rescanned(cleared, m)
                                                     ELSE peak[m]
<1>1. peak' = [m \in Measures |->
         IF slots'[k].count[m] >= slots'[top(m)].count[m] THEN k ELSE top(m)]
  BY DEF AddShare
<1>2. /\ g \in GlobalSlots /\ k \in Slots /\ base \in [Measures -> Nat]
      /\ slots' = [slots EXCEPT ![k] =
           [g |-> g, count |-> [m \in Measures |-> base[m] + share[m]]]]
      /\ slots' \in [Slots -> [g : Nat, count : [Measures -> Nat]]]
  BY ShareAdded
<1>3. /\ slots \in [Slots -> [g : Nat, count : [Measures -> Nat]]]
      /\ share \in [Measures -> Nat] /\ peak \in [Measures -> Slots]
      /\ g \in Nat
  BY <1>2, ConstantsTyped DEF LoopTyped
<1> HIDE DEF g, k
<1>4. /\ cleared \in [Slots -> [g : Nat, count : [Measures -> Nat]]]
      /\ cleared[k].count = base
      /\ \A i \in Slots : i # k => cleared[i] = slots[i]
  BY <1>2, <1>3, ConstantsTyped DEF Changed
<1> HIDE DEF cleared, base
<1>5. ASSUME NEW m \in Measures
      PROVE  /\ top(m) \in Slots
             /\ \A i \in Slots : slots'[i].count[m] <=
                  slots'[IF slots'[k].count[m] >= slots'[top(m)].count[m]
                           THEN k ELSE top(m)].count[m]
  <2>1. /\ top(m) \in Slots
        /\ \A i \in Slots : cleared[i].count[m] <= cleared[top(m)].count[m]
    <3>1. CASE Changed(k, g) /\ peak[m] = k
      BY <1>4, <3>1, RescannedIsPeak
    <3>2. CASE Changed(k, g) /\ peak[m] # k
      <4>1. top(m) = peak[m] /\ peak[m] \in Slots
        BY <1>3, <3>2
      <4>2. cleared[k].count[m] = 0
        BY <1>2, <1>4, <3>2 DEF base, Changed, Zero
      <4>3. \A i \in Slots : slots[i].count[m] <= slots[peak[m]].count[m]
        BY DEF PeakIsMax
      <4>4. \A i \in Slots : slots[i].count[m] \in Nat
        BY <1>3
      <4> QED
        BY <1>4, <3>2, <4>1, <4>2, <4>3, <4>4
    <3>3. CASE ~Changed(k, g)
      <4>1. top(m) = peak[m] /\ peak[m] \in Slots /\ cleared = slots
        BY <1>3, <3>3 DEF cleared
      <4> QED
        BY <4>1 DEF PeakIsMax
    <3> QED
      BY <3>1, <3>2, <3>3
  <2> DEFINE t == top(m)
  <2> HIDE DEF t
  <2>2. \A i \in Slots : i # k => slots'[i].count[m] = cleared[i].count[m]
    BY <1>2, <1>3, <1>4
  <2>3. slots'[k].count[m] >= cleared[k].count[m]
    <3>1. slots'[k].count[m] = base[m] + share[m]
      BY <1>2, <1>3
    <3> QED
      BY <1>2, <1>3, <1>4, <3>1
  <2>4. \A i \in Slots : slots'[i].count[m] \in Nat /\ cleared[i].count[m] \in Nat
    BY <1>2, <1>4
  <2>5. t \in Slots /\ \A i \in Slots : cleared[i].count[m] <= cleared[t].count[m]
    BY <2>1 DEF t
  <2>6. slots'[t].count[m] >= cleared[t].count[m]
    BY <1>2, <2>2, <2>3, <2>4, <2>5
  <2>7. \A i \in Slots : slots'[i].count[m] <=
          slots'[IF slots'[k].count[m] >= slots'[t].count[m] THEN k ELSE t].count[m]
    <3>1. ASSUME NEW i \in Slots, i # k
          PROVE  slots'[i].count[m] <= slots'[t].count[m]
      BY <2>2, <2>4, <2>5, <2>6, <3>1
    <3>2. CASE slots'[k].count[m] >= slots'[t].count[m]
      BY <1>2, <2>4, <2>5, <3>1, <3>2
    <3>3. CASE ~(slots'[k].count[m] >= slots'[t].count[m])
      BY <1>2, <2>4, <2>5, <3>1, <3>3
    <3> QED
      BY <3>2, <3>3
  <2> QED
    BY <2>1, <2>7 DEF t
<1> HIDE DEF top
<1>6. peak' \in [Measures -> Slots]
  BY <1>1, <1>2, <1>5
<1>7. PeakIsMax'
  BY <1>1, <1>5 DEF PeakIsMax
<1> QED
  BY <1>6, <1>7

(* The ring keeps the newest times. *)
LEMMA RingKept ==
  ASSUME LoopTyped, RingHolds, AddShare
  PROVE  RingHolds'
<1> DEFINE g == ts \div SlotSize
           k == g % NumSlots
           base == IF slots[k].g = g THEN slots[k].count ELSE Zero
<1>1. /\ late' = (late \/ g <= newest - NumSlots)
      /\ newest' = IF g > newest THEN g ELSE newest
      /\ ledger' = [ledger EXCEPT ![g] = [m \in Measures |-> @[m] + share[m]]]
  BY DEF AddShare
<1>2. /\ g \in GlobalSlots /\ k \in Slots /\ base \in [Measures -> Nat]
      /\ slots' = [slots EXCEPT ![k] =
           [g |-> g, count |-> [m \in Measures |-> base[m] + share[m]]]]
  BY ShareAdded
<1>3. /\ slots \in [Slots -> [g : Nat, count : [Measures -> Nat]]]
      /\ ledger \in [GlobalSlots -> [Measures -> Nat]]
      /\ newest \in Int /\ NumSlots \in Nat \ {0} /\ GlobalSlots \subseteq Nat
      /\ Zero \in [Measures -> Nat] /\ late \in BOOLEAN /\ share \in [Measures -> Nat]
  BY ConstantsTyped DEF LoopTyped
<1>4. SUFFICES ASSUME ~late', NEW h \in GlobalSlots
      PROVE  /\ slots'[h % NumSlots].g = h => slots'[h % NumSlots].count = ledger'[h]
             /\ newest' < h => ledger'[h] = Zero
             /\ newest' - NumSlots < h /\ h <= newest' /\ ledger'[h] # Zero =>
                  slots'[h % NumSlots].g = h
  BY DEF RingHolds
<1>5. ~late /\ newest - NumSlots < g /\ newest <= newest' /\ g <= newest'
  <2>1. ~late /\ ~(g <= newest - NumSlots)
    BY <1>1, <1>4, Zenon
  <2>2. g \in Nat
    BY <1>2, <1>3
  <2> HIDE DEF g
  <2> QED
    BY <1>1, <1>3, <2>1, <2>2
<1>6. \A i \in GlobalSlots :
        /\ slots[i % NumSlots].g = i => slots[i % NumSlots].count = ledger[i]
        /\ newest < i => ledger[i] = Zero
        /\ newest - NumSlots < i /\ i <= newest /\ ledger[i] # Zero =>
             slots[i % NumSlots].g = i
  BY <1>5 DEF RingHolds
<1>7. h % NumSlots \in Slots
  <2>1. h % NumSlots \in 0 .. NumSlots - 1
    BY <1>3, DivMod
  <2> QED
    BY <2>1, ConstantsTyped
<1> HIDE DEF g
<1>8. CASE h = g
  <2>1. base = ledger[g]
    <3>1. CASE slots[k].g = g
      BY <1>2, <1>6, <3>1
    <3>2. CASE slots[k].g # g
      <4>1. ledger[g] = Zero
        BY <1>2, <1>3, <1>5, <1>6, <3>2
      <4> QED
        BY <3>2, <4>1
    <3> QED
      BY <3>1, <3>2
  <2> HIDE DEF base
  <2>2. slots'[k].g = g /\ slots'[k].count = [m \in Measures |-> base[m] + share[m]]
    BY <1>2, <1>3
  <2>3. ledger'[g] = [m \in Measures |-> ledger[g][m] + share[m]]
    BY <1>1, <1>2, <1>3
  <2>4. ~(newest' < g)
    BY <1>1, <1>2, <1>3, <1>5
  <2> QED
    BY <1>8, <2>1, <2>2, <2>3, <2>4
<1>9. CASE h # g
  <2> HIDE DEF base
  <2>1. ledger'[h] = ledger[h]
    BY <1>1, <1>2, <1>3, <1>9
  <2>2. newest' < h => ledger[h] = Zero
    BY <1>1, <1>2, <1>3, <1>5, <1>6
  <2>3. CASE h % NumSlots # k
    <3>1. slots'[h % NumSlots] = slots[h % NumSlots]
      BY <1>2, <1>3, <1>7, <2>3
    <3>2. newest' - NumSlots < h /\ h <= newest' /\ ledger[h] # Zero =>
            newest - NumSlots < h /\ h <= newest
      BY <1>1, <1>2, <1>3, <1>5, <1>6
    <3> QED
      BY <1>6, <2>1, <2>2, <3>1, <3>2
  <2>4. CASE h % NumSlots = k
    <3>1. slots'[h % NumSlots].g = g
      BY <1>2, <1>3, <2>4
    <3>2. ~(newest' - NumSlots < h /\ h <= newest' /\ ledger[h] # Zero)
      <4>1. SUFFICES ASSUME newest' - NumSlots < h, h <= newest', ledger[h] # Zero
            PROVE  FALSE
        OBVIOUS
      <4>2. h <= newest
        BY <1>3, <1>6, <4>1
      <4>3. g - h < NumSlots /\ h - g < NumSlots
        BY <1>1, <1>2, <1>3, <1>5, <4>1, <4>2
      <4>4. g = h
        BY <1>2, <1>3, <2>4, <4>3, PlacesDiffer
      <4> QED
        BY <1>9, <4>4
    <3> QED
      BY <1>9, <2>1, <2>2, <3>1, <3>2
  <2> QED
    BY <2>3, <2>4
<1> QED
  BY <1>8, <1>9

--------------------------------------------------------------------------------
(* Counting the shares. *)

LEMMA SharesKept ==
  ASSUME LoopTyped, DueCovers, SharesPlaced, AddShare
  PROVE  (DueCovers /\ SharesPlaced)'
<1>1. /\ ts < end /\ ts' = ts + SlotSize /\ due' = due - 1
      /\ end' = end /\ duration' = duration
  BY DEF AddShare
<1>2. /\ duration > 0 /\ (due - 1) * SlotSize < end - ts /\ end - ts <= due * SlotSize
      /\ ts \in Nat /\ end \in Nat /\ due \in Int /\ duration \in Nat
      /\ SlotSize \in Nat \ {0}
  BY <1>1, ConstantsTyped DEF DueCovers, LoopTyped
<1> DEFINE P == due * SlotSize
<1>3. /\ P \in Int
      /\ (due - 1) * SlotSize = P - SlotSize
      /\ ((due - 1) - 1) * SlotSize = P - SlotSize - SlotSize
  BY <1>2
<1>4. /\ due <= 0 => P <= 0
      /\ due >= 2 => P >= SlotSize + SlotSize
  BY <1>2
<1> HIDE DEF P
<1>5. P - SlotSize < end - ts /\ end - ts <= P
  BY <1>2, <1>3 DEF P
<1>6. DueCovers'
  <2>1. ((due - 1) - 1) * SlotSize < end - (ts + SlotSize)
    BY <1>2, <1>3, <1>5
  <2>2. end - (ts + SlotSize) <= (due - 1) * SlotSize
    BY <1>2, <1>3, <1>5
  <2> QED
    BY <1>1, <1>2, <2>1, <2>2 DEF DueCovers
<1>7. SharesPlaced'
  <2>1. SUFFICES ASSUME ts + SlotSize >= end PROVE due - 1 = 0
    BY <1>1, <1>2 DEF SharesPlaced
  <2>2. ~(due <= 0)
    BY <1>1, <1>2, <1>3, <1>4, <1>5
  <2>3. ~(due >= 2)
    BY <1>1, <1>2, <1>3, <1>4, <1>5, <2>1
  <2> QED
    BY <1>2, <2>2, <2>3
<1> QED
  BY <1>6, <1>7

--------------------------------------------------------------------------------
(* The invariant. *)

LEMMA InitHist == Init => HistInv
<1> SUFFICES ASSUME Init PROVE HistInv
  OBVIOUS
<1>1. 0 \div SlotSize <= MaxGlobal
  <2>1. /\ 0 \div SlotSize \in Nat /\ 0 % SlotSize \in Nat
        /\ 0 = SlotSize * (0 \div SlotSize) + (0 % SlotSize)
    BY ConstantsTyped, DivMod
  <2>2. 0 \div SlotSize > 0 => SlotSize * 0 + SlotSize <= SlotSize * (0 \div SlotSize)
    BY <2>1, ConstantsTyped, NextMultiple
  <2> QED
    BY <2>1, <2>2, ConstantsTyped
<1>2. LoopTyped
  <2>1. Zero \in [Measures -> Nat] /\ Zero \in [Measures -> Slots]
    BY ConstantsTyped DEF Zero
  <2>2. slots \in [Slots -> [g : Nat, count : [Measures -> Nat]]]
    BY <2>1 DEF Init
  <2>3. ledger \in [GlobalSlots -> [Measures -> Nat]]
    BY <2>1 DEF Init
  <2>4. /\ peak \in [Measures -> Slots] /\ share \in [Measures -> Nat]
        /\ ts = 0 /\ end = 0 /\ duration = 0 /\ due = 0
        /\ late = FALSE /\ newest = -1
    BY <2>1 DEF Init
  <2>5. end \div SlotSize <= MaxGlobal
    BY <1>1, <2>4, Zenon
  <2>6. /\ ts \in Nat /\ end \in Nat /\ duration \in Nat /\ due \in Int
    BY <2>4
  <2>7. late \in BOOLEAN /\ newest \in GlobalSlots \cup {-1}
    BY <2>4, Zenon
  <2> QED
    BY <2>2, <2>3, <2>4, <2>5, <2>6, <2>7, Zenon DEF LoopTyped
<1>3. PeakIsMax
  <2> SUFFICES ASSUME NEW m \in Measures, NEW i \in Slots
      PROVE  slots[i].count[m] <= slots[peak[m]].count[m]
    BY DEF PeakIsMax
  <2>1. peak[m] \in Slots
    BY <1>2 DEF LoopTyped
  <2>2. \A j \in Slots : slots[j].count = Zero
    BY DEF Init
  <2>3. Zero[m] = 0
    BY DEF Zero
  <2> QED
    BY <2>1, <2>2, <2>3
<1>4. RingHolds
  <2> SUFFICES ASSUME NEW g \in GlobalSlots
      PROVE  /\ slots[g % NumSlots].g = g => slots[g % NumSlots].count = ledger[g]
             /\ ledger[g] = Zero
    BY ConstantsTyped DEF RingHolds
  <2>1. g % NumSlots \in Slots
    <3>1. g \in Nat /\ NumSlots \in Nat \ {0}
      BY ConstantsTyped
    <3>2. g % NumSlots \in 0 .. NumSlots - 1
      BY <3>1, DivMod
    <3> QED
      BY <3>2, ConstantsTyped
  <2> QED
    BY <2>1 DEF Init
<1>5. DueCovers /\ SharesPlaced
  BY DEF Init, DueCovers, SharesPlaced
<1> QED
  BY <1>2, <1>3, <1>4, <1>5 DEF HistInv

LEMMA StepBeginAdd ==
  ASSUME HistInv, BeginAdd
  PROVE  HistInv'
<1>1. PICK a \in Amounts, t \in Starts, d \in Durations :
        /\ ts' = t /\ end' = t + d /\ duration' = d
        /\ share' = [m \in Measures |-> a[m] \div Shares(d)]
        /\ due' = Shares(d)
  BY DEF BeginAdd
<1>2. UNCHANGED <<slots, peak, late, ledger, newest>>
  BY DEF BeginAdd
<1>3. /\ a \in [Measures -> Nat] /\ t \in Nat /\ d \in Nat
      /\ (t + d) \div SlotSize <= MaxGlobal
  BY HistCounterAssumption
<1>4. /\ Shares(d) \in Nat \ {0}
      /\ d = 0 => Shares(d) = 1
      /\ d > 0 => (Shares(d) - 1) * SlotSize < d /\ d <= Shares(d) * SlotSize
  BY <1>3, SharesCover
<1>5. share' \in [Measures -> Nat]
  <2>1. \A m \in Measures : a[m] \div Shares(d) \in Nat
    BY <1>3, <1>4, DivMod
  <2> QED
    BY <1>1, <2>1
<1>6. LoopTyped'
  BY <1>1, <1>2, <1>3, <1>4, <1>5 DEF HistInv, LoopTyped
<1>7. PeakIsMax' /\ RingHolds'
  BY <1>2 DEF HistInv, PeakIsMax, RingHolds
<1>8. DueCovers' /\ SharesPlaced'
  <2> DEFINE n == Shares(d)
  <2>1. /\ t + d - t = d /\ (t < t + d => d > 0) /\ (t >= t + d => d = 0)
        /\ ts' = t /\ end' = t + d /\ duration' = d /\ due' = n
    BY <1>1, <1>3
  <2>2. /\ d = 0 => n = 1
        /\ d > 0 => (n - 1) * SlotSize < d /\ d <= n * SlotSize
    BY <1>4
  <2> HIDE DEF n
  <2>3. DueCovers'
    <3>1. CASE t < t + d
      <4>1. d > 0 /\ (n - 1) * SlotSize < d /\ d <= n * SlotSize
        BY <2>1, <2>2, <3>1
      <4>2. /\ duration' > 0
            /\ (due' - 1) * SlotSize < end' - ts'
            /\ end' - ts' <= due' * SlotSize
        <5>1. end' - ts' = d
          BY <1>1, <1>3
        <5>2. duration' = d /\ due' = n
          BY <2>1
        <5> QED
          BY <4>1, <5>1, <5>2, Zenon
      <4> QED
        BY <4>2, Zenon DEF DueCovers
    <3>2. CASE ~(t < t + d)
      BY <2>1, <3>2, Zenon DEF DueCovers
    <3> QED
      BY <3>1, <3>2
  <2>4. SharesPlaced'
    BY <2>1, <2>2 DEF SharesPlaced
  <2> QED
    BY <2>3, <2>4
<1> QED
  BY <1>6, <1>7, <1>8 DEF HistInv

LEMMA StepAddShare ==
  ASSUME HistInv, AddShare
  PROVE  HistInv'
<1>1. LoopTyped /\ PeakIsMax /\ RingHolds /\ DueCovers /\ SharesPlaced
  BY DEF HistInv
<1>2. PeakIsMax' /\ peak' \in [Measures -> Slots]
  BY <1>1, PeakKept
<1>3. RingHolds' /\ DueCovers' /\ SharesPlaced'
  BY <1>1, RingKept, SharesKept
<1>4. LoopTyped'
  <2> DEFINE g == ts \div SlotSize
  <2>1. g \in GlobalSlots /\ slots' \in [Slots -> [g : Nat, count : [Measures -> Nat]]]
    BY <1>1, ShareAdded
  <2> HIDE DEF g
  <2>2. /\ late' = (late \/ g <= newest - NumSlots)
        /\ newest' = IF g > newest THEN g ELSE newest
        /\ ledger' = [ledger EXCEPT ![g] = [m \in Measures |-> @[m] + share[m]]]
        /\ ts' = ts + SlotSize /\ due' = due - 1
        /\ UNCHANGED <<end, duration, share>>
    BY DEF AddShare, g
  <2>3. ledger' \in [GlobalSlots -> [Measures -> Nat]]
    <3>1. [m \in Measures |-> ledger[g][m] + share[m]] \in [Measures -> Nat]
      BY <1>1, <2>1 DEF LoopTyped
    <3> QED
      BY <1>1, <2>1, <2>2, <3>1 DEF LoopTyped
  <2>4. late' \in BOOLEAN /\ newest' \in GlobalSlots \cup {-1}
    BY <1>1, <2>1, <2>2 DEF LoopTyped
  <2>5. /\ ts' \in Nat /\ due' \in Int /\ end' \in Nat
        /\ duration' \in Nat /\ share' \in [Measures -> Nat]
    BY <1>1, <2>2, ConstantsTyped DEF LoopTyped
  <2>6. end' \div SlotSize <= MaxGlobal
    BY <1>1, <2>2, Zenon DEF LoopTyped
  <2> QED
    BY <1>2, <2>1, <2>3, <2>4, <2>5, <2>6, Zenon DEF LoopTyped
<1> QED
  BY <1>2, <1>3, <1>4 DEF HistInv

LEMMA HistInvariant == Spec => []HistInv
<1>1. Init => HistInv
  BY InitHist
<1>2. HistInv /\ [Next]_vars => HistInv'
  <2> SUFFICES ASSUME HistInv, [Next]_vars PROVE HistInv'
    OBVIOUS
  <2>1. CASE BeginAdd
    BY <2>1, StepBeginAdd
  <2>2. CASE AddShare
    BY <2>2, StepAddShare
  <2>3. CASE UNCHANGED vars
    BY <2>3 DEF vars, loop, HistInv, LoopTyped, PeakIsMax, RingHolds, DueCovers,
                SharesPlaced
  <2>4. CASE Finished
    BY <2>3, <2>4 DEF Finished
  <2> QED
    BY <2>1, <2>2, <2>3, <2>4 DEF Next
<1> QED
  BY <1>1, <1>2, PTL DEF Spec

--------------------------------------------------------------------------------
(* The total. *)

LEMMA CountsTyped ==
  ASSUME LoopTyped, NEW m \in Measures
  PROVE  Counts(m) \in [0 .. NumSlots - 1 -> Nat]
BY ConstantsTyped DEF LoopTyped, Counts

LEMMA InitTotal == Init => TotalKept
<1> SUFFICES ASSUME Init PROVE TotalKept
  OBVIOUS
<1>1. LoopTyped
  BY InitHist DEF HistInv
<1>2. ASSUME NEW m \in Measures PROVE SumUpTo(Counts(m), NumSlots) = 0
  <2>1. Counts(m) \in [0 .. NumSlots - 1 -> Nat]
    BY <1>1, CountsTyped
  <2>2. \A i \in 0 .. NumSlots - 1 : Counts(m)[i] <= 0
    BY ConstantsTyped DEF Init, Counts, Zero
  <2>3. NumSlots \in Nat /\ NumSlots * 0 = 0
    BY ConstantsTyped
  <2> QED
    BY <2>1, <2>2, <2>3, SumBounded
<1>3. total = Zero /\ time = 0 /\ due = 0 /\ adds = 0
  BY DEF Init
<1> QED
  BY <1>2, <1>3, ConstantsTyped, HistCounterAssumption DEF TotalKept, Zero

(* The total loses what the slot held, if it is emptied, and gains the     *)
(* share, as the slot does.                                                *)
LEMMA TotalAdded ==
  ASSUME HistInv, TotalKept, AddShare
  PROVE  TotalKept'
<1> DEFINE g == ts \div SlotSize
           k == g % NumSlots
           base == IF slots[k].g = g THEN slots[k].count ELSE Zero
<1>1. LoopTyped
  BY DEF HistInv
<1>2. /\ k \in Slots /\ base \in [Measures -> Nat]
      /\ slots' = [slots EXCEPT ![k] =
           [g |-> g, count |-> [m \in Measures |-> base[m] + share[m]]]]
      /\ slots' \in [Slots -> [g : Nat, count : [Measures -> Nat]]]
  BY <1>1, ShareAdded
<1>3. total' = [m \in Measures |->
        (IF slots[k].g # g THEN total[m] - slots[k].count[m] ELSE total[m]) + share[m]]
  BY DEF AddShare, Changed, Withdrawn
<1>4. base = IF slots[k].g = g THEN slots[k].count ELSE Zero
  OBVIOUS
<1> HIDE DEF base, k, g
<1>5. /\ slots \in [Slots -> [g : Nat, count : [Measures -> Nat]]]
      /\ share \in [Measures -> Nat] /\ total \in [Measures -> Nat]
      /\ due \in Int /\ ts \in Nat /\ time \in Nat /\ adds \in 0 .. MaxAdds
  BY <1>1 DEF LoopTyped, TotalKept
<1>6. ASSUME NEW m \in Measures
      PROVE  total'[m] = SumUpTo(Counts(m)', NumSlots) /\ total'[m] \in Nat
  <2> DEFINE f == Counts(m)
             v == base[m] + share[m]
  <2>1. f \in [0 .. NumSlots - 1 -> Nat] /\ k \in 0 .. NumSlots - 1 /\ NumSlots \in Nat
    BY <1>1, <1>2, CountsTyped, ConstantsTyped
  <2>2. f[k] = slots[k].count[m] /\ v \in Nat /\ f[k] \in Nat
    BY <1>2, <1>5, <2>1 DEF Counts
  <2>3. Counts(m)' = [f EXCEPT ![k] = v]
    <3>1. \A i \in Slots : slots'[i].count[m] = IF i = k THEN v ELSE slots[i].count[m]
      BY <1>2, <1>5
    <3>2. Counts(m)' = [i \in Slots |-> slots'[i].count[m]]
      BY DEF Counts
    <3>3. f = [i \in Slots |-> slots[i].count[m]]
      BY DEF Counts
    <3> HIDE DEF f, v
    <3> QED
      BY <3>1, <3>2, <3>3
  <2>4. total[m] = SumUpTo(f, NumSlots) /\ total[m] \in Nat
    BY <1>5 DEF TotalKept
  <2>5. SumUpTo(Counts(m)', NumSlots) = SumUpTo(f, NumSlots) - f[k] + v
    <3> HIDE DEF f, v
    <3>1. f \in [0 .. NumSlots - 1 -> Int] /\ v \in Int
      BY <2>1, <2>2
    <3>2. SumUpTo([f EXCEPT ![k] = v], NumSlots) = SumUpTo(f, NumSlots) - f[k] + v
      BY <2>1, <3>1, SumOfChanged
    <3> QED
      BY <2>3, <3>2, Zenon
  <2>6. total'[m] = total[m] - f[k] + v
    <3>1. total'[m] = (IF slots[k].g # g THEN total[m] - slots[k].count[m] ELSE total[m]) + share[m]
      BY <1>3
    <3>2. v = (IF slots[k].g = g THEN slots[k].count[m] ELSE 0) + share[m]
      BY <1>4 DEF Zero
    <3>3. share[m] \in Nat
      BY <1>5
    <3> HIDE DEF f, v
    <3> QED
      BY <2>2, <2>4, <3>1, <3>2, <3>3
  <2>7. SumUpTo(Counts(m)', NumSlots) \in Nat
    <3> DEFINE e == [f EXCEPT ![k] = v]
    <3>1. e \in [0 .. NumSlots - 1 -> Nat]
      BY <2>1, <2>2
    <3>2. e = Counts(m)'
      BY <2>3
    <3> HIDE DEF e, f, v
    <3>3. PICK p \in Slots : \A i \in Slots : e[i] <= e[p]
      <4>1. /\ LoopTyped /\ PeakIsMax /\ AddShare
        BY DEF HistInv
      <4>2. PeakIsMax' /\ peak' \in [Measures -> Slots]
        BY <4>1, PeakKept
      <4>3. \A i \in Slots : e[i] = slots'[i].count[m]
        BY <3>2 DEF Counts
      <4> QED
        BY <4>2, <4>3 DEF PeakIsMax
    <3>4. e[p] \in Nat /\ \A i \in 0 .. NumSlots - 1 : e[i] <= e[p]
      BY <3>1, <3>3, ConstantsTyped
    <3>5. SumUpTo(e, NumSlots) \in Nat
      BY <2>1, <3>1, <3>4, SumBounded
    <3> QED
      BY <3>2, <3>5
  <2> HIDE DEF f, v
  <2> QED
    BY <2>4, <2>5, <2>6, <2>7
<1>7. total' \in [Measures -> Nat]
  <2>1. DOMAIN total' = Measures /\ total' = [m \in Measures |-> total'[m]]
    BY <1>3
  <2> QED
    BY <1>6, <2>1
<1>8. due' \in Nat
  <2>1. /\ ts < end /\ end \in Nat /\ end - ts <= due * SlotSize /\ due' = due - 1
        /\ SlotSize \in Nat \ {0}
    BY <1>1, ConstantsTyped DEF HistInv, DueCovers, AddShare, LoopTyped
  <2> DEFINE P == due * SlotSize
  <2>2. P \in Int /\ (due <= 0 => P <= 0) /\ end - ts <= P
    BY <1>5, <2>1
  <2> HIDE DEF P
  <2>3. ~(due <= 0)
    BY <1>5, <2>1, <2>2
  <2> QED
    BY <1>5, <2>1, <2>3
<1>9. time' \in Nat /\ adds' = adds
  BY <1>5 DEF AddShare
<1> QED
  BY <1>5, <1>6, <1>7, <1>8, <1>9 DEF TotalKept

LEMMA StepTotal ==
  ASSUME HistInv, TotalKept, [Next]_vars
  PROVE  TotalKept'
<1>1. CASE BeginAdd
  <2>1. UNCHANGED <<slots, total, time>> /\ adds' \in 0 .. MaxAdds
    BY <1>1, HistCounterAssumption DEF BeginAdd, TotalKept
  <2>2. due' \in Nat
    BY <1>1, HistCounterAssumption, SharesCover DEF BeginAdd
  <2> QED
    BY <2>1, <2>2 DEF TotalKept, Counts
<1>2. CASE AddShare
  BY <1>2, TotalAdded
<1>3. CASE UNCHANGED vars
  BY <1>3 DEF vars, TotalKept, Counts
<1> QED
  BY <1>1, <1>2, <1>3 DEF Next, Finished

LEMMA TotalInvariant == Spec => [](HistInv /\ TotalKept)
<1>1. Init => TotalKept
  BY InitTotal
<1>2. HistInv /\ TotalKept /\ [Next]_vars => TotalKept'
  BY StepTotal
<1> QED
  BY <1>1, <1>2, HistInvariant, PTL DEF Spec

(* An average over the ring is no more than the fullest slot gives. *)
LEMMA AverageBelowPeak ==
  ASSUME NEW n \in Nat \ {0}, NEW s \in Nat \ {0}, NEW t \in Nat, NEW p \in Nat,
         t <= n * p
  PROVE  t \div (s * n) <= p \div s
<1> DEFINE b == s * n
           a == t \div b
           q == p \div s
           c == s * a
<1>1. b \in Nat \ {0}
  OBVIOUS
<1>2. a \in Nat /\ b * a <= t
  <2>1. /\ a \in Nat /\ t % b \in 0 .. b - 1 /\ t = b * a + (t % b)
    <3> HIDE DEF b
    <3> QED
      BY <1>1, DivMod
  <2>2. b * a \in Int
    BY <1>1, <2>1
  <2> HIDE DEF a, b
  <2> QED
    BY <2>1, <2>2
<1>3. q \in Nat /\ p < s * q + s
  <2>1. /\ q \in Nat /\ p % s \in 0 .. s - 1 /\ p = s * q + (p % s)
    BY DivMod
  <2>2. s * q \in Int
    BY <2>1
  <2> HIDE DEF q
  <2> QED
    BY <2>1, <2>2
<1> HIDE DEF a, q
<1>4. b * a = n * c /\ c \in Nat
  BY <1>2
<1> HIDE DEF b, c
<1>5. c <= p
  <2> SUFFICES ASSUME p < c PROVE FALSE
    BY <1>4
  <2>1. n * p + n <= n * c
    BY <1>4, NextMultiple
  <2>2. n * p \in Int /\ n * c \in Int
    BY <1>4
  <2> QED
    BY <1>2, <1>4, <2>1, <2>2
<1>6. a <= q
  <2> SUFFICES ASSUME q < a PROVE FALSE
    BY <1>2, <1>3
  <2>1. s * q + s <= s * a
    BY <1>2, <1>3, NextMultiple
  <2>2. s * q \in Int /\ s * a \in Int
    BY <1>2, <1>3
  <2> QED
    BY <1>3, <1>5, <2>1, <2>2 DEF c
<1> QED
  BY <1>6 DEF a, b, q

LEMMA TotalImpliesSum == HistInv /\ TotalKept => TotalIsSum
<1> SUFFICES ASSUME HistInv, TotalKept, NEW m \in Measures
             PROVE  total[m] = SumUpTo(Counts(m), NumSlots) /\ Avg(m) <= Peak(m)
  BY DEF TotalIsSum
<1>1. LoopTyped /\ PeakIsMax /\ total[m] \in Nat
  BY DEF HistInv, TotalKept
<1> DEFINE p == slots[peak[m]].count[m]
<1>2. p \in Nat
  BY <1>1 DEF LoopTyped
<1>3. \A i \in 0 .. NumSlots - 1 : Counts(m)[i] <= p
  BY <1>1, ConstantsTyped DEF PeakIsMax, Counts
<1> HIDE DEF p
<1>4. SumUpTo(Counts(m), NumSlots) <= NumSlots * p
  BY <1>1, <1>2, <1>3, CountsTyped, SumBounded, ConstantsTyped
<1>5. total[m] = SumUpTo(Counts(m), NumSlots)
  BY DEF TotalKept
<1>6. total[m] \div (SlotSize * NumSlots) <= p \div SlotSize
  BY <1>1, <1>2, <1>4, <1>5, AverageBelowPeak, ConstantsTyped
<1> QED
  BY <1>5, <1>6 DEF Avg, Peak, p

--------------------------------------------------------------------------------
(* What a reader should know. *)

(* The cached index names a fullest slot at every iteration of histc_add,  *)
(* so that histc_get_peak need not search.                                 *)
THEOREM PeakIsPeak == Spec => []PeakIsMax
<1>1. HistInv => PeakIsMax
  BY DEF HistInv
<1> QED
  BY <1>1, HistInvariant, PTL

(* Unless a record came that is older than the ring, the ring holds the    *)
(* traffic of the newest times exactly.                                    *)
THEOREM RingHoldsNewest == Spec => []RingExact
<1>1. HistInv => RingExact
  <2> SUFFICES ASSUME HistInv, ~late, NEW g \in GlobalSlots,
                      newest - NumSlots < g, g <= newest, ledger[g] # Zero
      PROVE  slots[g % NumSlots] = [g |-> g, count |-> ledger[g]]
    BY DEF RingExact
  <2>1. /\ slots[g % NumSlots].g = g
        /\ slots[g % NumSlots].count = ledger[g]
    BY DEF HistInv, RingHolds
  <2>2. slots[g % NumSlots] \in [g : Nat, count : [Measures -> Nat]]
    <3>1. g \in Nat /\ NumSlots \in Nat \ {0}
      BY ConstantsTyped
    <3>2. g % NumSlots \in Slots
      BY <3>1, DivMod, ConstantsTyped
    <3> QED
      BY <3>2 DEF HistInv, LoopTyped
  <2> QED
    BY <2>1, <2>2
<1> QED
  BY <1>1, HistInvariant, PTL

(* A record of any duration but 0 is placed in as many slots as it was     *)
(* divided among; the one share of a record of duration 0 is not placed.   *)
THEOREM EveryShareIsPlaced == Spec => []SharesPlaced
<1>1. HistInv => SharesPlaced
  BY DEF HistInv
<1> QED
  BY <1>1, HistInvariant, PTL

(* Every count, index and timestamp stays in its range; above all, no      *)
(* total ever falls below 0 (it is unsigned in histcounter.h:23).          *)
THEOREM HistTypeCorrect == Spec => []TypeOK
<1>1. HistInv /\ TotalKept => TypeOK
  BY DEF HistInv, LoopTyped, TotalKept, TypeOK
<1> QED
  BY <1>1, TotalInvariant, PTL

(* The running total is the sum of the slots at every iteration, though    *)
(* slots are emptied and filled one at a time; the average of a ring is    *)
(* never above its peak.                                                   *)
THEOREM TotalIsSumOfSlots == Spec => []TotalIsSum
BY TotalInvariant, TotalImpliesSum, PTL
================================================================================
