-------------------------- MODULE JoinLoopsProofs ---------------------------
(***************************************************************************)
(* Theorems about the joins of a query: the flag that gates the reads of a *)
(* joined column tells matches (FlagsTellMatches), the loops compute the   *)
(* join of SQL (JoinIsExact), a map is refused exactly if two of its rows  *)
(* would match one probe (MapsRefuseDuplicates); and about their tables:   *)
(* they are whole (TablesAreWhole), a scan of one answers the same in      *)
(* every order (ScansAreOrderFree), and so does every group but the sums   *)
(* of DOUBLEs (BuildIsOrderFree); but for those, a build that is refused   *)
(* has a cause (BuildsRefuseForCause).                                     *)
(*                                                                         *)
(* The probe comes first: the halving search, the sorted entries, keys as  *)
(* slots; it finds the rows SQL's comparison finds (ProbeFindsRange).      *)
(* BuildInv says what the tables hold, RowInv what the open loops have     *)
(* still to visit, HistInv what has been emitted and evaluated so far.     *)
(* What would be an induction is an argument on the least number for which *)
(* the fact fails (LeastNatural).                                          *)
(***************************************************************************)
EXTENDS JoinLoops, SharedLemmas

-----------------------------------------------------------------------------
(* Orders: least elements, ranks.                                          *)

\* partition_point, where `below' holds of the first m places alone: every
\* window that holds m is answered m, the narrowest first.
LEMMA HalvingFinds ==
  ASSUME NEW n \in Nat, NEW below \in [0 .. n - 1 -> BOOLEAN], NEW m \in 0 .. n,
         \A i \in 0 .. n - 1 : below[i] <=> i < m
  PROVE  PartitionPoint(below, n) = m
<1>. DEFINE D == (0 .. n) \X (0 .. n)
            G == [p \in D |-> IF p[1] >= p[2] THEN p[1]
                              ELSE IF m < p[1] THEN p[1] ELSE IF m > p[2] THEN p[2] ELSE m]
            V(P, w) == LET mid == (w[1] + w[2]) \div 2 IN
                       IF w[1] >= w[2] THEN w[1]
                       ELSE IF below[mid] THEN P[<<mid + 1, w[2]>>] ELSE P[<<w[1], mid>>]
            F(P) == [w \in D |-> V(P, w)]
            Q == CHOOSE P : P = F(P)
<1>1. \A w \in D : G[w] = V(G, w)
  OBVIOUS
<1>2. G = F(G)
  BY <1>1
<1>3. PartitionPoint(below, n) = Q[<<0, n>>]
  BY DEF PartitionPoint
<1>4. Q = F(Q)
  <2>. HIDE DEF F, G
  <2>. QED
    BY <1>2
<1>. HIDE DEF Q
<1>5. \A w \in D : Q[w] = V(Q, w)
  BY <1>4
<1>. DEFINE Held(w) == w[1] <= m /\ m <= w[2]
            Wrong == { d \in 0 .. n : \E w \in D : Held(w) /\ w[2] - w[1] = d /\ Q[w] # m }
<1>6. Wrong = {}
  <2>1. SUFFICES ASSUME Wrong # {} PROVE FALSE
    OBVIOUS
  <2>2. PICK d \in Wrong : \A e \in Wrong : d <= e
    <3>1. Wrong \subseteq Nat
      OBVIOUS
    <3>. QED
      BY <2>1, <3>1, LeastNatural
  <2>3. PICK w \in D : Held(w) /\ w[2] - w[1] = d /\ Q[w] # m
    BY <2>2
  <2>4. w[1] < w[2]
    <3>1. w[1] \in 0 .. n /\ w[2] \in 0 .. n /\ w[1] <= m /\ m <= w[2] /\ Q[w] # m
      BY <2>3
    <3>2. w[1] >= w[2] => Q[w] = w[1]
      BY <1>5
    <3>. QED
      BY <3>1, <3>2
  <2>. DEFINE mid == (w[1] + w[2]) \div 2
  <2>5. mid \in w[1] .. w[2] - 1 /\ mid \in 0 .. n - 1
    BY <2>3, <2>4
  <2>. HIDE DEF mid, Q
  <2>6. Q[w] = IF below[mid] THEN Q[<<mid + 1, w[2]>>] ELSE Q[<<w[1], mid>>]
    BY <1>5, <2>4 DEF mid
  <2>7. CASE below[mid]
    <3>1. <<mid + 1, w[2]>> \in D /\ Held(<<mid + 1, w[2]>>)
      BY <2>3, <2>5, <2>7
    <3>2. Q[<<mid + 1, w[2]>>] # m /\ w[2] - (mid + 1) \in 0 .. n /\ w[2] - (mid + 1) < d
      BY <2>3, <2>5, <2>6, <2>7
    <3>. QED
      BY <2>2, <3>1, <3>2
  <2>8. CASE ~ below[mid]
    <3>1. <<w[1], mid>> \in D /\ Held(<<w[1], mid>>)
      BY <2>3, <2>5, <2>8
    <3>2. Q[<<w[1], mid>>] # m /\ mid - w[1] \in 0 .. n /\ mid - w[1] < d
      BY <2>3, <2>5, <2>6, <2>8
    <3>. QED
      BY <2>2, <3>1, <3>2
  <2>. QED
    BY <2>7, <2>8
<1>7. <<0, n>> \in D /\ Held(<<0, n>>)
  OBVIOUS
<1>8. <<0, n>>[2] - <<0, n>>[1] \in 0 .. n
  OBVIOUS
<1>. QED
  BY <1>3, <1>6, <1>7, <1>8

\* partition_point, where no place of which `below' holds is after one of which
\* it does not.
LEMMA PartitionPointFinds ==
  ASSUME NEW n \in Nat, NEW below \in [0 .. n - 1 -> BOOLEAN],
         \A i, k \in 0 .. n - 1 : i < k /\ below[k] => below[i]
  PROVE  /\ PartitionPoint(below, n) \in 0 .. n
         /\ \A i \in 0 .. n - 1 : below[i] <=> i < PartitionPoint(below, n)
<1>. DEFINE T == { i \in 0 .. n : i = n \/ ~ below[i] }
<1>1. T \subseteq Nat /\ n \in T
  OBVIOUS
<1>2. PICK m \in T : \A i \in T : m <= i
  BY <1>1, LeastNatural
<1>3. \A i \in 0 .. n - 1 : below[i] <=> i < m
  <2>. TAKE i \in 0 .. n - 1
  <2>1. CASE below[i]
    <3>1. i # m
      BY <1>2, <2>1
    <3>2. m < i => FALSE
      <4>. SUFFICES ASSUME m < i PROVE FALSE
        OBVIOUS
      <4>1. m \in 0 .. n - 1 /\ below[m]
        BY <1>2, <2>1
      <4>. QED
        BY <1>2, <4>1
    <3>3. m \in 0 .. n
      BY <1>2
    <3>. QED
      BY <2>1, <3>1, <3>2, <3>3
  <2>2. CASE ~ below[i]
    BY <1>2, <2>2
  <2>. QED
    BY <2>1, <2>2
<1>4. PartitionPoint(below, n) = m
  BY <1>2, <1>3, HalvingFinds
<1>. QED
  BY <1>2, <1>3, <1>4

\* How many elements of S come before x.
RankIn(S, R, x) == Cardinality({ y \in S : <<y, x>> \in R })

\* A strict total order on a finite set ranks its elements from 0, each its
\* own rank.
LEMMA RanksEnumerate ==
  ASSUME NEW S, IsFiniteSet(S), NEW R,
         \A x \in S : <<x, x>> \notin R,
         \A x, y, z \in S : <<x, y>> \in R /\ <<y, z>> \in R => <<x, z>> \in R,
         \A x, y \in S : x # y => <<x, y>> \in R \/ <<y, x>> \in R
  PROVE  /\ Cardinality(S) \in Nat
         /\ \A x \in S : RankIn(S, R, x) \in Nat /\ RankIn(S, R, x) + 1 \in 1 .. Cardinality(S)
         /\ \A x, y \in S : <<x, y>> \in R <=> RankIn(S, R, x) < RankIn(S, R, y)
         /\ \A i \in 1 .. Cardinality(S) : \E x \in S : RankIn(S, R, x) = i - 1
<1>. DEFINE n == Cardinality(S)
            Below(x) == { y \in S : <<y, x>> \in R }
            Rank(x) == Cardinality(Below(x))
<1>1. n \in Nat
  BY FS_CardinalityType
<1>2. \A x \in S : IsFiniteSet(Below(x)) /\ Rank(x) \in Nat /\ Rank(x) + 1 \in 1 .. n
  <2>. TAKE x \in S
  <2>1. IsFiniteSet(S \ {x}) /\ Cardinality(S \ {x}) = n - 1
    BY FS_RemoveElement
  <2>2. Below(x) \in SUBSET (S \ {x})
    OBVIOUS
  <2>. HIDE DEF Below
  <2>3. IsFiniteSet(Below(x)) /\ Rank(x) <= n - 1
    BY <2>1, <2>2, FS_Subset
  <2>4. Rank(x) \in Nat
    BY <2>3, FS_CardinalityType
  <2>. HIDE DEF Rank, n
  <2>. QED
    BY <1>1, <2>3, <2>4
<1>3. \A x, y \in S : <<x, y>> \in R => Rank(x) < Rank(y)
  <2>. TAKE x, y \in S
  <2>. HAVE <<x, y>> \in R
  <2>1. Below(x) \in SUBSET Below(y) /\ x \in Below(y) /\ x \notin Below(x)
    OBVIOUS
  <2>. HIDE DEF Below
  <2>2. Rank(x) <= Rank(y) /\ Rank(x) # Rank(y)
    BY <1>2, <2>1, FS_Subset
  <2>. HIDE DEF Rank
  <2>. QED
    BY <1>2, <2>2
<1>. HIDE DEF Rank, Below, n
<1>4. \A x, y \in S : Rank(x) = Rank(y) => x = y
  <2>. SUFFICES ASSUME NEW x \in S, NEW y \in S, Rank(x) = Rank(y), x # y
                PROVE  FALSE
    OBVIOUS
  <2>1. Rank(x) < Rank(y) \/ Rank(y) < Rank(x)
    BY <1>3
  <2>. QED
    BY <1>2, <2>1
<1>5. \A i \in 1 .. n : \E x \in S : Rank(x) = i - 1
  <2>. DEFINE f == [x \in S |-> Rank(x) + 1]
  <2>1. f \in [S -> 1 .. n] /\ \A x, y \in S : f[x] = f[y] => x = y
    BY <1>2, <1>4
  <2>2. f \in Injection(S, 1 .. n)
    BY <2>1 DEF Injection, IsInjective
  <2>3. IsFiniteSet(1 .. n) /\ Cardinality(1 .. n) = n
    BY <1>1, FS_Interval
  <2>4. f \in Surjection(S, 1 .. n)
    BY <2>2, <2>3, FS_Injection DEF n
  <2>5. \A i \in 1 .. n : \E x \in S : f[x] = i
    BY <2>4 DEF Surjection
  <2>. QED
    BY <1>2, <2>5
<1>6. \A x, y \in S : <<x, y>> \in R <=> Rank(x) < Rank(y)
  <2>. SUFFICES ASSUME NEW x \in S, NEW y \in S, Rank(x) < Rank(y)
                PROVE  <<x, y>> \in R
    BY <1>3
  <2>1. ~ (Rank(y) < Rank(x)) /\ Rank(x) # Rank(y)
    BY <1>2
  <2>. QED
    BY <1>3, <2>1
<1>7. \A x : RankIn(S, R, x) = Rank(x)
  BY DEF RankIn, Rank, Below
<1>. QED
  BY <1>1, <1>2, <1>5, <1>6, <1>7 DEF n

-----------------------------------------------------------------------------
(* Keys and their slots.                                                   *)

\* A join's comparisons, and the cells of a key they compare.
Comparisons(cmps) == cmps \in Seq({"eq", "indf"})
KeyCells(cmps, key) == \A i \in DOMAIN cmps : key[i] \in Cells

SlotCount(cmp) == IF cmp = "eq" THEN 1 ELSE 2
WidthTo(cmps, n) == n + Cardinality({ i \in 1 .. n : cmps[i] # "eq" })
Width(cmps) == WidthTo(cmps, Len(cmps))

\* What SQL says of one component.
SameCell(cmp, x, y) == \/ {x, y} \subseteq Raw /\ Canon[x] = Canon[y]
                       \/ x = Null /\ y = Null /\ cmp = "indf"

\* The slots of one component.
LEMMA SlotsOfACell ==
  ASSUME NEW cmp \in {"eq", "indf"}, NEW x \in Cells
  PROVE  Slots(cmp, x) \in Seq(Raw) /\ Len(Slots(cmp, x)) = SlotCount(cmp)
<1>1. {0, 1} \subseteq Raw
  BY RawAssumption
<1>2. x # Null => x \in Raw
  BY DEF Cells
<1>3. CASE cmp = "eq" /\ x = Null
  BY <1>1, <1>3 DEF Slots, SlotCount
<1>6. CASE cmp = "eq" /\ x # Null
  BY <1>2, <1>6 DEF Slots, SlotCount
<1>4. CASE cmp = "indf" /\ x = Null
  BY <1>1, <1>4 DEF Slots, SlotCount
<1>5. CASE cmp = "indf" /\ x # Null
  BY <1>1, <1>2, <1>5 DEF Slots, SlotCount
<1>. QED
  BY <1>3, <1>4, <1>5, <1>6

\* They tell cells apart as the comparison does, but for the NULL that `=' never
\* stores.
LEMMA SlotsCompare ==
  ASSUME NEW cmp \in {"eq", "indf"}, NEW x \in Cells, NEW y \in Cells,
         cmp = "eq" => x # Null /\ y # Null
  PROVE  (\A i \in 1 .. SlotCount(cmp) : Canon[Slots(cmp, x)[i]] = Canon[Slots(cmp, y)[i]])
           <=> SameCell(cmp, x, y)
<1>1. CASE cmp = "eq"
  BY <1>1, RawAssumption DEF Slots, Cells, SlotCount, SameCell
<1>2. CASE cmp = "indf"
  BY <1>2, RawAssumption DEF Slots, Cells, SlotCount, SameCell
<1>. QED
  BY <1>1, <1>2

\* A join's comparisons are a sequence.
LEMMA ComparisonsShape ==
  ASSUME NEW cmps, Comparisons(cmps)
  PROVE  /\ Len(cmps) \in Nat /\ DOMAIN cmps = 1 .. Len(cmps)
         /\ \A i \in DOMAIN cmps : cmps[i] \in {"eq", "indf"}
<1>1. cmps \in Seq({"eq", "indf"})
  BY DEF Comparisons
<1>2. Len(cmps) \in Nat /\ DOMAIN cmps = 1 .. Len(cmps)
  BY <1>1, LenProperties
<1>3. \A i \in 1 .. Len(cmps) : cmps[i] \in {"eq", "indf"}
  BY <1>1, ElementOfSeq
<1>. QED
  BY <1>1, <1>2, <1>3

\* Each component adds its slots to the width.
LEMMA WidthGrows ==
  ASSUME NEW cmps, Comparisons(cmps)
  PROVE  /\ WidthTo(cmps, 0) = 0
         /\ \A i \in 0 .. Len(cmps) : WidthTo(cmps, i) \in Nat
         /\ \A i \in 1 .. Len(cmps) : WidthTo(cmps, i) = WidthTo(cmps, i - 1) + SlotCount(cmps[i])
<1>. DEFINE W(i) == { k \in 1 .. i : cmps[k] # "eq" }
<1>1. /\ Len(cmps) \in Nat
      /\ \A i \in 1 .. Len(cmps) : cmps[i] \in {"eq", "indf"}
  BY ComparisonsShape
<1>2. \A i \in Nat : IsFiniteSet(W(i)) /\ Cardinality(W(i)) \in Nat
  <2>. TAKE i \in Nat
  <2>1. IsFiniteSet(1 .. i) /\ W(i) \subseteq 1 .. i
    BY FS_Interval
  <2>. HIDE DEF W
  <2>. QED
    BY <2>1, FS_Subset, FS_CardinalityType
<1>3. W(0) = {}
  OBVIOUS
<1>4. Cardinality(W(0)) = 0
  BY <1>3, FS_EmptySet
<1>5. ASSUME NEW i \in 1 .. Len(cmps)
      PROVE  Cardinality(W(i)) = Cardinality(W(i - 1)) + (IF cmps[i] = "eq" THEN 0 ELSE 1)
  <2>1. i - 1 \in Nat /\ i \notin W(i - 1)
    BY <1>1
  <2>2. CASE cmps[i] = "eq"
    <3>1. W(i) = W(i - 1)
      BY <1>1, <2>2
    <3>. HIDE DEF W
    <3>2. Cardinality(W(i - 1)) \in Nat
      BY <1>2, <2>1
    <3>. QED
      BY <2>2, <3>1, <3>2
  <2>3. CASE cmps[i] # "eq"
    <3>1. W(i) = W(i - 1) \union {i}
      BY <1>1, <2>3
    <3>. HIDE DEF W
    <3>2. Cardinality(W(i - 1) \union {i}) = Cardinality(W(i - 1)) + 1
      BY <1>2, <2>1, FS_AddElement
    <3>. QED
      BY <2>3, <3>1, <3>2
  <2>. QED
    BY <2>2, <2>3
<1>6. \A i \in Nat : WidthTo(cmps, i) = i + Cardinality(W(i))
  BY DEF WidthTo
<1>. HIDE DEF W
<1>7. \A i \in 1 .. Len(cmps) : WidthTo(cmps, i) = WidthTo(cmps, i - 1) + SlotCount(cmps[i])
  <2>. TAKE i \in 1 .. Len(cmps)
  <2>1. i \in Nat /\ i - 1 \in Nat /\ cmps[i] \in {"eq", "indf"}
    BY <1>1
  <2>2. /\ WidthTo(cmps, i) = i + Cardinality(W(i))
        /\ WidthTo(cmps, i - 1) = (i - 1) + Cardinality(W(i - 1))
    BY <1>6, <2>1
  <2>3. Cardinality(W(i - 1)) \in Nat
    BY <1>2, <2>1
  <2>. QED
    BY <1>5, <2>1, <2>2, <2>3 DEF SlotCount
<1>8. \A i \in Nat : WidthTo(cmps, i) \in Nat
  BY <1>2, <1>6
<1>9. WidthTo(cmps, 0) = 0
  BY <1>4, <1>6
<1>10. \A i \in 0 .. Len(cmps) : i \in Nat
  BY <1>1
<1>. QED
  BY <1>7, <1>8, <1>9, <1>10

\* A join's keys have so many slots.
LEMMA WidthType ==
  ASSUME NEW cmps, Comparisons(cmps)
  PROVE  Width(cmps) \in Nat
<1>1. Len(cmps) \in 0 .. Len(cmps)
  BY ComparisonsShape
<1>. QED
  BY <1>1, WidthGrows DEF Width

\* The slots of the first components of a key, for every number of them.
Flattens(cmps, key, n, s) ==
  s = [i \in 0 .. n |-> IF i = 0 THEN <<>> ELSE s[i - 1] \o Slots(cmps[i], key[i])]

\* There are such slots for every n: of the least n without, one more component
\* would have made them.
LEMMA SlotsFlatten ==
  ASSUME NEW cmps, NEW key, NEW n \in Nat
  PROVE  \E s : Flattens(cmps, key, n, s)
<1>. DEFINE Wrong == { m \in Nat : ~ \E s : Flattens(cmps, key, m, s) }
<1>1. SUFFICES ASSUME Wrong # {} PROVE FALSE
  OBVIOUS
<1>2. PICK m \in Wrong : \A e \in Wrong : m <= e
  <2>1. Wrong \subseteq Nat
    OBVIOUS
  <2>. QED
    BY <1>1, <2>1, LeastNatural
<1>3. m # 0
  <2>. DEFINE s == [i \in 0 .. 0 |-> <<>>]
  <2>1. Flattens(cmps, key, 0, s)
    BY DEF Flattens
  <2>. QED
    BY <1>2, <2>1
<1>4. m \in Nat /\ m - 1 \in Nat /\ ~ (m <= m - 1)
  BY <1>2, <1>3
<1>5. PICK s : Flattens(cmps, key, m - 1, s)
  BY <1>2, <1>4
<1>. DEFINE p == Slots(cmps[m], key[m])
            t == [i \in 0 .. m |-> IF i = m THEN s[m - 1] \o p ELSE s[i]]
<1>6. /\ DOMAIN s = 0 .. m - 1
      /\ \A i \in 0 .. m - 1 : s[i] = IF i = 0 THEN <<>> ELSE s[i - 1] \o Slots(cmps[i], key[i])
  BY <1>5 DEF Flattens
<1>7. \A i \in 0 .. m : t[i] = IF i = 0 THEN <<>> ELSE t[i - 1] \o Slots(cmps[i], key[i])
  <2>. TAKE i \in 0 .. m
  <2>1. CASE i = m
    BY <1>3, <1>4, <2>1
  <2>2. CASE i # m
    <3>1. i \in 0 .. m - 1
      BY <1>4, <2>2
    <3>2. t[i] = s[i] /\ (i # 0 => i - 1 \in 0 .. m /\ i - 1 # m /\ t[i - 1] = s[i - 1])
      BY <1>4, <2>2, <3>1
    <3>. QED
      BY <1>6, <3>1, <3>2
  <2>. QED
    BY <2>1, <2>2
<1>8. Flattens(cmps, key, m, t)
  <2>1. t = [i \in 0 .. m |-> t[i]]
    OBVIOUS
  <2>. HIDE DEF t
  <2>. QED
    BY <1>7, <2>1 DEF Flattens
<1>. QED
  BY <1>2, <1>8

\* A flattened key is all of them.
LEMMA KeySlotsFlatten ==
  ASSUME NEW cmps, Comparisons(cmps), NEW key
  PROVE  \E s : Flattens(cmps, key, Len(cmps), s) /\ KeySlots(cmps, key) = s[Len(cmps)]
<1>. DEFINE n == Len(cmps)
            F(s) == [i \in 0 .. n |-> IF i = 0 THEN <<>> ELSE s[i - 1] \o Slots(cmps[i], key[i])]
            Q == CHOOSE s : s = F(s)
<1>1. n \in Nat
  BY ComparisonsShape
<1>2. PICK r : r = F(r)
  <2>1. PICK r : Flattens(cmps, key, n, r)
    BY <1>1, SlotsFlatten
  <2>2. r = F(r)
    BY <2>1 DEF Flattens
  <2>. HIDE DEF F
  <2>. QED
    BY <2>2
<1>3. KeySlots(cmps, key) = Q[n]
  BY DEF KeySlots
<1>4. Q = F(Q)
  <2>. HIDE DEF F
  <2>. QED
    BY <1>2
<1>5. Flattens(cmps, key, n, Q)
  <2>. HIDE DEF Q
  <2>. QED
    BY <1>4 DEF Flattens
<1>. QED
  BY <1>3, <1>5

\* One component more.
Grows(cmps, key, n, s) ==
  /\ s[0] = <<>>
  /\ \A i \in 1 .. n : s[i] = s[i - 1] \o Slots(cmps[i], key[i])

\* A key's slots grow by one component's slots at a time.
LEMMA FlattenStep ==
  ASSUME NEW cmps, NEW key, NEW n \in Nat, NEW s, Flattens(cmps, key, n, s)
  PROVE  Grows(cmps, key, n, s)
<1>1. \A i \in 0 .. n : s[i] = IF i = 0 THEN <<>> ELSE s[i - 1] \o Slots(cmps[i], key[i])
  BY DEF Flattens
<1>2. 0 \in 0 .. n /\ \A i \in 1 .. n : i \in 0 .. n /\ i # 0
  OBVIOUS
<1>. QED
  BY <1>1, <1>2 DEF Grows

\* The first components' slots are bits, as many as the width says: the least number of
\* components of which they are not would follow one of which they are.
LEMMA PrefixSlots ==
  ASSUME NEW cmps, Comparisons(cmps), NEW a, KeyCells(cmps, a),
         NEW s, Flattens(cmps, a, Len(cmps), s)
  PROVE  \A i \in 0 .. Len(cmps) : s[i] \in Seq(Raw) /\ Len(s[i]) = WidthTo(cmps, i)
<1>. DEFINE Right(i) == s[i] \in Seq(Raw) /\ Len(s[i]) = WidthTo(cmps, i)
            Wrong == { i \in 0 .. Len(cmps) : ~ Right(i) }
<1>1. SUFFICES ASSUME Wrong # {} PROVE FALSE
  OBVIOUS
<1>2. Len(cmps) \in Nat /\ DOMAIN cmps = 1 .. Len(cmps) /\ \A i \in DOMAIN cmps : cmps[i] \in {"eq", "indf"}
  BY ComparisonsShape
<1>3. s[0] = <<>> /\ \A i \in 1 .. Len(cmps) : s[i] = s[i - 1] \o Slots(cmps[i], a[i])
  <2>. DEFINE n == Len(cmps)
  <2>1. n \in Nat /\ Flattens(cmps, a, n, s)
    BY <1>2
  <2>. HIDE DEF n
  <2>2. Grows(cmps, a, n, s)
    BY <2>1, FlattenStep
  <2>. QED
    BY <2>2 DEF Grows, n
<1>4. Right(0)
  BY <1>3, WidthGrows
<1>. HIDE DEF Right
<1>5. PICK m \in Wrong : \A e \in Wrong : m <= e
  <2>1. Wrong \subseteq Nat
    OBVIOUS
  <2>. QED
    BY <1>1, <2>1, LeastNatural
<1>6. m \in 1 .. Len(cmps) /\ m - 1 \in 0 .. Len(cmps) /\ ~ (m <= m - 1)
  BY <1>2, <1>4, <1>5
<1>7. Right(m - 1)
  BY <1>5, <1>6
<1>. DEFINE t == Slots(cmps[m], a[m])
<1>8. t \in Seq(Raw) /\ Len(t) = SlotCount(cmps[m])
  BY <1>2, <1>6, SlotsOfACell DEF KeyCells
<1>9. s[m] = s[m - 1] \o t
  BY <1>3, <1>6
<1>. HIDE DEF t
<1>10. s[m] \in Seq(Raw) /\ Len(s[m]) = Len(s[m - 1]) + Len(t)
  BY <1>7, <1>8, <1>9, ConcatProperties DEF Right
<1>11. WidthTo(cmps, m) = WidthTo(cmps, m - 1) + SlotCount(cmps[m])
  BY <1>6, WidthGrows
<1>12. Right(m)
  BY <1>7, <1>8, <1>10, <1>11 DEF Right
<1>. QED
  BY <1>5, <1>12

\* The slots of a key.
LEMMA SlotsOfAKey ==
  ASSUME NEW cmps, Comparisons(cmps), NEW a, KeyCells(cmps, a)
  PROVE  /\ KeySlots(cmps, a) \in [1 .. Width(cmps) -> Raw]
         /\ CanonBits(KeySlots(cmps, a)) \in [1 .. Width(cmps) -> Raw]
         /\ Width(cmps) \in Nat
<1>1. PICK s : Flattens(cmps, a, Len(cmps), s) /\ KeySlots(cmps, a) = s[Len(cmps)]
  BY KeySlotsFlatten
<1>2. Len(cmps) \in 0 .. Len(cmps)
  BY ComparisonsShape
<1>3. KeySlots(cmps, a) \in Seq(Raw) /\ Len(KeySlots(cmps, a)) = Width(cmps) /\ Width(cmps) \in Nat
  BY <1>1, <1>2, PrefixSlots, WidthType DEF Width
<1>4. KeySlots(cmps, a) \in [1 .. Width(cmps) -> Raw]
  BY <1>3
<1>. QED
  BY <1>3, <1>4, RawAssumption DEF CanonBits

\* The first n slots are the same bits.
SameBits(x, y, n) == \A i \in 1 .. n : Canon[x[i]] = Canon[y[i]]

\* Two sequences of slots agree, as bits, if and only if their parts do.
LEMMA PartsCompare ==
  ASSUME NEW m \in Nat, NEW n \in Nat,
         NEW s \in Seq(Raw), NEW u \in Seq(Raw), NEW t \in Seq(Raw), NEW v \in Seq(Raw),
         Len(s) = m, Len(u) = m, Len(t) = n, Len(v) = n
  PROVE  SameBits(s \o t, u \o v, m + n) <=> SameBits(s, u, m) /\ SameBits(t, v, n)
<1>. DEFINE x == s \o t
            y == u \o v
<1>. HIDE DEF x, y
<1>1. \A i \in 1 .. m + n : (s \o t)[i] = IF i <= Len(s) THEN s[i] ELSE t[i - Len(s)]
  BY ConcatProperties
<1>2. \A i \in 1 .. m + n : (u \o v)[i] = IF i <= Len(u) THEN u[i] ELSE v[i - Len(u)]
  BY ConcatProperties
<1>. DEFINE At(i) == Canon[x[i]] = Canon[y[i]]
            Left(i) == Canon[s[i]] = Canon[u[i]]
            Right(i) == Canon[t[i]] = Canon[v[i]]
<1>3. \A i \in 1 .. m + n : i <= m => (At(i) <=> Left(i))
  <2>1. \A i \in 1 .. m + n : i <= m => x[i] = s[i] /\ y[i] = u[i]
    BY <1>1, <1>2 DEF x, y
  <2>. QED
    BY <2>1
<1>4. \A i \in 1 .. m + n : ~ (i <= m) => (At(i) <=> Right(i - m))
  <2>1. \A i \in 1 .. m + n : ~ (i <= m) => x[i] = t[i - m] /\ y[i] = v[i - m]
    BY <1>1, <1>2 DEF x, y
  <2>. QED
    BY <2>1
<1>. HIDE DEF At, Left, Right
<1>5. ASSUME \A i \in 1 .. m : Left(i), \A i \in 1 .. n : Right(i), NEW i \in 1 .. m + n
      PROVE  At(i)
  <2>1. CASE i <= m
    <3>1. i \in 1 .. m
      BY <2>1
    <3>. QED
      BY <1>3, <1>5, <2>1, <3>1
  <2>2. CASE ~ (i <= m)
    <3>1. i - m \in 1 .. n
      BY <2>2
    <3>. QED
      BY <1>4, <1>5, <2>2, <3>1
  <2>. QED
    BY <2>1, <2>2
<1>6. ASSUME \A i \in 1 .. m + n : At(i), NEW i \in 1 .. m
      PROVE  Left(i)
  <2>1. i \in 1 .. m + n /\ i <= m
    OBVIOUS
  <2>. QED
    BY <1>3, <1>6, <2>1
<1>7. ASSUME \A i \in 1 .. m + n : At(i), NEW i \in 1 .. n
      PROVE  Right(i)
  <2>. DEFINE k == i + m
  <2>1. k \in 1 .. m + n /\ ~ (k <= m) /\ k - m = i
    OBVIOUS
  <2>. HIDE DEF k
  <2>2. Right(k - m)
    BY <1>4, <1>7, <2>1
  <2>. QED
    BY <2>1, <2>2
<1>8. (\A i \in 1 .. m + n : At(i)) <=> (\A i \in 1 .. m : Left(i)) /\ (\A i \in 1 .. n : Right(i))
  BY <1>5, <1>6, <1>7
<1>. QED
  BY <1>8 DEF SameBits, At, Left, Right, x, y

\* Two keys without a NULL under `=' have the same bits if and only if SQL has
\* them the same: so their first components do, for every number of them.
LEMMA BitsCompare ==
  ASSUME NEW cmps, Comparisons(cmps),
         NEW a, KeyCells(cmps, a), ~ NullKey(cmps, a),
         NEW b, KeyCells(cmps, b), ~ NullKey(cmps, b)
  PROVE  CanonBits(KeySlots(cmps, a)) = CanonBits(KeySlots(cmps, b)) <=> SameKey(cmps, a, b)
<1>1. Len(cmps) \in Nat /\ DOMAIN cmps = 1 .. Len(cmps) /\ \A i \in DOMAIN cmps : cmps[i] \in {"eq", "indf"}
  BY ComparisonsShape
<1>2. \A i \in DOMAIN cmps : /\ cmps[i] \in {"eq", "indf"} /\ a[i] \in Cells /\ b[i] \in Cells
                             /\ cmps[i] = "eq" => a[i] # Null /\ b[i] # Null
  BY <1>1 DEF KeyCells, NullKey
<1>3. PICK s : Flattens(cmps, a, Len(cmps), s) /\ KeySlots(cmps, a) = s[Len(cmps)]
  BY KeySlotsFlatten
<1>4. PICK u : Flattens(cmps, b, Len(cmps), u) /\ KeySlots(cmps, b) = u[Len(cmps)]
  BY KeySlotsFlatten
<1>5. /\ \A i \in 0 .. Len(cmps) : s[i] \in Seq(Raw) /\ Len(s[i]) = WidthTo(cmps, i)
      /\ \A i \in 0 .. Len(cmps) : u[i] \in Seq(Raw) /\ Len(u[i]) = WidthTo(cmps, i)
  BY <1>3, <1>4, PrefixSlots
<1>6. /\ \A i \in 1 .. Len(cmps) : s[i] = s[i - 1] \o Slots(cmps[i], a[i])
      /\ \A i \in 1 .. Len(cmps) : u[i] = u[i - 1] \o Slots(cmps[i], b[i])
  <2>. DEFINE n == Len(cmps)
  <2>1. n \in Nat /\ Flattens(cmps, a, n, s) /\ Flattens(cmps, b, n, u)
    BY <1>1, <1>3, <1>4
  <2>. HIDE DEF n
  <2>2. Grows(cmps, a, n, s)
    BY <2>1, FlattenStep
  <2>3. Grows(cmps, b, n, u)
    BY <2>1, FlattenStep
  <2>. QED
    BY <2>2, <2>3 DEF Grows, n
<1>. DEFINE Bits(i) == \A k \in 1 .. WidthTo(cmps, i) : Canon[s[i][k]] = Canon[u[i][k]]
            Cols(i) == \A k \in 1 .. i : SameCell(cmps[k], a[k], b[k])
            Wrong == { i \in 0 .. Len(cmps) : ~ (Bits(i) <=> Cols(i)) }
<1>7. Bits(0) <=> Cols(0)
  BY WidthGrows
<1>8. ASSUME NEW m \in 1 .. Len(cmps), Bits(m - 1) <=> Cols(m - 1)
      PROVE  Bits(m) <=> Cols(m)
  <2>. DEFINE t == Slots(cmps[m], a[m])
              v == Slots(cmps[m], b[m])
              n == SlotCount(cmps[m])
              w == WidthTo(cmps, m - 1)
  <2>1. /\ m - 1 \in 0 .. Len(cmps) /\ m \in DOMAIN cmps
        /\ \A k \in 1 .. m : k = m \/ k \in 1 .. m - 1
        /\ \A k \in 1 .. m - 1 : k \in 1 .. m
        /\ m \in 1 .. m
    BY <1>1
  <2>2. (\A k \in 1 .. n : Canon[t[k]] = Canon[v[k]]) <=> SameCell(cmps[m], a[m], b[m])
    BY <1>2, <2>1, SlotsCompare
  <2>3. t \in Seq(Raw) /\ v \in Seq(Raw) /\ Len(t) = n /\ Len(v) = n
    BY <1>2, <2>1, SlotsOfACell
  <2>4. s[m] = s[m - 1] \o t /\ u[m] = u[m - 1] \o v
    BY <1>6
  <2>5. w \in Nat /\ n \in Nat /\ WidthTo(cmps, m) = w + n
    BY <2>1, WidthGrows DEF SlotCount
  <2>6. /\ s[m - 1] \in Seq(Raw) /\ Len(s[m - 1]) = w
        /\ u[m - 1] \in Seq(Raw) /\ Len(u[m - 1]) = w
    BY <1>5, <2>1
  <2>7. Cols(m) <=> Cols(m - 1) /\ SameCell(cmps[m], a[m], b[m])
    BY <2>1
  <2>. HIDE DEF t, v, n, Cols
  <2>8. (\A i \in 1 .. w + n : Canon[(s[m - 1] \o t)[i]] = Canon[(u[m - 1] \o v)[i]])
          <=> /\ \A i \in 1 .. w : Canon[s[m - 1][i]] = Canon[u[m - 1][i]]
              /\ \A i \in 1 .. n : Canon[t[i]] = Canon[v[i]]
    <3>. HIDE DEF w
    <3>. DEFINE p == s[m - 1]
                q == u[m - 1]
    <3>1. p \in Seq(Raw) /\ Len(p) = w /\ q \in Seq(Raw) /\ Len(q) = w
      BY <2>6
    <3>. HIDE DEF p, q
    <3>2. SameBits(p \o t, q \o v, w + n) <=> SameBits(p, q, w) /\ SameBits(t, v, n)
      BY <2>3, <2>5, <3>1, PartsCompare
    <3>. QED
      BY <3>2 DEF SameBits, p, q
  <2>9. Bits(m) <=> Bits(m - 1) /\ \A i \in 1 .. n : Canon[t[i]] = Canon[v[i]]
    BY <2>4, <2>5, <2>8
  <2>. HIDE DEF Bits
  <2>. QED
    BY <1>8, <2>2, <2>7, <2>9
<1>. HIDE DEF Bits, Cols
<1>9. Wrong = {}
  <2>1. SUFFICES ASSUME Wrong # {} PROVE FALSE
    OBVIOUS
  <2>2. PICK m \in Wrong : \A e \in Wrong : m <= e
    <3>1. Wrong \subseteq Nat
      OBVIOUS
    <3>. QED
      BY <2>1, <3>1, LeastNatural
  <2>3. m \in 1 .. Len(cmps) /\ m - 1 \in 0 .. Len(cmps) /\ ~ (m <= m - 1)
    BY <1>1, <1>7, <2>2
  <2>4. Bits(m - 1) <=> Cols(m - 1)
    BY <2>2, <2>3
  <2>. QED
    BY <1>8, <2>2, <2>3, <2>4
<1>. DEFINE x == KeySlots(cmps, a)
            y == KeySlots(cmps, b)
            w == Width(cmps)
<1>10. x \in [1 .. w -> Raw] /\ y \in [1 .. w -> Raw]
  BY SlotsOfAKey
<1>11. CanonBits(x) = CanonBits(y) <=> \A i \in 1 .. w : Canon[x[i]] = Canon[y[i]]
  BY <1>10 DEF CanonBits
<1>12. Bits(Len(cmps)) <=> Cols(Len(cmps))
  BY <1>1, <1>9
<1>13. Bits(Len(cmps)) <=> CanonBits(x) = CanonBits(y)
  BY <1>3, <1>4, <1>11 DEF Bits, Width
<1>14. Cols(Len(cmps)) <=> SameKey(cmps, a, b)
  BY <1>1 DEF Cols, SameKey, SameCell
<1>. QED
  BY <1>12, <1>13, <1>14

-----------------------------------------------------------------------------
(* The order of slots, and the entries in it.                              *)

\* Slots of one width are in a strict total order.
LEMMA SlotsAreOrdered ==
  ASSUME NEW w \in Nat, NEW x \in [1 .. w -> Nat], NEW y \in [1 .. w -> Nat]
  PROVE  /\ ~ SlotsBelow(x, x)
         /\ x # y => SlotsBelow(x, y) \/ SlotsBelow(y, x)
         /\ ~ (SlotsBelow(x, y) /\ SlotsBelow(y, x))
         /\ \A z \in [1 .. w -> Nat] : SlotsBelow(x, y) /\ SlotsBelow(y, z) => SlotsBelow(x, z)
<1>1. ~ SlotsBelow(x, x)
  BY DEF SlotsBelow
<1>2. ASSUME x # y PROVE SlotsBelow(x, y) \/ SlotsBelow(y, x)
  <2>. DEFINE T == { i \in 1 .. w : x[i] # y[i] }
  <2>1. T \subseteq Nat /\ T # {}
    BY <1>2
  <2>2. PICK i \in T : \A j \in T : i <= j
    BY <2>1, LeastNatural
  <2>3. \A j \in 1 .. i - 1 : j \in 1 .. w /\ ~ (i <= j)
    OBVIOUS
  <2>4. \A j \in 1 .. i - 1 : x[j] = y[j]
    BY <2>2, <2>3
  <2>5. i \in DOMAIN x /\ i \in DOMAIN y /\ (x[i] < y[i] \/ y[i] < x[i])
    OBVIOUS
  <2>. QED
    BY <2>4, <2>5 DEF SlotsBelow
<1>3. \A z \in [1 .. w -> Nat] : SlotsBelow(x, y) /\ SlotsBelow(y, z) => SlotsBelow(x, z)
  <2>. TAKE z \in [1 .. w -> Nat]
  <2>. HAVE SlotsBelow(x, y) /\ SlotsBelow(y, z)
  <2>1. PICK i \in 1 .. w : x[i] < y[i] /\ \A j \in 1 .. i - 1 : x[j] = y[j]
    BY DEF SlotsBelow
  <2>2. PICK k \in 1 .. w : y[k] < z[k] /\ \A j \in 1 .. k - 1 : y[j] = z[j]
    BY DEF SlotsBelow
  <2>3. PICK m \in 1 .. w : (m = i \/ m = k) /\ m <= i /\ m <= k
    <3>1. CASE i <= k
      BY <3>1
    <3>2. CASE ~ (i <= k)
      BY <3>2
    <3>. QED
      BY <3>1, <3>2
  <2>4. \A j \in 1 .. m - 1 : j \in 1 .. i - 1 /\ j \in 1 .. k - 1
    BY <2>3
  <2>5. \A j \in 1 .. m - 1 : x[j] = z[j]
    BY <2>1, <2>2, <2>4
  <2>6. x[m] < z[m]
    <3>1. CASE i < k
      BY <2>1, <2>2, <2>3, <3>1
    <3>2. CASE k < i
      BY <2>1, <2>2, <2>3, <3>2
    <3>3. CASE i = k
      <4>1. x[m] < y[m] /\ y[m] < z[m]
        BY <2>1, <2>2, <2>3, <3>3
      <4>2. x[m] \in Nat /\ y[m] \in Nat /\ z[m] \in Nat
        OBVIOUS
      <4>. QED
        BY <4>1, <4>2
    <3>. QED
      BY <3>1, <3>2, <3>3
  <2>. QED
    BY <2>5, <2>6 DEF SlotsBelow
<1>4. ~ (SlotsBelow(x, y) /\ SlotsBelow(y, x))
  BY <1>1, <1>3
<1>. QED
  BY <1>1, <1>2, <1>3, <1>4

\* The order is transitive.
LEMMA SlotsBelowTransitive ==
  ASSUME NEW w \in Nat, NEW x \in [1 .. w -> Nat], NEW y \in [1 .. w -> Nat],
         NEW z \in [1 .. w -> Nat], SlotsBelow(x, y), SlotsBelow(y, z)
  PROVE  SlotsBelow(x, z)
BY SlotsAreOrdered

\* A table whose every key has the cells its join compares.
Keyed(cmps, table) == \A r \in DOMAIN table : KeyCells(cmps, table[r].key)

\* The prepared entries are the table's rows, each once, in the order of their
\* keys and of the table.
LEMMA EntriesEnumerate ==
  ASSUME NEW cmps, Comparisons(cmps), NEW table, NEW n \in Nat, DOMAIN table = 1 .. n,
         Keyed(cmps, table)
  PROVE  \E At \in [1 .. n -> 1 .. n] :
           /\ Entries(cmps, table)
                = [i \in 1 .. n |-> [key |-> Stored(cmps, table, At[i]), row |-> table[At[i]].row]]
           /\ \A r \in 1 .. n : \E i \in 1 .. n : At[i] = r
           /\ \A i, k \in 1 .. n : i < k => SortsBefore(cmps, table, At[i], At[k])
<1>. DEFINE S == 1 .. n
            w == Width(cmps)
            B(r) == Stored(cmps, table, r)
            R == { p \in S \X S : SortsBefore(cmps, table, p[1], p[2]) }
            C(i) == CHOOSE r \in S : Cardinality({ q \in S : SortsBefore(cmps, table, q, r) }) = i - 1
            At == [i \in 1 .. n |-> C(i)]
<1>1. w \in Nat /\ \A r \in S : B(r) \in [1 .. w -> Nat]
  <2>1. w \in Nat
    BY WidthType
  <2>2. ASSUME NEW r \in S PROVE B(r) \in [1 .. w -> Raw]
    BY SlotsOfAKey DEF Keyed, Stored
  <2>. QED
    BY <2>1, <2>2, RawAssumption
<1>2. IsFiniteSet(S) /\ Cardinality(S) = n
  BY FS_Interval
<1>. HIDE DEF w
<1>3. \A q, r \in S : <<q, r>> \in R <=> SlotsBelow(B(q), B(r)) \/ (B(q) = B(r) /\ q < r)
  BY DEF SortsBefore
<1>9. \A q, r \in S : <<q, r>> \in R => SortsBefore(cmps, table, q, r)
  OBVIOUS
<1>. HIDE DEF B
<1>4. \A x \in S : <<x, x>> \notin R
  <2>. TAKE x \in S
  <2>1. ~ SlotsBelow(B(x), B(x))
    BY <1>1, SlotsAreOrdered
  <2>2. ~ (x < x)
    OBVIOUS
  <2>. QED
    BY <1>3, <2>1, <2>2
<1>5. \A x, y, z \in S : <<x, y>> \in R /\ <<y, z>> \in R => <<x, z>> \in R
  <2>. TAKE x, y, z \in S
  <2>. HAVE <<x, y>> \in R /\ <<y, z>> \in R
  <2>1. \/ SlotsBelow(B(x), B(y)) \/ (B(x) = B(y) /\ x < y)
    BY <1>3
  <2>2. \/ SlotsBelow(B(y), B(z)) \/ (B(y) = B(z) /\ y < z)
    BY <1>3
  <2>3. SlotsBelow(B(x), B(y)) /\ SlotsBelow(B(y), B(z)) => SlotsBelow(B(x), B(z))
    BY <1>1, SlotsAreOrdered
  <2>4. x < y /\ y < z => x < z
    OBVIOUS
  <2>5. SlotsBelow(B(x), B(z)) \/ (B(x) = B(z) /\ x < z)
    BY <2>1, <2>2, <2>3, <2>4
  <2>. QED
    BY <1>3, <2>5
<1>6. \A x, y \in S : x # y => <<x, y>> \in R \/ <<y, x>> \in R
  <2>. TAKE x, y \in S
  <2>. HAVE x # y
  <2>1. B(x) # B(y) => SlotsBelow(B(x), B(y)) \/ SlotsBelow(B(y), B(x))
    BY <1>1, SlotsAreOrdered
  <2>2. x < y \/ y < x
    OBVIOUS
  <2>. QED
    BY <1>3, <2>1, <2>2
<1>7. \A x \in S : RankIn(S, R, x) = Cardinality({ q \in S : SortsBefore(cmps, table, q, x) })
  <2>. TAKE x \in S
  <2>1. { y \in S : <<y, x>> \in R } = { q \in S : SortsBefore(cmps, table, q, x) }
    OBVIOUS
  <2>. QED
    BY <2>1 DEF RankIn
<1>8. Entries(cmps, table)
        = [i \in 1 .. n |-> [key |-> Stored(cmps, table, At[i]), row |-> table[At[i]].row]]
  BY DEF Entries
<1>10. \A i \in 1 .. n : At[i] = C(i)
  OBVIOUS
<1>. HIDE DEF At, R
<1>11. /\ \A x \in S : RankIn(S, R, x) \in Nat /\ RankIn(S, R, x) + 1 \in 1 .. n
       /\ \A x, y \in S : <<x, y>> \in R <=> RankIn(S, R, x) < RankIn(S, R, y)
       /\ \A i \in 1 .. n : \E x \in S : RankIn(S, R, x) = i - 1
  <2>. HIDE DEF S
  <2>. QED
    BY <1>2, <1>4, <1>5, <1>6, RanksEnumerate
<1>12. \A i \in 1 .. n : At[i] \in S /\ RankIn(S, R, At[i]) = i - 1
  <2>. TAKE i \in 1 .. n
  <2>1. \E x \in S : Cardinality({ q \in S : SortsBefore(cmps, table, q, x) }) = i - 1
    BY <1>7, <1>11
  <2>2. C(i) \in S /\ Cardinality({ q \in S : SortsBefore(cmps, table, q, C(i)) }) = i - 1
    BY <2>1
  <2>. QED
    BY <1>7, <1>10, <2>2
<1>13. At \in [1 .. n -> 1 .. n]
  BY <1>12 DEF At
<1>14. \A i, k \in 1 .. n : i < k => <<At[i], At[k]>> \in R
  <2>. TAKE i, k \in 1 .. n
  <2>. HAVE i < k
  <2>1. RankIn(S, R, At[i]) = i - 1 /\ RankIn(S, R, At[k]) = k - 1
    BY <1>12
  <2>2. RankIn(S, R, At[i]) < RankIn(S, R, At[k])
    BY <2>1
  <2>3. At[i] \in S /\ At[k] \in S
    BY <1>12
  <2>. QED
    BY <1>11, <2>2, <2>3
<1>15. \A r \in 1 .. n : \E i \in 1 .. n : At[i] = r
  <2>. TAKE r \in 1 .. n
  <2>. DEFINE i == RankIn(S, R, r) + 1
  <2>1. i \in 1 .. n /\ RankIn(S, R, At[i]) = RankIn(S, R, r) /\ At[i] \in S
    <3>1. RankIn(S, R, r) \in Nat /\ i \in 1 .. n
      BY <1>11
    <3>. HIDE DEF i
    <3>2. RankIn(S, R, At[i]) = i - 1 /\ At[i] \in S
      BY <1>12, <3>1
    <3>. QED
      BY <3>1, <3>2 DEF i
  <2>2. At[i] # r => <<At[i], r>> \in R \/ <<r, At[i]>> \in R
    BY <1>6, <2>1
  <2>3. ~ (RankIn(S, R, At[i]) < RankIn(S, R, r)) /\ ~ (RankIn(S, R, r) < RankIn(S, R, At[i]))
    BY <1>11, <2>1
  <2>. QED
    BY <1>11, <2>1, <2>2, <2>3
<1>. QED
  BY <1>8, <1>9, <1>13, <1>14, <1>15

\* Keys that a table may hold: no NULL where `=' compares.
Unnulled(cmps, table) == \A r \in DOMAIN table : ~ NullKey(cmps, table[r].key)

\* The entries past lo, up to hi, are those a probe finds: the rows whose keys SQL has
\* the same, each once, in the table's order. At(i) is the i-th entry's row.
Finds(cmps, table, n, key, lo, hi, At) ==
  LET e == Entries(cmps, table) IN
  /\ ProbeRange(cmps, e, key) = <<lo, hi>> /\ lo <= hi
  /\ DOMAIN e = 1 .. n /\ Len(e) = n
  /\ \A i \in 1 .. n : e[i].row = table[At[i]].row
  /\ \A r \in 1 .. n : SameKey(cmps, table[r].key, key) => \E i \in lo + 1 .. hi : At[i] = r
  /\ \A i \in lo + 1 .. hi : SameKey(cmps, table[At[i]].key, key)
  /\ \A i, k \in lo + 1 .. hi : i < k => At[i] < At[k]
  /\ \A i, k \in lo + 1 .. hi : e[i].key = e[k].key

\* Every probe finds such a range.
LEMMA ProbeFindsRange ==
  ASSUME NEW cmps, Comparisons(cmps), NEW table, NEW n \in Nat, DOMAIN table = 1 .. n,
         Keyed(cmps, table), Unnulled(cmps, table), NEW key, KeyCells(cmps, key)
  PROVE  \E lo \in 0 .. n, hi \in 0 .. n, At \in [1 .. n -> 1 .. n] :
           Finds(cmps, table, n, key, lo, hi, At)
<1>. DEFINE e == Entries(cmps, table)
            w == Width(cmps)
            p == ProbeBits(cmps, key)
            B(r) == Stored(cmps, table, r)
<1>1. PICK At \in [1 .. n -> 1 .. n] :
        /\ e = [i \in 1 .. n |-> [key |-> B(At[i]), row |-> table[At[i]].row]]
        /\ \A r \in 1 .. n : \E i \in 1 .. n : At[i] = r
        /\ \A i, k \in 1 .. n : i < k => SortsBefore(cmps, table, At[i], At[k])
  BY EntriesEnumerate
<1>2. /\ w \in Nat /\ p \in [1 .. w -> Nat]
      /\ \A r \in 1 .. n : B(r) \in [1 .. w -> Nat]
  <2>1. w \in Nat
    BY WidthType
  <2>2. p \in [1 .. w -> Raw]
    BY SlotsOfAKey DEF ProbeBits
  <2>3. ASSUME NEW r \in 1 .. n PROVE B(r) \in [1 .. w -> Raw]
    BY SlotsOfAKey DEF Keyed, Stored
  <2>. QED
    BY <2>1, <2>2, <2>3, RawAssumption
<1>3. DOMAIN e = 1 .. n /\ Len(e) = n /\ \A i \in 1 .. n : e[i].row = table[At[i]].row /\ e[i].key = B(At[i])
  <2>. DEFINE E(i) == [key |-> B(At[i]), row |-> table[At[i]].row]
  <2>1. e = [i \in 1 .. n |-> E(i)]
    BY <1>1
  <2>2. \A i \in 1 .. n : E(i).row = table[At[i]].row /\ E(i).key = B(At[i])
    OBVIOUS
  <2>. HIDE DEF e, B, E
  <2>3. DOMAIN e = 1 .. n /\ Len(e) = n /\ \A i \in 1 .. n : e[i] = E(i)
    BY <2>1
  <2>. QED
    BY <2>2, <2>3
<1>4. ~ NullKey(cmps, key) => \A r \in 1 .. n : B(r) = p <=> SameKey(cmps, table[r].key, key)
  BY BitsCompare DEF Keyed, Unnulled, Stored, ProbeBits
<1>5. NullKey(cmps, key) => \A r \in 1 .. n : ~ SameKey(cmps, table[r].key, key)
  BY RawAssumption DEF NullKey, SameKey
<1>6. \A q, r \in 1 .. n : SortsBefore(cmps, table, q, r) <=> SlotsBelow(B(q), B(r)) \/ (B(q) = B(r) /\ q < r)
  BY DEF SortsBefore
<1>7. CASE NullKey(cmps, key)
  <2>1. ProbeRange(cmps, e, key) = <<0, 0>>
    BY <1>7 DEF ProbeRange
  <2>2. 0 \in 0 .. n /\ 0 <= 0 /\ \A i : i \notin 0 + 1 .. 0
    OBVIOUS
  <2>3. \A r \in 1 .. n : SameKey(cmps, table[r].key, key) => \E i \in 0 + 1 .. 0 : At[i] = r
    BY <1>5, <1>7
  <2>4. Finds(cmps, table, n, key, 0, 0, At)
    BY <1>3, <2>1, <2>2, <2>3 DEF Finds
  <2>. QED
    BY <2>2, <2>4
<1>8. CASE ~ NullKey(cmps, key)
  <2>. DEFINE under == [i \in 0 .. n - 1 |-> SlotsBelow(e[i + 1].key, p)]
              upto  == [i \in 0 .. n - 1 |-> ~ SlotsBelow(p, e[i + 1].key)]
              lo == PartitionPoint(under, n)
              hi == PartitionPoint(upto, n)
  <2>1. ProbeRange(cmps, e, key) = <<lo, hi>>
    BY <1>3, <1>8 DEF ProbeRange
  <2>. HIDE DEF e, p, B, w
  <2>2. \A i \in 0 .. n - 1 : /\ i + 1 \in 1 .. n /\ At[i + 1] \in 1 .. n
                              /\ e[i + 1].key = B(At[i + 1]) /\ B(At[i + 1]) \in [1 .. w -> Nat]
    <3>. TAKE i \in 0 .. n - 1
    <3>1. i + 1 \in 1 .. n
      OBVIOUS
    <3>2. At[i + 1] \in 1 .. n
      BY <1>1, <3>1
    <3>. QED
      BY <1>2, <1>3, <3>1, <3>2
  <2>3. \A i, k \in 0 .. n - 1 : i < k => \/ SlotsBelow(B(At[i + 1]), B(At[k + 1]))
                                          \/ B(At[i + 1]) = B(At[k + 1])
    <3>. TAKE i, k \in 0 .. n - 1
    <3>. HAVE i < k
    <3>1. i + 1 < k + 1 /\ i + 1 \in 1 .. n /\ k + 1 \in 1 .. n
      OBVIOUS
    <3>2. SortsBefore(cmps, table, At[i + 1], At[k + 1])
      BY <1>1, <3>1
    <3>. QED
      BY <1>6, <2>2, <3>2
  <2>4. /\ under \in [0 .. n - 1 -> BOOLEAN]
        /\ \A i, k \in 0 .. n - 1 : i < k /\ under[k] => under[i]
    <3>1. under \in [0 .. n - 1 -> BOOLEAN]
      BY DEF SlotsBelow
    <3>2. ASSUME NEW i \in 0 .. n - 1, NEW k \in 0 .. n - 1, i < k, under[k] PROVE under[i]
      <4>1. SlotsBelow(B(At[k + 1]), p)
        BY <2>2, <3>2
      <4>2. \/ SlotsBelow(B(At[i + 1]), B(At[k + 1]))
            \/ B(At[i + 1]) = B(At[k + 1])
        BY <2>3, <3>2
      <4>3. SlotsBelow(B(At[i + 1]), B(At[k + 1])) => SlotsBelow(B(At[i + 1]), p)
        BY <1>2, <2>2, <3>2, <4>1, SlotsBelowTransitive
      <4>. QED
        BY <2>2, <4>1, <4>2, <4>3
    <3>. QED
      BY <3>1, <3>2
  <2>5. /\ upto \in [0 .. n - 1 -> BOOLEAN]
        /\ \A i, k \in 0 .. n - 1 : i < k /\ upto[k] => upto[i]
    <3>1. upto \in [0 .. n - 1 -> BOOLEAN]
      BY DEF SlotsBelow
    <3>2. ASSUME NEW i \in 0 .. n - 1, NEW k \in 0 .. n - 1, i < k, ~ upto[i] PROVE ~ upto[k]
      <4>1. SlotsBelow(p, B(At[i + 1]))
        BY <2>2, <3>2
      <4>2. \/ SlotsBelow(B(At[i + 1]), B(At[k + 1]))
            \/ B(At[i + 1]) = B(At[k + 1])
        BY <2>3, <3>2
      <4>3. SlotsBelow(B(At[i + 1]), B(At[k + 1])) => SlotsBelow(p, B(At[k + 1]))
        BY <1>2, <2>2, <3>2, <4>1, SlotsBelowTransitive
      <4>. QED
        BY <2>2, <4>1, <4>2, <4>3
    <3>. QED
      BY <3>1, <3>2
  <2>6. lo \in 0 .. n /\ \A i \in 0 .. n - 1 : SlotsBelow(B(At[i + 1]), p) <=> i < lo
    <3>1. \A i \in 0 .. n - 1 : under[i] <=> SlotsBelow(B(At[i + 1]), p)
      BY <2>2
    <3>. HIDE DEF under
    <3>. QED
      BY <2>4, <3>1, PartitionPointFinds
  <2>7. hi \in 0 .. n /\ \A i \in 0 .. n - 1 : ~ SlotsBelow(p, B(At[i + 1])) <=> i < hi
    <3>1. \A i \in 0 .. n - 1 : upto[i] <=> ~ SlotsBelow(p, B(At[i + 1]))
      BY <2>2
    <3>. HIDE DEF upto
    <3>. QED
      BY <2>5, <3>1, PartitionPointFinds
  <2>. HIDE DEF lo, hi
  <2>8. lo <= hi
    <3>. SUFFICES ASSUME hi < lo PROVE FALSE
      BY <2>6, <2>7
    <3>1. hi \in 0 .. n - 1 /\ ~ (hi < hi)
      BY <2>6, <2>7
    <3>2. SlotsBelow(B(At[hi + 1]), p) /\ SlotsBelow(p, B(At[hi + 1]))
      BY <2>6, <2>7, <3>1
    <3>. QED
      BY <1>2, <2>2, <3>1, <3>2, SlotsAreOrdered
  <2>9. \A i \in 0 .. n - 1 : B(At[i + 1]) = p <=> ~ (i < lo) /\ i < hi
    <3>. TAKE i \in 0 .. n - 1
    <3>1. B(At[i + 1]) = p <=> ~ SlotsBelow(B(At[i + 1]), p) /\ ~ SlotsBelow(p, B(At[i + 1]))
      BY <1>2, <2>2, SlotsAreOrdered
    <3>. QED
      BY <2>6, <2>7, <3>1
  <2>10. \A i \in 1 .. n : B(At[i]) = p <=> i \in lo + 1 .. hi
    <3>. TAKE i \in 1 .. n
    <3>1. i - 1 \in 0 .. n - 1 /\ (i - 1) + 1 = i
      OBVIOUS
    <3>2. B(At[i]) = p <=> ~ (i - 1 < lo) /\ i - 1 < hi
      BY <2>9, <3>1
    <3>. QED
      BY <2>6, <2>7, <3>2
  <2>11. \A i \in lo + 1 .. hi : i \in 1 .. n /\ B(At[i]) = p
    BY <2>6, <2>7, <2>10
  <2>12. \A i, k \in lo + 1 .. hi : i < k => At[i] < At[k]
    <3>. TAKE i, k \in lo + 1 .. hi
    <3>. HAVE i < k
    <3>1. SortsBefore(cmps, table, At[i], At[k]) /\ B(At[i]) = p /\ B(At[k]) = p
      BY <1>1, <2>11
    <3>2. ~ SlotsBelow(p, p)
      BY <1>2, SlotsAreOrdered
    <3>. QED
      BY <1>6, <2>11, <3>1, <3>2
  <2>13. \A r \in 1 .. n : SameKey(cmps, table[r].key, key) => \E i \in lo + 1 .. hi : At[i] = r
    BY <1>1, <1>4, <1>8, <2>10
  <2>14. \A i \in lo + 1 .. hi : SameKey(cmps, table[At[i]].key, key) /\ e[i].key = p
    BY <1>3, <1>4, <1>8, <2>11
  <2>15. \A i, k \in lo + 1 .. hi : e[i].key = e[k].key
    BY <2>14
  <2>16. lo \in 0 .. n /\ hi \in 0 .. n
    BY <2>6, <2>7
  <2>17. \A i \in lo + 1 .. hi : SameKey(cmps, table[At[i]].key, key)
    BY <2>14
  <2>18. Finds(cmps, table, n, key, lo, hi, At)
    BY <1>3, <2>1, <2>8, <2>12, <2>13, <2>15, <2>17 DEF e, Finds
  <2>. QED
    BY <2>16, <2>18
<1>. QED
  BY <1>7, <1>8

-----------------------------------------------------------------------------
(* Sets in sequences.                                                      *)

\* Sorting has every number of a finite set, once, in order.
LEMMA SortingSorts ==
  ASSUME NEW S, S \subseteq Nat, IsFiniteSet(S)
  PROVE  \E n \in Nat :
           /\ DOMAIN Sorting(S) = 1 .. n
           /\ \A i \in 1 .. n : Sorting(S)[i] \in S
           /\ \A i, k \in 1 .. n : i < k => Sorting(S)[i] < Sorting(S)[k]
           /\ \A x \in S : \E i \in 1 .. n : Sorting(S)[i] = x
<1>. DEFINE n == Cardinality(S)
            R == { p \in S \X S : p[1] < p[2] }
            C(i) == CHOOSE x \in S : Cardinality({ y \in S : y < x }) = i - 1
            At == [i \in 1 .. n |-> C(i)]
<1>1. \A x, y \in S : <<x, y>> \in R <=> x < y
  OBVIOUS
<1>2. \A x \in S : RankIn(S, R, x) = Cardinality({ y \in S : y < x })
  <2>. TAKE x \in S
  <2>1. { y \in S : <<y, x>> \in R } = { y \in S : y < x }
    OBVIOUS
  <2>. QED
    BY <2>1 DEF RankIn
<1>3. Sorting(S) = At
  BY DEF Sorting
<1>. HIDE DEF C, R
<1>4. /\ \A x \in S : <<x, x>> \notin R
      /\ \A x, y, z \in S : <<x, y>> \in R /\ <<y, z>> \in R => <<x, z>> \in R
      /\ \A x, y \in S : x # y => <<x, y>> \in R \/ <<y, x>> \in R
  <2>1. \A x, y, z \in S : ~ (x < x) /\ (x < y /\ y < z => x < z) /\ (x # y => x < y \/ y < x)
    OBVIOUS
  <2>. QED
    BY <1>1, <2>1
<1>5. /\ n \in Nat
      /\ \A x \in S : RankIn(S, R, x) \in Nat /\ RankIn(S, R, x) + 1 \in 1 .. n
      /\ \A x, y \in S : <<x, y>> \in R <=> RankIn(S, R, x) < RankIn(S, R, y)
      /\ \A i \in 1 .. n : \E x \in S : RankIn(S, R, x) = i - 1
  BY <1>4, RanksEnumerate
<1>. HIDE DEF n
<1>6. \A i \in 1 .. n : C(i) \in S /\ RankIn(S, R, C(i)) = i - 1
  <2>. TAKE i \in 1 .. n
  <2>1. \E x \in S : Cardinality({ y \in S : y < x }) = i - 1
    BY <1>2, <1>5
  <2>2. C(i) \in S /\ Cardinality({ y \in S : y < C(i) }) = i - 1
    BY <2>1 DEF C
  <2>. QED
    BY <1>2, <2>2
<1>7. \A i, k \in 1 .. n : i < k => C(i) < C(k)
  <2>. TAKE i, k \in 1 .. n
  <2>. HAVE i < k
  <2>1. RankIn(S, R, C(i)) = i - 1 /\ RankIn(S, R, C(k)) = k - 1 /\ C(i) \in S /\ C(k) \in S
    BY <1>6
  <2>2. RankIn(S, R, C(i)) < RankIn(S, R, C(k))
    BY <2>1
  <2>. QED
    BY <1>1, <1>5, <2>1, <2>2
<1>8. \A x \in S : \E i \in 1 .. n : C(i) = x
  <2>. TAKE x \in S
  <2>. DEFINE i == RankIn(S, R, x) + 1
  <2>1. i \in 1 .. n /\ i - 1 = RankIn(S, R, x) /\ RankIn(S, R, x) \in Nat
    BY <1>5
  <2>. HIDE DEF i
  <2>2. RankIn(S, R, C(i)) = RankIn(S, R, x) /\ C(i) \in S
    BY <1>6, <2>1
  <2>3. ~ (RankIn(S, R, C(i)) < RankIn(S, R, x)) /\ ~ (RankIn(S, R, x) < RankIn(S, R, C(i)))
    BY <2>1, <2>2
  <2>4. C(i) # x => <<C(i), x>> \in R \/ <<x, C(i)>> \in R
    BY <1>4, <2>2
  <2>. QED
    BY <1>5, <2>1, <2>2, <2>3, <2>4
<1>. QED
  BY <1>3, <1>5, <1>6, <1>7, <1>8

\* InAnyOrder has only elements of the set.
LEMMA InAnyOrderEnumerates ==
  ASSUME NEW S, IsFiniteSet(S)
  PROVE  \E n \in Nat : DOMAIN InAnyOrder(S) = 1 .. n /\ \A i \in 1 .. n : InAnyOrder(S)[i] \in S
<1>. DEFINE n == Cardinality(S)
<1>1. n \in Nat /\ ExistsBijection(1 .. n, S)
  BY FS_CardinalityType
<1>2. PICK f \in [1 .. n -> S] : \A i, k \in 1 .. n : i # k => f[i] # f[k]
  BY <1>1 DEF ExistsBijection, Bijection, Injection, IsInjective
<1>3. \E g \in [1 .. n -> S] : \A i, k \in DOMAIN g : i # k => g[i] # g[k]
  BY <1>2
<1>4. InAnyOrder(S) \in [1 .. n -> S]
  BY <1>3 DEF InAnyOrder
<1>. QED
  BY <1>1, <1>4

-----------------------------------------------------------------------------
(* The build of the tables.                                                *)

\* A join as PlansAssumption has it.
JoinFits(j) ==
  /\ j.kind \in {"inner", "left", "fold"}
  /\ Comparisons(j.cmps)
  /\ Len(j.table) \in Nat /\ DOMAIN j.table = 1 .. Len(j.table)
  /\ \A r \in DOMAIN j.table : \A i \in DOMAIN j.cmps :
       i \in DOMAIN j.table[r].key /\ j.table[r].key[i] \in Cells \union {Unmatched, Unreadable}

\* A built table: keys that can be probed, and for a plain join the rows some
\* probe can match, under their numbers in the source.
TableOK(j, t) ==
  /\ DOMAIN t = 1 .. Len(t) /\ Len(t) \in Nat
  /\ Keyed(j.cmps, t) /\ Unnulled(j.cmps, t)
  /\ \A i \in DOMAIN t : t[i].row \in Nat \ {0}
  /\ \A i, k \in DOMAIN t : i < k => t[i].row < t[k].row
  /\ IF Plain(j.build.how)
     THEN /\ \A i \in DOMAIN t : t[i].row \in Matchable(j) /\ t[i].key = j.table[t[i].row].key
          /\ \A r \in Matchable(j) : \E i \in DOMAIN t : t[i].row = r
     ELSE \A i \in DOMAIN t : t[i].row = i

\* The keys of the groups that the rows before row n make.
KeysBefore(j, n) == { CanonKey(j.table[r].key) : r \in { q \in Matchable(j) : q < n } }
                    \union (IF j.cmps = <<>> THEN {<<>>} ELSE {})

\* The groups of a table half built.
GroupsOK(j, gs, n) ==
  IF Plain(j.build.how)
  THEN /\ DOMAIN gs = { r \in Matchable(j) : r < n }
       /\ \A r \in DOMAIN gs : gs[r] = j.table[r]
  ELSE /\ IsFiniteSet(DOMAIN gs) /\ DOMAIN gs = KeysBefore(j, n)
       /\ \A key \in DOMAIN gs : KeyCells(j.cmps, key) /\ ~ NullKey(j.cmps, key)

BuildInv ==
  /\ plan \in Plans
  /\ tables \in Seq(Range(tables)) /\ Len(tables) <= Len(Joins)
  /\ \A k \in 1 .. Len(tables) : TableOK(Joins[k], tables[k])
  /\ at \in Nat \ {0}
  /\ Len(tables) < Len(Joins) => GroupsOK(J, groups, at)
  /\ verdict = "built" => Len(tables) = Len(Joins) /\ Len(Joins) # 0

\* A key that is kept can be probed: no component of it decides.
LEMMA KeptKeys ==
  ASSUME NEW j, JoinFits(j), NEW r \in DOMAIN j.table, KeyFate(j.cmps, j.table[r].key) = "kept"
  PROVE  /\ KeyCells(j.cmps, j.table[r].key) /\ ~ NullKey(j.cmps, j.table[r].key)
         /\ KeyCells(j.cmps, CanonKey(j.table[r].key)) /\ ~ NullKey(j.cmps, CanonKey(j.table[r].key))
<1>. DEFINE key == j.table[r].key
<1>1. \A i \in DOMAIN j.cmps : ~ Decides(j.cmps, key, i)
  BY DEF KeyFate
<1>2. \A i \in DOMAIN j.cmps : i \in DOMAIN key /\ key[i] \in Cells /\ (j.cmps[i] = "eq" => key[i] # Null)
  BY <1>1 DEF Decides, JoinFits
<1>3. \A i \in DOMAIN j.cmps : CanonKey(key)[i] \in Cells /\ (CanonKey(key)[i] = Null => key[i] = Null)
  BY <1>2, RawAssumption DEF CanonKey, Cells
<1>. QED
  BY <1>2, <1>3 DEF KeyCells, NullKey

\* The rows some probe can match are those that the filter and their keys keep;
\* a row that a probe matches is one of them.
LEMMA MatchedKeysAreKept ==
  ASSUME NEW j, JoinFits(j), NEW r \in DOMAIN j.table, NEW key, SameKey(j.cmps, j.table[r].key, key)
  PROVE  KeyFate(j.cmps, j.table[r].key) = "kept"
<1>. DEFINE a == j.table[r].key
<1>1. \A i \in DOMAIN j.cmps : a[i] \in Cells /\ (a[i] = Null => j.cmps[i] = "indf")
  BY RawAssumption DEF SameKey, Cells
<1>2. \A i \in DOMAIN j.cmps : ~ Decides(j.cmps, a, i)
  BY <1>1, BuildAssumption DEF Decides
<1>. QED
  BY <1>2 DEF KeyFate

\* The joins of a plan.
LEMMA PlansFit ==
  ASSUME plan \in Plans
  PROVE  /\ Len(Joins) \in Nat /\ DOMAIN Joins = 1 .. Len(Joins)
         /\ \A k \in 1 .. Len(Joins) : JoinFits(Joins[k])
<1>1. /\ Len(Joins) \in Nat /\ DOMAIN Joins = 1 .. Len(Joins)
      /\ \A k \in DOMAIN Joins :
           /\ Joins[k].kind \in {"inner", "left", "fold"}
           /\ Joins[k].cmps \in Seq({"eq", "indf"})
           /\ Joins[k].table \in Seq(SourceRows)
           /\ \A r \in DOMAIN Joins[k].table : Len(Joins[k].cmps) <= Len(Joins[k].table[r].key)
  BY PlansAssumption DEF Joins
<1>2. ASSUME NEW k \in DOMAIN Joins PROVE JoinFits(Joins[k])
  <2>. DEFINE j == Joins[k]
  <2>1. /\ j.kind \in {"inner", "left", "fold"} /\ Comparisons(j.cmps) /\ j.table \in Seq(SourceRows)
        /\ \A r \in DOMAIN j.table : Len(j.cmps) <= Len(j.table[r].key)
    BY <1>1 DEF Comparisons
  <2>. HIDE DEF j
  <2>2. Len(j.table) \in Nat /\ DOMAIN j.table = 1 .. Len(j.table)
    BY <2>1, LenProperties
  <2>3. ASSUME NEW r \in DOMAIN j.table, NEW i \in DOMAIN j.cmps
        PROVE  i \in DOMAIN j.table[r].key /\ j.table[r].key[i] \in Cells \union {Unmatched, Unreadable}
    <3>1. j.table[r] \in SourceRows
      BY <2>1, <2>2, ElementOfSeq
    <3>. DEFINE a == j.table[r].key
    <3>2. a \in Seq(Cells \union {Unmatched, Unreadable})
      BY <3>1 DEF SourceRows
    <3>3. i \in 1 .. Len(j.cmps) /\ Len(j.cmps) \in Nat /\ Len(j.cmps) <= Len(a)
      BY <2>1, ComparisonsShape
    <3>. HIDE DEF a
    <3>4. Len(a) \in Nat /\ DOMAIN a = 1 .. Len(a)
      BY <3>2, LenProperties
    <3>5. i \in 1 .. Len(a)
      BY <3>3, <3>4
    <3>6. a[i] \in Cells \union {Unmatched, Unreadable}
      BY <3>2, <3>5, ElementOfSeq
    <3>. QED
      BY <3>4, <3>5, <3>6 DEF a
  <2>. QED
    BY <2>1, <2>2, <2>3 DEF JoinFits, j
<1>. QED
  BY <1>1, <1>2

\* A group's key comes from a row that is kept.
LEMMA JoiningKeepsGroups ==
  ASSUME NEW j, JoinFits(j), NEW r \in DOMAIN j.table, GroupsOK(j, groups, r),
         j.table[r].keep, KeyFate(j.cmps, j.table[r].key) = "kept"
  PROVE  GroupsOK(j, Joining(j, j.table[r], r), r + 1)
<1>1. r \in Nat /\ Matchable(j) \subseteq Nat /\ r \in Matchable(j)
  BY DEF Matchable, JoinFits
<1>2. CASE Plain(j.build.how)
  <2>1. /\ DOMAIN groups = { q \in Matchable(j) : q < r }
        /\ \A q \in DOMAIN groups : groups[q] = j.table[q]
    BY <1>2 DEF GroupsOK
  <2>2. Joining(j, j.table[r], r) = [ k \in DOMAIN groups \union {r} |-> IF k = r THEN j.table[r] ELSE groups[k] ]
    BY <1>2 DEF Joining
  <2>3. DOMAIN groups \union {r} = { q \in Matchable(j) : q < r + 1 }
    BY <1>1, <2>1
  <2>. QED
    BY <1>2, <2>1, <2>2, <2>3 DEF GroupsOK
<1>3. CASE ~ Plain(j.build.how)
  <2>. DEFINE key == CanonKey(j.table[r].key)
  <2>1. /\ IsFiniteSet(DOMAIN groups) /\ DOMAIN groups = KeysBefore(j, r)
        /\ \A k \in DOMAIN groups : KeyCells(j.cmps, k) /\ ~ NullKey(j.cmps, k)
    BY <1>3 DEF GroupsOK
  <2>2. KeyCells(j.cmps, key) /\ ~ NullKey(j.cmps, key)
    BY KeptKeys
  <2>3. DOMAIN Joining(j, j.table[r], r) = DOMAIN groups \union {key}
    BY <1>3 DEF Joining
  <2>4. IsFiniteSet(DOMAIN groups \union {key})
    BY <2>1, FS_AddElement
  <2>5. KeysBefore(j, r + 1) = KeysBefore(j, r) \union {key}
    <3>1. { q \in Matchable(j) : q < r + 1 } = { q \in Matchable(j) : q < r } \union {r}
      BY <1>1
    <3>. QED
      BY <3>1 DEF KeysBefore
  <2>. HIDE DEF key
  <2>. QED
    BY <1>3, <2>1, <2>2, <2>3, <2>4, <2>5 DEF GroupsOK
<1>. QED
  BY <1>2, <1>3

\* A row that is dropped, or that refuses the build, is none that a probe matches.
LEMMA DroppingKeepsGroups ==
  ASSUME NEW j, JoinFits(j), NEW r \in DOMAIN j.table, GroupsOK(j, groups, r),
         ~ j.table[r].keep \/ KeyFate(j.cmps, j.table[r].key) # "kept"
  PROVE  GroupsOK(j, groups, r + 1)
<1>1. r \in Nat /\ Matchable(j) \subseteq Nat /\ r \notin Matchable(j)
  BY DEF Matchable, JoinFits
<1>2. { q \in Matchable(j) : q < r } = { q \in Matchable(j) : q < r + 1 }
  <2>1. \A q \in Matchable(j) : q < r + 1 => q < r
    BY <1>1
  <2>2. \A q \in Matchable(j) : q < r => q < r + 1
    BY <1>1
  <2>. QED
    BY <2>1, <2>2
<1>. QED
  BY <1>2 DEF GroupsOK, KeysBefore

\* A table starts with groups that are in order.
LEMMA StartedGroups ==
  ASSUME NEW j, JoinFits(j)
  PROVE  GroupsOK(j, Started(j), 1)
<1>1. Matchable(j) \subseteq Nat \ {0}
  BY DEF Matchable, JoinFits
<1>2. CASE Plain(j.build.how)
  <2>1. DOMAIN Started(j) = {}
    BY <1>2 DEF Started
  <2>2. { r \in Matchable(j) : r < 1 } = {}
    BY <1>1
  <2>. QED
    BY <1>2, <2>1, <2>2 DEF GroupsOK
<1>0. KeysBefore(j, 1) = IF j.cmps = <<>> THEN {<<>>} ELSE {}
  <2>1. { r \in Matchable(j) : r < 1 } = {}
    BY <1>1
  <2>. QED
    BY <2>1 DEF KeysBefore
<1>3. CASE ~ Plain(j.build.how) /\ j.cmps = <<>>
  <2>1. DOMAIN Started(j) = {<<>>}
    BY <1>3 DEF Started
  <2>2. IsFiniteSet({<<>>})
    BY FS_Singleton
  <2>3. KeyCells(j.cmps, <<>>) /\ ~ NullKey(j.cmps, <<>>)
    BY <1>3 DEF KeyCells, NullKey
  <2>. QED
    BY <1>0, <1>3, <2>1, <2>2, <2>3 DEF GroupsOK
<1>4. CASE ~ Plain(j.build.how) /\ j.cmps # <<>>
  <2>1. DOMAIN Started(j) = {}
    BY <1>4 DEF Started
  <2>. QED
    BY <1>0, <1>4, <2>1, FS_EmptySet DEF GroupsOK
<1>. QED
  BY <1>2, <1>3, <1>4

\* The table made of its groups.
LEMMA TablesAreBuilt ==
  ASSUME NEW j, JoinFits(j), GroupsOK(j, groups, Len(j.table) + 1)
  PROVE  TableOK(j, TableOf(j))
<1>. DEFINE t == TableOf(j)
<1>1. CASE Plain(j.build.how)
  <2>. DEFINE rs == Sorting(DOMAIN groups)
  <2>1. DOMAIN groups = Matchable(j) /\ \A r \in Matchable(j) : groups[r] = j.table[r]
    <3>1. { r \in Matchable(j) : r < Len(j.table) + 1 } = Matchable(j)
      BY DEF Matchable, JoinFits
    <3>. QED
      BY <1>1, <3>1 DEF GroupsOK
  <2>2. Matchable(j) \subseteq Nat \ {0} /\ IsFiniteSet(Matchable(j))
    <3>1. Matchable(j) \in SUBSET (1 .. Len(j.table)) /\ Len(j.table) \in Nat
      BY DEF Matchable, JoinFits
    <3>2. IsFiniteSet(1 .. Len(j.table))
      BY <3>1, FS_Interval
    <3>. QED
      BY <3>1, <3>2, FS_Subset
  <2>3. PICK n \in Nat : /\ DOMAIN rs = 1 .. n /\ \A i \in 1 .. n : rs[i] \in Matchable(j)
                         /\ \A i, k \in 1 .. n : i < k => rs[i] < rs[k]
                         /\ \A r \in Matchable(j) : \E i \in 1 .. n : rs[i] = r
    <3>1. Matchable(j) \subseteq Nat
      BY <2>2
    <3>. QED
      BY <2>1, <2>2, <3>1, SortingSorts
  <2>4. t = [ i \in DOMAIN rs |-> [key |-> groups[rs[i]].key, val |-> groups[rs[i]].val, row |-> rs[i]] ]
    BY <1>1 DEF TableOf
  <2>. HIDE DEF t, rs
  <2>5. DOMAIN t = 1 .. n /\ Len(t) = n
    BY <2>3, <2>4
  <2>6. \A i \in 1 .. n : t[i].row = rs[i] /\ t[i].key = j.table[rs[i]].key
    BY <2>1, <2>3, <2>4
  <2>7. \A r \in Matchable(j) : KeyCells(j.cmps, j.table[r].key) /\ ~ NullKey(j.cmps, j.table[r].key)
    BY KeptKeys DEF Matchable
  <2>8. Keyed(j.cmps, t) /\ Unnulled(j.cmps, t)
    BY <2>3, <2>5, <2>6, <2>7 DEF Keyed, Unnulled
  <2>9. \A i \in DOMAIN t : /\ t[i].row \in Nat \ {0} /\ t[i].row \in Matchable(j)
                             /\ t[i].key = j.table[t[i].row].key
    BY <2>2, <2>3, <2>5, <2>6
  <2>10. \A i, k \in DOMAIN t : i < k => t[i].row < t[k].row
    BY <2>3, <2>5, <2>6
  <2>11. \A r \in Matchable(j) : \E i \in DOMAIN t : t[i].row = r
    BY <2>3, <2>5, <2>6
  <2>. QED
    BY <1>1, <2>5, <2>8, <2>9, <2>10, <2>11, Zenon DEF TableOK, t
<1>2. CASE ~ Plain(j.build.how)
  <2>. DEFINE ks == InAnyOrder(DOMAIN groups)
              B(i) == IF j.build.how = "aggs" THEN BoundAnswer(j.build, groups[ks[i]]) ELSE 0
              G(i) == GroupAnswer(j, ks[i])
  <2>1. /\ IsFiniteSet(DOMAIN groups)
        /\ \A key \in DOMAIN groups : KeyCells(j.cmps, key) /\ ~ NullKey(j.cmps, key)
    BY <1>2 DEF GroupsOK
  <2>2. PICK n \in Nat : DOMAIN ks = 1 .. n /\ \A i \in 1 .. n : ks[i] \in DOMAIN groups
    BY <2>1, InAnyOrderEnumerates
  <2>3. t = [ i \in DOMAIN ks |-> [key |-> ks[i], val |-> G(i), row |-> i, bound |-> B(i)] ]
    BY <1>2 DEF TableOf
  <2>. HIDE DEF t, ks, G, B
  <2>4. DOMAIN t = 1 .. n /\ Len(t) = n
    BY <2>2, <2>3
  <2>5. \A i \in 1 .. n : t[i].row = i /\ t[i].key = ks[i]
    BY <2>2, <2>3
  <2>6. Keyed(j.cmps, t) /\ Unnulled(j.cmps, t)
    BY <2>1, <2>2, <2>4, <2>5 DEF Keyed, Unnulled
  <2>. QED
    BY <1>2, <2>4, <2>5, <2>6 DEF TableOK, t
<1>. QED
  BY <1>1, <1>2

\* A sequence of what it holds, and one thing more.
LEMMA AppendedSequence ==
  ASSUME NEW s, s \in Seq(Range(s)), NEW x
  PROVE  /\ Append(s, x) \in Seq(Range(Append(s, x)))
         /\ Len(Append(s, x)) = Len(s) + 1 /\ Len(s) \in Nat
         /\ \A i \in 1 .. Len(s) : Append(s, x)[i] = s[i]
         /\ Append(s, x)[Len(s) + 1] = x
<1>. DEFINE S == Range(s) \union {x}
            t == Append(s, x)
<1>1. s \in Seq(S) /\ Len(s) \in Nat /\ DOMAIN s = 1 .. Len(s)
  <2>1. Len(s) \in Nat /\ DOMAIN s = 1 .. Len(s)
    BY LenProperties
  <2>2. \A i \in 1 .. Len(s) : s[i] \in S
    BY <2>1 DEF Range
  <2>3. s = [i \in 1 .. Len(s) |-> s[i]]
    BY LenProperties
  <2>. QED
    BY <2>1, <2>2, <2>3
<1>2. /\ t \in Seq(S) /\ Len(t) = Len(s) + 1 /\ t[Len(s) + 1] = x
      /\ \A i \in 1 .. Len(s) : t[i] = s[i]
  BY <1>1, AppendProperties
<1>. HIDE DEF t, S
<1>3. t \in Seq(Range(t))
  <2>1. Len(t) \in Nat /\ DOMAIN t = 1 .. Len(t) /\ t = [i \in 1 .. Len(t) |-> t[i]]
    BY <1>2, LenProperties
  <2>2. \A i \in 1 .. Len(t) : t[i] \in Range(t)
    BY <2>1 DEF Range
  <2>. QED
    BY <2>1, <2>2
<1>. QED
  BY <1>1, <1>2, <1>3 DEF t

\* The build starts so.
LEMMA BuildStarts ==
  ASSUME BuildInit
  PROVE  BuildInv
<1>1. plan \in Plans /\ tables = <<>> /\ at = 1 /\ verdict = "building" /\ groups = StartOf(1, Joins)
  BY DEF BuildInit, Joins
<1>2. Len(Joins) \in Nat /\ \A k \in 1 .. Len(Joins) : JoinFits(Joins[k])
  BY <1>1, PlansFit
<1>3. tables \in Seq(Range(tables)) /\ Len(tables) = 0
  BY <1>1
<1>4. ASSUME Len(tables) < Len(Joins) PROVE GroupsOK(J, groups, at)
  <2>1. J = Joins[1] /\ 1 <= Len(Joins) /\ 1 \in 1 .. Len(Joins)
    BY <1>2, <1>3, <1>4 DEF J
  <2>2. groups = Started(J)
    BY <1>1, <2>1 DEF StartOf
  <2>. QED
    BY <1>1, <1>2, <2>1, <2>2, StartedGroups
<1>. QED
  BY <1>1, <1>2, <1>3, <1>4 DEF BuildInv

\* Reading a row keeps the invariant of the build.
LEMMA ReadRowKeepsBuild ==
  ASSUME BuildInv, ReadRow
  PROVE  BuildInv'
<1>1. /\ plan' = plan /\ tables' = tables /\ at' = at + 1 /\ Joins' = Joins /\ J' = J
      /\ Len(tables) < Len(Joins) /\ verdict = "building" /\ verdict' \in {"building", "refused"}
      /\ at <= Len(J.table) /\ at \in Nat \ {0} /\ GroupsOK(J, groups, at)
  BY DEF ReadRow, Building, BuildInv, J, Joins
<1>2. JoinFits(J) /\ at \in DOMAIN J.table
  <2>1. Len(tables) + 1 \in 1 .. Len(Joins)
    <3>1. Len(tables) \in Nat /\ Len(Joins) \in Nat
      BY PlansFit, LenProperties DEF BuildInv
    <3>. QED
      BY <1>1, <3>1
  <2>2. JoinFits(J)
    BY <2>1, PlansFit DEF BuildInv, J
  <2>. QED
    BY <1>1, <2>2 DEF JoinFits
<1>3. GroupsOK(J, groups', at + 1)
  <2>1. CASE J.table[at].keep /\ KeyFate(J.cmps, J.table[at].key) = "kept"
    <3>1. groups' = Joining(J, J.table[at], at)
      BY <2>1 DEF ReadRow, SourceRow
    <3>. QED
      BY <1>1, <1>2, <2>1, <3>1, JoiningKeepsGroups
  <2>2. CASE ~ J.table[at].keep \/ KeyFate(J.cmps, J.table[at].key) # "kept"
    <3>1. groups' = groups
      BY <2>2 DEF ReadRow, SourceRow
    <3>. QED
      BY <1>1, <1>2, <2>2, <3>1, DroppingKeepsGroups
  <2>. QED
    BY <2>1, <2>2
<1>. QED
  BY <1>1, <1>3 DEF BuildInv

\* So does finishing a table.
LEMMA FinishTableKeepsBuild ==
  ASSUME BuildInv, FinishTable
  PROVE  BuildInv'
<1>1. /\ plan' = plan /\ plan \in Plans /\ Joins' = Joins /\ verdict = "building"
      /\ Len(tables) < Len(Joins) /\ tables \in Seq(Range(tables))
      /\ at > Len(J.table) /\ at \in Nat \ {0} /\ GroupsOK(J, groups, at)
      /\ \A k \in 1 .. Len(tables) : TableOK(Joins[k], tables[k])
  BY DEF FinishTable, Building, BuildInv, Joins
<1>2. Len(Joins) \in Nat /\ Len(tables) \in Nat /\ Len(tables) + 1 \in 1 .. Len(Joins)
  <2>1. Len(tables) \in Nat /\ Len(Joins) \in Nat
    BY <1>1, PlansFit, LenProperties
  <2>. QED
    BY <1>1, <2>1
<1>3. JoinFits(J) /\ J = Joins[Len(tables) + 1]
  BY <1>1, <1>2, PlansFit DEF J
<1>4. CASE TableRefused(J)
  <2>1. tables' = tables /\ at' = at /\ groups' = groups /\ verdict' = "refused"
    BY <1>4 DEF FinishTable
  <2>2. J' = J
    BY <1>1, <2>1 DEF J
  <2>. QED
    BY <1>1, <2>1, <2>2 DEF BuildInv
<1>5. CASE ~ TableRefused(J)
  <2>1. /\ tables' = Append(tables, TableOf(J)) /\ at' = 1 /\ groups' = StartOf(Len(tables) + 2, Joins)
        /\ verdict' = IF Len(tables) + 1 = Len(Joins) THEN "built" ELSE "building"
    BY <1>5 DEF FinishTable
  <2>2. /\ tables' \in Seq(Range(tables')) /\ Len(tables') = Len(tables) + 1
        /\ \A k \in 1 .. Len(tables) : tables'[k] = tables[k]
        /\ tables'[Len(tables) + 1] = TableOf(J)
    BY <1>1, <2>1, AppendedSequence
  <2>3. TableOK(J, TableOf(J))
    <3>1. GroupsOK(J, groups, Len(J.table) + 1)
      <4>1. Matchable(J) \subseteq 1 .. Len(J.table) /\ Len(J.table) \in Nat
        BY <1>3 DEF Matchable, JoinFits
      <4>2. { r \in Matchable(J) : r < at } = { r \in Matchable(J) : r < Len(J.table) + 1 }
        BY <1>1, <4>1
      <4>. QED
        BY <1>1, <4>2 DEF GroupsOK, KeysBefore
    <3>. QED
      BY <1>3, <3>1, TablesAreBuilt
  <2>4. \A k \in 1 .. Len(tables) + 1 : TableOK(Joins[k], tables'[k])
    BY <1>1, <1>2, <1>3, <2>2, <2>3
  <2>5. ASSUME Len(tables') < Len(Joins) PROVE GroupsOK(J', groups', at')
    <3>1. Len(tables) + 2 \in 1 .. Len(Joins) /\ J' = Joins[Len(tables) + 2]
      BY <1>1, <1>2, <2>2, <2>5 DEF J
    <3>2. groups' = Started(J')
      BY <2>1, <3>1 DEF StartOf
    <3>. QED
      BY <1>1, <2>1, <3>1, <3>2, PlansFit, StartedGroups
  <2>6. verdict' = "built" => Len(tables') = Len(Joins) /\ Len(Joins) # 0
    BY <1>2, <2>1, <2>2
  <2>7. Len(tables') <= Len(Joins)
    BY <1>2, <2>2
  <2>. QED
    BY <1>1, <2>1, <2>2, <2>4, <2>5, <2>6, <2>7 DEF BuildInv
<1>. QED
  BY <1>4, <1>5

\* And what leaves the build alone.
LEMMA OthersKeepBuild ==
  ASSUME BuildInv, UNCHANGED buildVars
  PROVE  BuildInv'
BY DEF BuildInv, buildVars, J, Joins

-----------------------------------------------------------------------------
(* The join as SQL has it.                                                 *)

PickSeqs == Seq(Seq(Nat))

\* Reaching without the recursion: each pick extends those before it.
Reach(k) == { p \in PickSeqs : Len(p) = k /\ \A j \in 1 .. k : p[j] \in Extensions(j, SubSeq(p, 1, j - 1)) }

\* The rows join k can match, their residual aside, given the cell its keys read.
Candidates(k, c) ==
  { r \in DOMAIN Served(k) : /\ Plain(Joins[k].build.how) => Served(k)[r].keep
                             /\ SameKey(Joins[k].cmps, Served(k)[r].key, Key(k, c)) }

\* The tables are built.
Built == BuildInv /\ verdict = "built"

\* A built query.
LEMMA BuiltJoins ==
  ASSUME Built
  PROVE  /\ N \in Nat \ {0} /\ DOMAIN Joins = 1 .. N /\ Len(tables) = N
         /\ \A k \in 1 .. N : JoinFits(Joins[k]) /\ TableOK(Joins[k], tables[k])
BY PlansFit DEF Built, BuildInv, N

\* The rows a join has are numbered from 1.
LEMMA ServedRows ==
  ASSUME Built, NEW k \in 1 .. N
  PROVE  DOMAIN Served(k) \subseteq Nat \ {0} /\ IsFiniteSet(DOMAIN Served(k))
<1>1. JoinFits(Joins[k]) /\ TableOK(Joins[k], tables[k])
  BY BuiltJoins
<1>2. PICK n \in Nat : DOMAIN Served(k) = 1 .. n
  BY <1>1 DEF JoinFits, TableOK, Served
<1>3. 0 \in Int /\ 1 \in Int /\ n \in Int
  BY <1>2
<1>4. IsFiniteSet(1 .. n)
  BY <1>3, FS_Interval
<1>. QED
  BY <1>2, <1>4

\* Matches are candidates of which the residual holds.
LEMMA MatchesAreCandidates ==
  ASSUME NEW k, NEW P
  PROVE  Matches(k, P) = { r \in Candidates(k, Before(P)) : Truth(k, Before(P), <<r>>) }
BY DEF Matches, Candidates

\* What extends a row is a sequence of row numbers.
LEMMA ExtensionsType ==
  ASSUME Built, NEW k \in 1 .. N, NEW P
  PROVE  /\ Matches(k, P) \subseteq Nat \ {0} /\ IsFiniteSet(Matches(k, P))
         /\ Extensions(k, P) \subseteq Seq(Nat)
<1>. DEFINE M == Matches(k, P)
<1>1. M \in SUBSET DOMAIN Served(k) /\ DOMAIN Served(k) \subseteq Nat \ {0} /\ IsFiniteSet(DOMAIN Served(k))
  BY ServedRows DEF Matches
<1>2. M \subseteq Nat \ {0} /\ IsFiniteSet(M)
  BY <1>1, FS_Subset
<1>3. Sorting(M) \in Seq(Nat)
  <2>1. PICK n \in Nat : DOMAIN Sorting(M) = 1 .. n /\ \A i \in 1 .. n : Sorting(M)[i] \in M
    <3>1. M \subseteq Nat
      BY <1>2
    <3>. QED
      BY <1>2, <3>1, SortingSorts
  <2>2. Sorting(M) = [i \in DOMAIN Sorting(M) |-> Sorting(M)[i]]
    BY DEF Sorting
  <2>. HIDE DEF M
  <2>. QED
    BY <1>2, <2>1, <2>2
<1>4. \A r \in M : <<r>> \in Seq(Nat)
  BY <1>2
<1>5. <<>> \in Seq(Nat)
  OBVIOUS
<1>6. CASE Joins[k].kind = "fold"
  BY <1>2, <1>3, <1>6 DEF Extensions
<1>7. CASE Joins[k].kind = "left" /\ M = {}
  BY <1>2, <1>5, <1>7 DEF Extensions
<1>8. CASE Joins[k].kind # "fold" /\ ~ (Joins[k].kind = "left" /\ M = {})
  <2>1. Extensions(k, P) = { <<r>> : r \in M }
    BY <1>8 DEF Extensions
  <2>. HIDE DEF M
  <2>. QED
    BY <1>2, <1>4, <2>1 DEF M
<1>. QED
  BY <1>6, <1>7, <1>8

\* The first m of a sequence.
LEMMA Prefixes ==
  ASSUME NEW S, NEW p \in Seq(S), NEW m \in 0 .. Len(p)
  PROVE  /\ SubSeq(p, 1, m) \in Seq(S) /\ Len(SubSeq(p, 1, m)) = m
         /\ \A i \in 1 .. m : SubSeq(p, 1, m)[i] = p[i]
<1>1. Len(p) \in Nat /\ \A i \in 1 .. Len(p) : p[i] \in S
  BY ElementOfSeq, LenProperties
<1>2. m \in Nat /\ \A i \in 1 .. m : p[i] \in S
  BY <1>1
<1>3. SubSeq(p, 1, m) \in Seq(S)
  BY <1>2
<1>4. Len(SubSeq(p, 1, m)) = m
  BY <1>2
<1>5. \A i \in 1 .. m : SubSeq(p, 1, m)[i] = p[i]
  BY <1>2
<1>. QED
  BY <1>3, <1>4, <1>5

\* Sequences of one length that agree are the same.
LEMMA SameSequence ==
  ASSUME NEW S, NEW p \in Seq(S), NEW q \in Seq(S), Len(p) = Len(q),
         \A i \in 1 .. Len(p) : p[i] = q[i]
  PROVE  p = q
BY SeqEqual

\* Prefixes of two sequences that agree so far are the same.
LEMMA SamePrefix ==
  ASSUME NEW S, NEW p \in Seq(S), NEW q \in Seq(S), NEW m \in 0 .. Len(p), m <= Len(q),
         \A i \in 1 .. m : p[i] = q[i]
  PROVE  SubSeq(p, 1, m) = SubSeq(q, 1, m)
<1>1. m \in 0 .. Len(q)
  BY LenProperties
<1>. DEFINE a == SubSeq(p, 1, m)
            b == SubSeq(q, 1, m)
<1>2. a \in Seq(S) /\ Len(a) = m /\ \A i \in 1 .. m : a[i] = p[i]
  BY Prefixes
<1>3. b \in Seq(S) /\ Len(b) = m /\ \A i \in 1 .. m : b[i] = q[i]
  BY <1>1, Prefixes
<1>. HIDE DEF a, b
<1>4. a = b
  BY <1>2, <1>3, SameSequence
<1>. QED
  BY <1>4 DEF a, b

\* The whole is a prefix.
LEMMA WholePrefix ==
  ASSUME NEW S, NEW p \in Seq(S)
  PROVE  SubSeq(p, 1, Len(p)) = p
<1>1. Len(p) \in 0 .. Len(p)
  BY LenProperties
<1>. DEFINE a == SubSeq(p, 1, Len(p))
<1>2. a \in Seq(S) /\ Len(a) = Len(p) /\ \A i \in 1 .. Len(p) : a[i] = p[i]
  BY <1>1, Prefixes
<1>. HIDE DEF a
<1>3. a = p
  BY <1>2, SameSequence
<1>. QED
  BY <1>3 DEF a

\* Nothing extends the row before the first join.
LEMMA ReachStarts ==
  ASSUME Built
  PROVE  Reach(0) = {<<>>}
<1>1. \A p \in PickSeqs : Len(p) = 0 <=> p = <<>>
  BY EmptySeq DEF PickSeqs
<1>2. <<>> \in PickSeqs /\ 1 .. 0 = {}
  BY DEF PickSeqs
<1>. QED
  BY <1>1, <1>2 DEF Reach

\* A row that reaches join k + 1 extends one that reaches join k.
LEMMA ReachGoesOn ==
  ASSUME Built, NEW k \in 1 .. N
  PROVE  Reach(k) = UNION { { Append(p, x) : x \in Extensions(k, p) } : p \in Reach(k - 1) }
<1>1. \A j \in 1 .. N : \A P : Extensions(j, P) \subseteq Seq(Nat)
  BY ExtensionsType
<1>2. ASSUME NEW p \in Reach(k - 1), NEW x \in Extensions(k, p) PROVE Append(p, x) \in Reach(k)
  <2>1. p \in Seq(Seq(Nat)) /\ Len(p) = k - 1 /\ \A j \in 1 .. k - 1 : p[j] \in Extensions(j, SubSeq(p, 1, j - 1))
    BY <1>2 DEF Reach, PickSeqs
  <2>2. x \in Seq(Nat) /\ k \in Nat
    BY <1>1, <1>2, BuiltJoins
  <2>. DEFINE q == Append(p, x)
  <2>3. /\ q \in Seq(Seq(Nat)) /\ Len(q) = k /\ q[k] = x
        /\ \A i \in 1 .. k - 1 : q[i] = p[i]
    <3>1. /\ q \in Seq(Seq(Nat)) /\ Len(q) = Len(p) + 1 /\ q[Len(p) + 1] = x
          /\ \A i \in 1 .. Len(p) : q[i] = p[i]
      BY <2>1, <2>2, AppendProperties
    <3>. HIDE DEF q
    <3>. QED
      BY <2>1, <2>2, <3>1
  <2>. HIDE DEF q
  <2>4. \A j \in 1 .. k : SubSeq(q, 1, j - 1) = SubSeq(p, 1, j - 1)
    <3>. TAKE j \in 1 .. k
    <3>1. j - 1 \in 0 .. Len(q) /\ j - 1 <= Len(p) /\ \A i \in 1 .. j - 1 : i \in 1 .. k - 1
      BY <2>1, <2>2, <2>3
    <3>. QED
      BY <2>1, <2>3, <3>1, SamePrefix
  <2>5. SubSeq(p, 1, k - 1) = p
    BY <2>1, WholePrefix
  <2>6. \A j \in 1 .. k : q[j] \in Extensions(j, SubSeq(q, 1, j - 1))
    <3>. TAKE j \in 1 .. k
    <3>1. CASE j = k
      BY <1>2, <2>3, <2>4, <2>5, <3>1
    <3>2. CASE j # k
      <4>1. j \in 1 .. k - 1
        BY <2>2, <3>2
      <4>. QED
        BY <2>1, <2>3, <2>4, <4>1
    <3>. QED
      BY <3>1, <3>2
  <2>. QED
    BY <2>3, <2>6 DEF Reach, PickSeqs, q
<1>3. ASSUME NEW q \in Reach(k) PROVE \E p \in Reach(k - 1) : \E x \in Extensions(k, p) : q = Append(p, x)
  <2>1. q \in Seq(Seq(Nat)) /\ Len(q) = k /\ \A j \in 1 .. k : q[j] \in Extensions(j, SubSeq(q, 1, j - 1))
    BY <1>3 DEF Reach, PickSeqs
  <2>2. k \in Nat \ {0} /\ k - 1 \in 0 .. Len(q) /\ k \in 1 .. k
    BY <2>1, BuiltJoins
  <2>. DEFINE p == SubSeq(q, 1, k - 1)
  <2>3. p \in Seq(Seq(Nat)) /\ Len(p) = k - 1 /\ \A i \in 1 .. k - 1 : p[i] = q[i]
    BY <2>1, <2>2, Prefixes
  <2>4. q[k] \in Extensions(k, p) /\ q[k] \in Seq(Nat)
    BY <1>1, <2>1, <2>2
  <2>. HIDE DEF p
  <2>5. p \in Reach(k - 1)
    <3>1. ASSUME NEW j \in 1 .. k - 1 PROVE p[j] \in Extensions(j, SubSeq(p, 1, j - 1))
      <4>1. j - 1 \in 0 .. Len(q) /\ j - 1 <= Len(p) /\ j \in 1 .. k /\ \A i \in 1 .. j - 1 : i \in 1 .. k - 1
        BY <2>1, <2>2, <2>3
      <4>2. SubSeq(q, 1, j - 1) = SubSeq(p, 1, j - 1)
        BY <2>1, <2>3, <4>1, SamePrefix
      <4>. QED
        BY <2>1, <2>3, <4>1, <4>2
    <3>. QED
      BY <2>3, <3>1 DEF Reach, PickSeqs
  <2>6. q = Append(p, q[k])
    <3>. DEFINE a == Append(p, q[k])
    <3>1. /\ a \in Seq(Seq(Nat)) /\ Len(a) = Len(p) + 1 /\ a[Len(p) + 1] = q[k]
          /\ \A i \in 1 .. Len(p) : a[i] = p[i]
      BY <2>3, <2>4, AppendProperties
    <3>. HIDE DEF a
    <3>2. Len(a) = Len(q) /\ \A i \in 1 .. Len(q) : a[i] = q[i]
      BY <2>1, <2>2, <2>3, <3>1
    <3>3. a = q
      BY <2>1, <3>1, <3>2, SameSequence
    <3>. QED
      BY <3>3 DEF a
  <2>. QED
    BY <2>4, <2>5, <2>6
<1>. DEFINE E(p) == { Append(p, x) : x \in Extensions(k, p) }
            U == UNION { E(p) : p \in Reach(k - 1) }
<1>4. \A q \in U : q \in Reach(k)
  <2>. TAKE q \in U
  <2>1. PICK p \in Reach(k - 1) : q \in E(p)
    OBVIOUS
  <2>2. PICK x \in Extensions(k, p) : q = Append(p, x)
    BY <2>1
  <2>. QED
    BY <1>2, <2>2
<1>5. \A q \in Reach(k) : q \in U
  <2>. TAKE q \in Reach(k)
  <2>1. PICK p \in Reach(k - 1) : \E x \in Extensions(k, p) : q = Append(p, x)
    BY <1>3
  <2>2. q \in E(p)
    BY <2>1
  <2>. HIDE DEF E
  <2>. QED
    BY <2>2
<1>6. Reach(k) = U
  <2>. HIDE DEF U
  <2>. QED
    BY <1>4, <1>5
<1>. QED
  BY <1>6

\* The recursion of Reaching.
LEMMA ReachingIsReach ==
  ASSUME Built
  PROVE  \A k \in 0 .. N : Reaching[k] = Reach(k)
<1>. DEFINE E(k, p) == { Append(p, x) : x \in Extensions(k, p) }
            V(R, k) == IF k = 0 THEN {<<>>} ELSE UNION { E(k, p) : p \in R[k - 1] }
            F(R) == [k \in 0 .. N |-> V(R, k)]
            G == [k \in 0 .. N |-> Reach(k)]
            Q == CHOOSE R : R = F(R)
<1>1. N \in Nat \ {0}
  BY BuiltJoins
<1>2. \A k \in 0 .. N : Reach(k) = V(G, k)
  <2>. TAKE k \in 0 .. N
  <2>1. CASE k = 0
    BY <2>1, ReachStarts
  <2>2. CASE k # 0
    <3>1. k \in 1 .. N /\ k - 1 \in 0 .. N
      BY <1>1, <2>2
    <3>2. G[k - 1] = Reach(k - 1)
      BY <3>1
    <3>3. Reach(k) = UNION { E(k, p) : p \in Reach(k - 1) }
      BY <3>1, ReachGoesOn
    <3>. QED
      BY <2>2, <3>2, <3>3
  <2>. QED
    BY <2>1, <2>2
<1>3. G = F(G)
  BY <1>2
<1>4. Reaching = Q
  BY DEF Reaching
<1>5. Q = F(Q)
  <2>. HIDE DEF F, G
  <2>. QED
    BY <1>3
<1>. HIDE DEF Q
<1>6. \A k \in 0 .. N : Q[k] = V(Q, k)
  BY <1>5
<1>. DEFINE Wrong == { k \in 0 .. N : Q[k] # Reach(k) }
<1>7. Wrong = {}
  <2>. SUFFICES ASSUME Wrong # {} PROVE FALSE
    OBVIOUS
  <2>1. Wrong \subseteq Nat
    BY <1>1
  <2>. HIDE DEF Wrong
  <2>2. PICK k \in Wrong : \A j \in Wrong : k <= j
    BY <2>1, LeastNatural
  <2>. USE DEF Wrong
  <2>3. k \in 0 .. N /\ Q[k] # Reach(k)
    OBVIOUS
  <2>4. k # 0
    BY <1>6, <2>3, ReachStarts
  <2>5. k - 1 \in 0 .. N /\ ~ (k <= k - 1)
    BY <1>1, <2>3, <2>4
  <2>6. Q[k - 1] = Reach(k - 1) /\ G[k - 1] = Reach(k - 1)
    BY <2>2, <2>5
  <2>7. V(Q, k) = UNION { E(k, p) : p \in Q[k - 1] } /\ V(G, k) = UNION { E(k, p) : p \in G[k - 1] }
    BY <2>4
  <2>. HIDE DEF E, V, G
  <2>8. V(Q, k) = V(G, k)
    BY <2>6, <2>7
  <2>. QED
    BY <1>2, <1>6, <2>3, <2>8
<1>. QED
  BY <1>4, <1>7

-----------------------------------------------------------------------------
(* What a probe of the prepared tables finds.                              *)

\* The prepared entries of join k, the row of one, the range a probe with c finds.
Prepared(k) == Entries(Joins[k].cmps, tables[k])
RowAt(k, i) == Prepared(k)[i].row
Lo(k, c) == ProbeRange(Joins[k].cmps, Prepared(k), Key(k, c))[1]
Hi(k, c) == ProbeRange(Joins[k].cmps, Prepared(k), Key(k, c))[2]

\* The entries of a probe's range are join k's candidates, in their order and
\* each once.
RangeOK(k, c) ==
  /\ Lo(k, c) \in Nat /\ Hi(k, c) \in Nat /\ Lo(k, c) <= Hi(k, c)
  /\ \A i \in Lo(k, c) + 1 .. Hi(k, c) :
       i \in DOMAIN Prepared(k) /\ RowAt(k, i) \in Candidates(k, c) /\ RowAt(k, i) \in Nat
  /\ \A r \in Candidates(k, c) : \E i \in Lo(k, c) + 1 .. Hi(k, c) : RowAt(k, i) = r
  /\ \A i, m \in Lo(k, c) + 1 .. Hi(k, c) : i < m => RowAt(k, i) < RowAt(k, m)
  /\ \A i, m \in Lo(k, c) + 1 .. Hi(k, c) : Prepared(k)[i].key = Prepared(k)[m].key
  /\ \E n \in Nat : DOMAIN Prepared(k) = 1 .. n /\ Len(Prepared(k)) = n

\* The rows of a built table that a key matches are the candidates.
LEMMA TableHasCandidates ==
  ASSUME Built, NEW k \in 1 .. N, NEW c
  PROVE  /\ \A i \in DOMAIN tables[k] : SameKey(Joins[k].cmps, tables[k][i].key, Key(k, c)) =>
              tables[k][i].row \in Candidates(k, c)
         /\ \A r \in Candidates(k, c) : \E i \in DOMAIN tables[k] :
              tables[k][i].row = r /\ SameKey(Joins[k].cmps, tables[k][i].key, Key(k, c))
<1>. DEFINE j == Joins[k]
            t == tables[k]
            S(key) == SameKey(j.cmps, key, Key(k, c))
<1>1. JoinFits(j) /\ TableOK(j, t)
  BY BuiltJoins
<1>2. CASE Plain(j.build.how)
  <2>1. Served(k) = j.table /\ Candidates(k, c) = { r \in DOMAIN j.table : j.table[r].keep /\ S(j.table[r].key) }
    BY <1>2 DEF Served, Candidates
  <2>2. /\ \A i \in DOMAIN t : t[i].row \in Matchable(j) /\ t[i].key = j.table[t[i].row].key
        /\ \A r \in Matchable(j) : \E i \in DOMAIN t : t[i].row = r
    BY <1>1, <1>2 DEF TableOK
  <2>3. ASSUME NEW r \in DOMAIN j.table, S(j.table[r].key) PROVE KeyFate(j.cmps, j.table[r].key) = "kept"
    BY <1>1, <2>3, MatchedKeysAreKept
  <2>4. \A r \in Candidates(k, c) : r \in Matchable(j) /\ S(j.table[r].key)
    BY <2>1, <2>3 DEF Matchable
  <2>5. \A r \in Matchable(j) : r \in DOMAIN j.table /\ j.table[r].keep
    BY DEF Matchable
  <2>. HIDE DEF S, j, t
  <2>6. \A i \in DOMAIN t : S(t[i].key) => t[i].row \in Candidates(k, c)
    BY <2>1, <2>2, <2>5
  <2>7. \A r \in Candidates(k, c) : \E i \in DOMAIN t : t[i].row = r /\ S(t[i].key)
    BY <2>2, <2>4
  <2>. QED
    BY <2>6, <2>7 DEF S, j, t
<1>3. CASE ~ Plain(j.build.how)
  <2>1. Served(k) = t /\ Candidates(k, c) = { r \in DOMAIN t : S(t[r].key) }
    BY <1>3 DEF Served, Candidates
  <2>2. \A i \in DOMAIN t : t[i].row = i
    BY <1>1, <1>3 DEF TableOK
  <2>. HIDE DEF S, t
  <2>3. \A i \in DOMAIN t : S(t[i].key) => t[i].row \in Candidates(k, c)
    BY <2>1, <2>2
  <2>4. \A r \in Candidates(k, c) : r \in DOMAIN t /\ t[r].row = r /\ S(t[r].key)
    BY <2>1, <2>2
  <2>. QED
    BY <2>3, <2>4 DEF S, t
<1>. QED
  BY <1>2, <1>3

\* So the probe of a join finds its candidates.
LEMMA ProbeFindsCandidates ==
  ASSUME Built, NEW k \in 1 .. N, NEW c, KeyCells(Joins[k].cmps, Key(k, c))
  PROVE  RangeOK(k, c)
<1>. DEFINE j == Joins[k]
            t == tables[k]
            e == Prepared(k)
            S(r) == SameKey(j.cmps, t[r].key, Key(k, c))
<1>1. JoinFits(j) /\ TableOK(j, t)
  BY BuiltJoins
<1>2. PICK n \in Nat : DOMAIN t = 1 .. n
  BY <1>1 DEF TableOK
<1>3. /\ Comparisons(j.cmps) /\ Keyed(j.cmps, t) /\ Unnulled(j.cmps, t)
      /\ \A i \in 1 .. n : t[i].row \in Nat
      /\ \A i, m \in 1 .. n : i < m => t[i].row < t[m].row
  BY <1>1, <1>2 DEF JoinFits, TableOK
<1>4. PICK lo \in 0 .. n, hi \in 0 .. n, At \in [1 .. n -> 1 .. n] : Finds(j.cmps, t, n, Key(k, c), lo, hi, At)
  BY <1>2, <1>3, ProbeFindsRange
<1>5. /\ ProbeRange(j.cmps, e, Key(k, c)) = <<lo, hi>> /\ lo <= hi
      /\ DOMAIN e = 1 .. n /\ Len(e) = n
      /\ \A i \in 1 .. n : e[i].row = t[At[i]].row
      /\ \A r \in 1 .. n : S(r) => \E i \in lo + 1 .. hi : At[i] = r
      /\ \A i \in lo + 1 .. hi : S(At[i])
      /\ \A i, m \in lo + 1 .. hi : i < m => At[i] < At[m]
      /\ \A i, m \in lo + 1 .. hi : e[i].key = e[m].key
  BY <1>4 DEF Finds, Prepared
<1>6. Lo(k, c) = lo /\ Hi(k, c) = hi
  BY <1>5 DEF Lo, Hi
<1>7. /\ \A i \in 1 .. n : S(i) => t[i].row \in Candidates(k, c)
      /\ \A r \in Candidates(k, c) : \E i \in 1 .. n : t[i].row = r /\ S(i)
  BY <1>2, TableHasCandidates
<1>. HIDE DEF S, e, t, j
<1>8. \A i \in lo + 1 .. hi : i \in 1 .. n /\ At[i] \in 1 .. n
  BY <1>4
<1>9. \A i \in lo + 1 .. hi : RowAt(k, i) = t[At[i]].row
  BY <1>5, <1>8 DEF RowAt, e
<1>10. ASSUME NEW i \in lo + 1 .. hi PROVE RowAt(k, i) \in Candidates(k, c) /\ RowAt(k, i) \in Nat
  <2>1. At[i] \in 1 .. n /\ S(At[i]) /\ RowAt(k, i) = t[At[i]].row
    BY <1>5, <1>8, <1>9
  <2>. QED
    BY <1>3, <1>7, <2>1
<1>11. ASSUME NEW r \in Candidates(k, c) PROVE \E i \in lo + 1 .. hi : RowAt(k, i) = r
  <2>1. PICK m \in 1 .. n : t[m].row = r /\ S(m)
    BY <1>7
  <2>2. PICK i \in lo + 1 .. hi : At[i] = m
    BY <1>5, <2>1
  <2>. QED
    BY <1>9, <2>1, <2>2
<1>12. \A i, m \in lo + 1 .. hi : i < m => RowAt(k, i) < RowAt(k, m)
  BY <1>3, <1>5, <1>8, <1>9
<1>13. /\ \A i \in lo + 1 .. hi : i \in DOMAIN Prepared(k)
       /\ \A i, m \in lo + 1 .. hi : Prepared(k)[i].key = Prepared(k)[m].key
       /\ DOMAIN Prepared(k) = 1 .. n /\ Len(Prepared(k)) = n
  BY <1>5, <1>8 DEF e
<1>. QED
  BY <1>4, <1>5, <1>6, <1>10, <1>11, <1>12, <1>13 DEF RangeOK

-----------------------------------------------------------------------------
(* The open loops of a row.                                                *)

Looping(k) == plan.many /\ Joins[k].kind # "fold"
Frame == [i : Nat, end : Nat, any : BOOLEAN, row : Seq(Nat)]

\* The rows joined before join k.
Prefix(k) == SubSeq(Picks, 1, k - 1)

\* An open loop, join k after P: its row is one that extends P, its flag says
\* whether there is one, and a loop over entries stands at it, one place on.
FrameOK(k, f, P) ==
  /\ f \in Frame
  /\ Hit(k, f) <=> f.row # <<>>
  /\ f.row \in Extensions(k, P)
  /\ IF Looping(k) /\ f.row # <<>>
     THEN /\ f.i \in Lo(k, Before(P)) + 1 .. Hi(k, Before(P)) /\ f.end = Hi(k, Before(P))
          /\ f.row = <<RowAt(k, f.i)>>
     ELSE f.i = 0 /\ f.end = 0

\* The loop whose block runs: `any' says whether one of the rows it has read
\* matches; a null-extension has the flag and an empty range.
LoopOK(k, f, P) ==
  LET c == Before(P) IN
  \/ /\ f.end = Hi(k, c) /\ f.i \in Lo(k, c) .. Hi(k, c)
     /\ f.any <=> \E i \in Lo(k, c) + 1 .. f.i : Truth(k, c, <<RowAt(k, i)>>)
  \/ f.i = 0 /\ f.end = 0 /\ f.any /\ Joins[k].kind = "left" /\ Matches(k, P) = {}

\* The fold whose block runs has the rows it has read that match, in order.
FoldOK(k, f, P) ==
  LET c == Before(P) IN
  /\ f.end = Hi(k, c) /\ f.i \in Lo(k, c) .. Hi(k, c)
  /\ f.any <=> f.row # <<>>
  /\ \A m, n \in DOMAIN f.row : m < n => f.row[m] < f.row[n]
  /\ \A m \in DOMAIN f.row : \E i \in Lo(k, c) + 1 .. f.i :
       f.row[m] = RowAt(k, i) /\ Truth(k, c, <<RowAt(k, i)>>)
  /\ \A i \in Lo(k, c) + 1 .. f.i : Truth(k, c, <<RowAt(k, i)>>) =>
       \E m \in DOMAIN f.row : f.row[m] = RowAt(k, i)

\* Over one input row of one query nothing of this changes but the frames.
LEMMA RowStandsStill ==
  ASSUME UNCHANGED <<plan, tables, input>>
  PROVE  /\ N' = N
         /\ \A k, c : Lo(k, c)' = Lo(k, c) /\ Hi(k, c)' = Hi(k, c)
         /\ \A k, i : RowAt(k, i)' = RowAt(k, i)
         /\ \A k : Looping(k)' <=> Looping(k)
         /\ \A k, f : Hit(k, f)' <=> Hit(k, f)
         /\ \A k, P : Extensions(k, P)' = Extensions(k, P) /\ Matches(k, P)' = Matches(k, P)
         /\ \A P : Before(P)' = Before(P)
         /\ \A k, c, x : Truth(k, c, x)' = Truth(k, c, x)
<1>1. Joins' = Joins
  BY DEF Joins
<1>2. N' = N
  BY <1>1 DEF N
<1>3. \A k : Served(k)' = Served(k)
  BY <1>1 DEF Served
<1>4. \A k : Prepared(k)' = Prepared(k)
  BY <1>1 DEF Prepared
<1>5. \A k, c : Key(k, c)' = Key(k, c)
  BY <1>1 DEF Key
<1>6. \A k, c : Lo(k, c)' = Lo(k, c) /\ Hi(k, c)' = Hi(k, c)
  BY <1>1, <1>4, <1>5 DEF Lo, Hi
<1>7. \A k, i : RowAt(k, i)' = RowAt(k, i)
  BY <1>4 DEF RowAt
<1>8. \A k : Looping(k)' <=> Looping(k)
  BY <1>1 DEF Looping
<1>9. \A k, f : Hit(k, f)' <=> Hit(k, f)
  BY <1>1 DEF Hit
<1>10. \A k, x : CellOf(k, x)' = CellOf(k, x)
  BY <1>3 DEF CellOf
<1>11. \A P : Before(P)' = Before(P)
  BY <1>10 DEF Before
<1>12. \A k, x : Lane(k, x)' = Lane(k, x)
  BY <1>3 DEF Lane
<1>13. \A k, c, x : Truth(k, c, x)' = Truth(k, c, x)
  BY <1>1, <1>12 DEF Truth
<1>14. \A k, P : Matches(k, P)' = Matches(k, P)
  BY <1>1, <1>3, <1>5, <1>11, <1>13 DEF Matches
<1>15. \A k, P : Extensions(k, P)' = Extensions(k, P)
  BY <1>1, <1>14 DEF Extensions
<1>. QED
  BY <1>2, <1>6, <1>7, <1>8, <1>9, <1>11, <1>13, <1>14, <1>15

\* What reaches a join reached those before it.
LEMMA ReachedBefore ==
  ASSUME NEW k \in Nat, NEW p \in Reach(k), NEW m \in 0 .. k
  PROVE  SubSeq(p, 1, m) \in Reach(m)
<1>. DEFINE q == SubSeq(p, 1, m)
<1>1. p \in Seq(Seq(Nat)) /\ Len(p) = k /\ \A j \in 1 .. k : p[j] \in Extensions(j, SubSeq(p, 1, j - 1))
  BY DEF Reach, PickSeqs
<1>2. q \in Seq(Seq(Nat)) /\ Len(q) = m /\ \A i \in 1 .. m : q[i] = p[i]
  BY <1>1, Prefixes
<1>. HIDE DEF q
<1>3. ASSUME NEW j \in 1 .. m PROVE q[j] \in Extensions(j, SubSeq(q, 1, j - 1))
  <2>1. j \in 1 .. k /\ j - 1 \in 0 .. Len(q) /\ j - 1 <= Len(p) /\ \A i \in 1 .. j - 1 : i \in 1 .. m
    BY <1>1, <1>2
  <2>2. SubSeq(q, 1, j - 1) = SubSeq(p, 1, j - 1)
    BY <1>1, <1>2, <2>1, SamePrefix
  <2>. QED
    BY <1>1, <1>2, <2>1, <2>2
<1>. QED
  BY <1>2, <1>3 DEF Reach, PickSeqs, q

\* What join k's keys read of a row that reaches it can be probed with.
LEMMA ReachedCells ==
  ASSUME Built, input \in Cells, NEW k \in 1 .. N, NEW P \in Reach(k - 1)
  PROVE  RangeOK(k, Before(P))
<1>. DEFINE c == Before(P)
            cmps == Joins[k].cmps
<1>1. N \in Nat /\ DOMAIN Joins = 1 .. N /\ plan \in Plans
  BY BuiltJoins DEF Built, BuildInv
<1>2. /\ P \in Seq(Seq(Nat)) /\ Len(P) = k - 1
      /\ \A j \in 1 .. k - 1 : P[j] \in Extensions(j, SubSeq(P, 1, j - 1))
  BY DEF Reach, PickSeqs
<1>3. cmps = <<>> \/ c \in Cells
  <2>1. CASE k = 1
    <3>1. P = <<>>
      BY <1>2, <2>1, EmptySeq
    <3>. QED
      BY <3>1 DEF Before
  <2>2. CASE k # 1 /\ cmps # <<>>
    <3>. DEFINE h == k - 1
    <3>1. h \in 1 .. N /\ h < N /\ h + 1 = k /\ P # <<>> /\ P[h] \in Extensions(h, SubSeq(P, 1, h - 1))
      BY <1>1, <1>2, <2>2
    <3>2. Plain(Joins[h].build.how) /\ \A r \in DOMAIN Joins[h].table : Joins[h].table[r].val \in Cells
      BY <1>1, <2>2, <3>1, PlansAssumption DEF Joins, N
    <3>3. c = CellOf(h, P[h]) /\ Served(h) = Joins[h].table
      BY <1>2, <3>1, <3>2 DEF Before, Served
    <3>. HIDE DEF h
    <3>4. P[h] # <<>> => P[h][1] \in DOMAIN Served(h)
      <4>. DEFINE M == Matches(h, SubSeq(P, 1, h - 1))
      <4>1. M \subseteq Nat /\ IsFiniteSet(M)
        BY <3>1, ExtensionsType
      <4>2. M \subseteq DOMAIN Served(h)
        BY DEF Matches
      <4>. HIDE DEF M
      <4>3. Sorting(M) # <<>> => Sorting(M)[1] \in M
        <5>1. PICK n \in Nat : DOMAIN Sorting(M) = 1 .. n /\ \A i \in 1 .. n : Sorting(M)[i] \in M
          BY <4>1, SortingSorts
        <5>2. n = 0 => Sorting(M) = <<>>
          BY <5>1 DEF Sorting
        <5>. QED
          BY <5>1, <5>2
      <4>4. P[h] \in {Sorting(M), <<>>} \union { <<r>> : r \in M }
        BY <3>1 DEF Extensions, M
      <4>5. P[h] # <<>> => P[h][1] \in M
        BY <4>3, <4>4
      <4>. QED
        BY <4>2, <4>5
    <3>. QED
      BY <3>2, <3>3, <3>4 DEF CellOf, Cells
  <2>. QED
    BY <2>1, <2>2
<1>. HIDE DEF c
<1>4. cmps = <<>> => DOMAIN cmps = {}
  OBVIOUS
<1>5. KeyCells(cmps, Key(k, c))
  BY <1>3, <1>4 DEF KeyCells, Key
<1>. QED
  BY <1>5, ProbeFindsCandidates DEF c

\* The open loops, outermost first.
FramesOK ==
  /\ frames \in Seq(Frame) /\ Len(frames) <= N
  /\ \A k \in 1 .. Len(frames) : FrameOK(k, frames[k], Prefix(k))

\* The rows joined, one for each frame.
LEMMA PicksOfFrames ==
  ASSUME frames \in Seq(Frame)
  PROVE  /\ Picks \in PickSeqs /\ Len(Picks) = Len(frames) /\ Len(frames) \in Nat
         /\ \A k \in 1 .. Len(frames) : Picks[k] = Pick(k, frames[k])
<1>1. DOMAIN frames = 1 .. Len(frames) /\ Len(frames) \in Nat /\ \A k \in 1 .. Len(frames) : frames[k] \in Frame
  BY ElementOfSeq, LenProperties
<1>2. \A k \in 1 .. Len(frames) : Pick(k, frames[k]) \in Seq(Nat)
  BY <1>1 DEF Pick, Frame
<1>3. Picks = [k \in 1 .. Len(frames) |-> Pick(k, frames[k])]
  BY <1>1 DEF Picks
<1>. QED
  BY <1>1, <1>2, <1>3 DEF PickSeqs

\* They are rows that reach the next join.
LEMMA PicksReach ==
  ASSUME FramesOK
  PROVE  /\ Picks \in Reach(Len(frames))
         /\ \A k \in 1 .. Len(frames) : Picks[k] = frames[k].row
         /\ \A k \in 1 .. K : Prefix(k) \in Reach(k - 1)
         /\ Prefix(K) = Picks
<1>1. /\ Picks \in PickSeqs /\ Len(Picks) = Len(frames) /\ Len(frames) \in Nat
      /\ \A k \in 1 .. Len(frames) : Picks[k] = Pick(k, frames[k])
  BY PicksOfFrames DEF FramesOK
<1>2. \A k \in 1 .. Len(frames) : Picks[k] = frames[k].row
  <2>. TAKE k \in 1 .. Len(frames)
  <2>1. Hit(k, frames[k]) <=> frames[k].row # <<>>
    BY DEF FramesOK, FrameOK
  <2>. QED
    BY <1>1, <2>1 DEF Pick
<1>3. Picks \in Reach(Len(frames))
  <2>1. \A k \in 1 .. Len(frames) : Picks[k] \in Extensions(k, SubSeq(Picks, 1, k - 1))
    BY <1>2 DEF FramesOK, FrameOK, Prefix
  <2>. QED
    BY <1>1, <2>1 DEF Reach
<1>4. \A k \in 1 .. K : Prefix(k) \in Reach(k - 1)
  <2>. TAKE k \in 1 .. K
  <2>1. k - 1 \in 0 .. Len(frames)
    BY <1>1 DEF K
  <2>. QED
    BY <1>1, <1>3, <2>1, ReachedBefore DEF Prefix
<1>5. Prefix(K) = Picks
  <2>1. K - 1 = Len(Picks)
    BY <1>1 DEF K
  <2>. QED
    BY <1>1, <2>1, WholePrefix DEF Prefix, PickSeqs
<1>. QED
  BY <1>2, <1>3, <1>4, <1>5

\* A loop opens.
LEMMA OpeningKeepsFrames ==
  ASSUME FramesOK, K <= N, NEW f, FrameOK(K, f, Picks), frames' = Append(frames, f),
         UNCHANGED <<plan, tables, input>>
  PROVE  /\ FramesOK' /\ K' = K + 1 /\ Picks' \in PickSeqs
         /\ Picks' = Append(Picks, f.row)
         /\ \A k \in 1 .. K : Prefix(k)' = Prefix(k)
<1>1. f \in Frame /\ frames \in Seq(Frame)
  BY DEF FramesOK, FrameOK
<1>2. /\ frames' \in Seq(Frame) /\ Len(frames') = Len(frames) + 1 /\ Len(frames) \in Nat
      /\ frames'[Len(frames) + 1] = f /\ \A k \in 1 .. Len(frames) : frames'[k] = frames[k]
  BY <1>1, AppendProperties, LenProperties
<1>3. /\ Picks \in PickSeqs /\ Len(Picks) = Len(frames)
      /\ \A k \in 1 .. Len(frames) : Picks[k] = Pick(k, frames[k])
  BY <1>1, PicksOfFrames
<1>4. frames' \in Seq(Frame)'
  BY <1>2
<1>5. \A k, x : Pick(k, x)' = Pick(k, x)
  BY RowStandsStill DEF Pick
<1>6. /\ Picks' \in PickSeqs /\ Len(Picks') = Len(frames')
      /\ \A k \in 1 .. Len(frames') : Picks'[k] = Pick(k, frames'[k])
  <2>1. DOMAIN frames' = 1 .. Len(frames') /\ \A k \in 1 .. Len(frames') : frames'[k] \in Frame
    BY <1>2, ElementOfSeq, LenProperties
  <2>2. \A k \in 1 .. Len(frames') : Pick(k, frames'[k]) \in Seq(Nat)
    BY <2>1 DEF Pick, Frame
  <2>3. Picks' = [k \in 1 .. Len(frames') |-> Pick(k, frames'[k])]
    BY <1>5, <2>1 DEF Picks
  <2>. QED
    BY <1>2, <2>2, <2>3 DEF PickSeqs
<1>7. \A k \in 1 .. K : Prefix(k)' = Prefix(k)
  <2>. TAKE k \in 1 .. K
  <2>1. k - 1 \in 0 .. Len(Picks') /\ k - 1 <= Len(Picks) /\ \A i \in 1 .. k - 1 : i \in 1 .. Len(frames) /\ i \in 1 .. Len(frames')
    BY <1>2, <1>3, <1>6 DEF K
  <2>2. \A i \in 1 .. k - 1 : Picks'[i] = Picks[i]
    BY <1>2, <1>3, <1>6, <2>1
  <2>3. SubSeq(Picks', 1, k - 1) = SubSeq(Picks, 1, k - 1)
    BY <1>3, <1>6, <2>1, <2>2, SamePrefix DEF PickSeqs
  <2>. QED
    BY <2>3 DEF Prefix
<1>8. Picks' = Append(Picks, f.row)
  <2>1. Pick(K, f) = f.row /\ f.row \in Seq(Nat)
    BY <1>1 DEF FrameOK, Pick, Frame
  <2>. DEFINE a == Append(Picks, f.row)
  <2>2. /\ a \in Seq(Seq(Nat)) /\ Len(a) = Len(Picks) + 1 /\ a[Len(Picks) + 1] = f.row
        /\ \A i \in 1 .. Len(Picks) : a[i] = Picks[i]
    BY <1>3, <2>1, AppendProperties DEF PickSeqs
  <2>. HIDE DEF a
  <2>3. Len(a) = Len(Picks') /\ \A i \in 1 .. Len(Picks') : a[i] = Picks'[i]
    BY <1>2, <1>3, <1>6, <2>1, <2>2 DEF K
  <2>4. a = Picks'
    BY <1>6, <2>2, <2>3, SameSequence DEF PickSeqs
  <2>. QED
    BY <2>4 DEF a
<1>9. \A k, x, P : FrameOK(k, x, P)' <=> FrameOK(k, x, P)
  BY RowStandsStill DEF FrameOK, Frame
<1>10. \A k \in 1 .. Len(frames') : FrameOK(k, frames'[k], Prefix(k)')
  <2>. TAKE k \in 1 .. Len(frames')
  <2>1. Prefix(k)' = Prefix(k)
    BY <1>2, <1>7 DEF K
  <2>2. CASE k \in 1 .. Len(frames)
    BY <1>2, <2>1, <2>2 DEF FramesOK
  <2>3. CASE k = K
    <3>1. Prefix(k) = Picks
      BY <2>3, PicksReach
    <3>. QED
      BY <1>2, <2>1, <2>3, <3>1 DEF K
  <2>. QED
    BY <1>2, <2>2, <2>3 DEF K
<1>11. FramesOK'
  <2>1. N' = N /\ Len(frames') <= N
    BY <1>2, RowStandsStill DEF K
  <2>2. \A k \in 1 .. Len(frames') : FrameOK(k, frames[k], Prefix(k))'
    BY <1>9, <1>10
  <2>. QED
    BY <1>2, <2>1, <2>2 DEF FramesOK, Frame
<1>. QED
  BY <1>2, <1>6, <1>7, <1>8, <1>11 DEF K

\* The innermost loop leaves the live stack.
LEMMA ClosingKeepsFrames ==
  ASSUME FramesOK, N \in Nat, frames # <<>>, frames' = SubSeq(frames, 1, Len(frames) - 1),
         UNCHANGED <<plan, tables, input>>
  PROVE  /\ FramesOK' /\ Len(frames) \in Nat \ {0} /\ K' = Len(frames)
         /\ Picks' = Prefix(Len(frames))
         /\ \A k \in 1 .. Len(frames) : Prefix(k)' = Prefix(k)
<1>. DEFINE n == Len(frames)
<1>1. frames \in Seq(Frame) /\ n \in Nat \ {0}
  <2>1. frames \in Seq(Frame)
    BY DEF FramesOK
  <2>. QED
    BY <2>1, LenProperties, EmptySeq
<1>2. frames' \in Seq(Frame) /\ Len(frames') = n - 1 /\ \A k \in 1 .. n - 1 : frames'[k] = frames[k]
  <2>1. n - 1 \in 0 .. n
    BY <1>1
  <2>. QED
    BY <1>1, <2>1, Prefixes
<1>3. /\ Picks \in PickSeqs /\ Len(Picks) = n
      /\ \A k \in 1 .. n : Picks[k] = Pick(k, frames[k])
  BY <1>1, PicksOfFrames
<1>4. \A k, x : Pick(k, x)' = Pick(k, x)
  BY RowStandsStill DEF Pick
<1>5. /\ Picks' \in PickSeqs /\ Len(Picks') = n - 1
      /\ \A k \in 1 .. n - 1 : Picks'[k] = Pick(k, frames'[k])
  <2>1. DOMAIN frames' = 1 .. n - 1 /\ \A k \in 1 .. n - 1 : frames'[k] \in Frame
    BY <1>2, ElementOfSeq, LenProperties
  <2>2. \A k \in 1 .. n - 1 : Pick(k, frames'[k]) \in Seq(Nat)
    BY <2>1 DEF Pick, Frame
  <2>3. Picks' = [k \in 1 .. n - 1 |-> Pick(k, frames'[k])]
    BY <1>4, <2>1 DEF Picks
  <2>. QED
    BY <1>1, <2>2, <2>3 DEF PickSeqs
<1>6. \A k \in 1 .. n : Prefix(k)' = Prefix(k)
  <2>. TAKE k \in 1 .. n
  <2>1. k - 1 \in 0 .. Len(Picks') /\ k - 1 <= Len(Picks) /\ \A i \in 1 .. k - 1 : i \in 1 .. n - 1 /\ i \in 1 .. n
    BY <1>1, <1>3, <1>5
  <2>2. \A i \in 1 .. k - 1 : Picks'[i] = Picks[i]
    BY <1>2, <1>3, <1>5, <2>1
  <2>3. SubSeq(Picks', 1, k - 1) = SubSeq(Picks, 1, k - 1)
    BY <1>3, <1>5, <2>1, <2>2, SamePrefix DEF PickSeqs
  <2>. QED
    BY <2>3 DEF Prefix
<1>7. Picks' = Prefix(n)
  <2>1. SubSeq(Picks', 1, Len(Picks')) = Picks'
    BY <1>5, WholePrefix DEF PickSeqs
  <2>2. n \in 1 .. n
    BY <1>1
  <2>. QED
    BY <1>5, <1>6, <2>1, <2>2 DEF Prefix
<1>8. \A k, x, P : FrameOK(k, x, P)' <=> FrameOK(k, x, P)
  BY RowStandsStill DEF FrameOK, Frame
<1>9. \A k \in 1 .. Len(frames') : FrameOK(k, frames[k], Prefix(k))'
  <2>. TAKE k \in 1 .. Len(frames')
  <2>1. k \in 1 .. n /\ k \in 1 .. n - 1
    BY <1>1, <1>2
  <2>2. FrameOK(k, frames'[k], Prefix(k)')
    BY <1>2, <1>6, <2>1 DEF FramesOK
  <2>. QED
    BY <1>8, <2>2
<1>10. FramesOK'
  <2>1. N' = N /\ Len(frames') <= N
    <3>1. Len(frames) <= N /\ N \in Nat
      BY DEF FramesOK
    <3>. QED
      BY <1>1, <1>2, <3>1, RowStandsStill
  <2>. QED
    BY <1>2, <1>9, <2>1 DEF FramesOK, Frame
<1>11. K' = n
  BY <1>1, <1>2 DEF K
<1>. QED
  BY <1>1, <1>6, <1>7, <1>10, <1>11

\* Nothing opens, nothing closes.
LEMMA OthersKeepFrames ==
  ASSUME FramesOK, UNCHANGED <<plan, tables, input, frames>>
  PROVE  FramesOK' /\ K' = K /\ Picks' = Picks /\ \A k : Prefix(k)' = Prefix(k)
<1>1. \A k, x : Pick(k, x)' = Pick(k, x)
  BY RowStandsStill DEF Pick
<1>2. Picks' = Picks
  BY <1>1 DEF Picks
<1>3. \A k : Prefix(k)' = Prefix(k)
  BY <1>2 DEF Prefix
<1>4. \A k, x, P : FrameOK(k, x, P)' <=> FrameOK(k, x, P)
  BY RowStandsStill DEF FrameOK, Frame
<1>5. \A k \in 1 .. Len(frames) : FrameOK(k, frames[k], Prefix(k))'
  BY <1>3, <1>4 DEF FramesOK
<1>. QED
  BY <1>2, <1>3, <1>5, RowStandsStill DEF FramesOK, Frame, K

\* Nor does what is said of a loop change.
LEMMA LoopsStandStill ==
  ASSUME UNCHANGED <<plan, tables, input>>
  PROVE  \A k, f, P : (LoopOK(k, f, P)' <=> LoopOK(k, f, P)) /\ (FoldOK(k, f, P)' <=> FoldOK(k, f, P))
<1>1. Joins' = Joins
  BY DEF Joins
<1>2. \A k, f, P : LoopOK(k, f, P)' <=> LoopOK(k, f, P)
  BY <1>1, RowStandsStill DEF LoopOK
<1>3. \A k, f, P : FoldOK(k, f, P)' <=> FoldOK(k, f, P)
  BY <1>1, RowStandsStill DEF FoldOK
<1>. QED
  BY <1>2, <1>3

\* What the next join's keys read is what the rows joined so far say.
LEMMA OuterIsBefore ==
  ASSUME FramesOK
  PROVE  Outer = Before(Picks)
<1>. DEFINE n == Len(frames)
<1>1. /\ Picks \in PickSeqs /\ Len(Picks) = n /\ n \in Nat
      /\ \A k \in 1 .. n : Picks[k] = frames[k].row
  BY PicksOfFrames, PicksReach DEF FramesOK
<1>2. CASE frames = <<>>
  <2>1. Picks = <<>>
    BY <1>1, <1>2, EmptySeq DEF PickSeqs
  <2>. QED
    BY <1>2, <2>1 DEF Outer, Before
<1>3. CASE frames # <<>>
  <2>1. n # 0 /\ Picks # <<>>
    <3>1. frames \in Seq(Frame)
      BY DEF FramesOK
    <3>2. n # 0
      BY <1>3, <3>1, EmptySeq
    <3>. QED
      BY <1>1, <3>2
  <2>2. n \in 1 .. n /\ Picks[n] = frames[n].row
    BY <1>1, <2>1
  <2>3. Hit(n, frames[n]) <=> frames[n].row # <<>>
    BY <2>2 DEF FramesOK, FrameOK
  <2>4. Outer = Cell(n, frames[n]) /\ Before(Picks) = CellOf(n, frames[n].row)
    BY <1>1, <1>3, <2>1, <2>2 DEF Outer, Before
  <2>. HIDE DEF n
  <2>. QED
    BY <2>3, <2>4 DEF Cell, CellOf, Lane
<1>. QED
  BY <1>2, <1>3

\* The blocks of the code.
Blocks == {"prepare", "refused", "ready", "entry", "header", "body", "after", "done",
           "foldheader", "foldbody", "over"}

\* What the row runs over: the tables, prepared once; no map has a key twice.
StaticOK ==
  /\ BuildInv /\ input \in Cells /\ pc \in Blocks
  /\ pc # "prepare" => verdict = "built" /\ statics = [k \in 1 .. N |-> Prepared(k)]
  /\ pc \notin {"prepare", "refused"} /\ ~ plan.many =>
       \A k \in 1 .. N : Joins[k].kind # "fold" => ~ HasDuplicate(Prepared(k))
  /\ pc \in {"prepare", "refused", "ready"} => frames = <<>>

\* The loop whose block runs.
CurOK ==
  /\ cur \in Frame
  /\ pc \in {"header", "body", "after"} => K <= N /\ Looping(K) /\ LoopOK(K, cur, Picks)
  /\ pc = "body" => cur.i < cur.end
  /\ pc = "after" => cur.i >= cur.end
  /\ pc \in {"foldheader", "foldbody"} => K <= N /\ Joins[K].kind = "fold" /\ FoldOK(K, cur, Picks)
  /\ pc = "foldbody" => cur.i < cur.end
  /\ pc = "done" => plan.many /\ K <= N

RowInv == StaticOK /\ FramesOK /\ CurOK

\* A block of a row.
InRow == RowInv /\ pc \in Blocks \ {"prepare", "refused", "ready"}

\* The row before the next join, and the range of its probe.
LEMMA RunningRow ==
  ASSUME InRow
  PROVE  /\ Built /\ N \in Nat \ {0} /\ DOMAIN Joins = 1 .. N
         /\ \A k \in 1 .. N : statics[k] = Prepared(k) /\ Joins[k].kind \in {"inner", "left", "fold"}
         /\ Outer = Before(Picks) /\ K \in Nat \ {0} /\ K = Len(frames) + 1 /\ Len(frames) \in Nat
         /\ \A k \in 1 .. K : k <= N => RangeOK(k, Before(Prefix(k)))
         /\ Prefix(K) = Picks /\ Picks \in Reach(Len(frames))
<1>1. Built /\ input \in Cells /\ statics = [k \in 1 .. N |-> Prepared(k)]
  BY DEF InRow, RowInv, StaticOK, Built
<1>2. N \in Nat \ {0} /\ DOMAIN Joins = 1 .. N /\ \A k \in 1 .. N : JoinFits(Joins[k])
  BY <1>1, BuiltJoins
<1>3. FramesOK /\ Len(frames) \in Nat
  BY PicksOfFrames DEF InRow, RowInv, FramesOK
<1>4. Outer = Before(Picks)
  BY <1>3, OuterIsBefore
<1>5. Picks \in Reach(Len(frames)) /\ Prefix(K) = Picks /\ \A k \in 1 .. K : Prefix(k) \in Reach(k - 1)
  BY <1>3, PicksReach
<1>6. ASSUME NEW k \in 1 .. K, k <= N PROVE RangeOK(k, Before(Prefix(k)))
  <2>1. k \in 1 .. N
    BY <1>2, <1>3, <1>6 DEF K
  <2>. QED
    BY <1>1, <1>5, <2>1, ReachedCells
<1>. QED
  BY <1>1, <1>2, <1>3, <1>4, <1>5, <1>6 DEF JoinFits, K

\* What a step of a row leaves alone.
RowStep == /\ UNCHANGED <<buildVars, input, statics>>
           /\ pc' \in Blocks \ {"prepare", "refused", "ready"}

\* A step of the row code leaves the build, the input row and the prepared tables alone.
LEMMA RowStepKeepsTables ==
  ASSUME InRow, RowStep
  PROVE  StaticOK' /\ UNCHANGED <<plan, tables, input>> /\ N' = N
<1>1. UNCHANGED <<plan, tables, at, groups, verdict, input, statics>>
  BY DEF RowStep, buildVars
<1>2. Joins' = Joins /\ N' = N
  BY <1>1 DEF Joins, N
<1>3. \A k : Prepared(k)' = Prepared(k)
  BY <1>1, <1>2 DEF Prepared
<1>4. BuildInv'
  BY <1>1, OthersKeepBuild DEF InRow, RowInv, StaticOK, buildVars
<1>5. input' \in Cells' /\ pc' \in Blocks /\ pc' \notin {"prepare", "refused", "ready"}
  BY <1>1 DEF InRow, RowInv, StaticOK, RowStep, Cells
<1>6. verdict' = "built" /\ statics' = [k \in 1 .. N |-> Prepared(k)]
  BY <1>1 DEF InRow, RowInv, StaticOK
<1>7. ~ plan.many => \A k \in 1 .. N : Joins[k].kind # "fold" => ~ HasDuplicate(Prepared(k))
  BY DEF InRow, RowInv, StaticOK
<1>8. statics' = [k \in 1 .. N' |-> Prepared(k)'] 
  BY <1>2, <1>3, <1>6
<1>9. ~ plan'.many => \A k \in 1 .. N' : Joins'[k].kind # "fold" => ~ HasDuplicate(Prepared(k)')
  BY <1>1, <1>2, <1>3, <1>7
<1>. QED
  BY <1>1, <1>2, <1>4, <1>5, <1>6, <1>8, <1>9 DEF StaticOK, Blocks

\* Matches among the entries of a range.
LEMMA RangeHasMatches ==
  ASSUME NEW k, NEW P, RangeOK(k, Before(P))
  PROVE  LET c == Before(P) IN
         /\ \A i \in Lo(k, c) + 1 .. Hi(k, c) :
              RowAt(k, i) \in Matches(k, P) <=> Truth(k, c, <<RowAt(k, i)>>)
         /\ \A r \in Matches(k, P) : \E i \in Lo(k, c) + 1 .. Hi(k, c) :
              RowAt(k, i) = r /\ Truth(k, c, <<RowAt(k, i)>>)
BY MatchesAreCandidates DEF RangeOK

\* A block that opens no loop and closes none.
LEMMA StayingKeeps ==
  ASSUME InRow, RowStep, UNCHANGED frames
  PROVE  /\ StaticOK' /\ FramesOK' /\ K' = K /\ Picks' = Picks /\ N' = N
         /\ LoopOK(K, cur, Picks)' <=> LoopOK(K, cur', Picks)
         /\ FoldOK(K, cur, Picks)' <=> FoldOK(K, cur', Picks)
         /\ Looping(K)' <=> Looping(K)
         /\ Joins' = Joins /\ plan' = plan
<1>1. StaticOK' /\ UNCHANGED <<plan, tables, input>> /\ N' = N
  BY RowStepKeepsTables
<1>2. FramesOK' /\ K' = K /\ Picks' = Picks
  BY <1>1, OthersKeepFrames DEF InRow, RowInv
<1>3. \A k, f, P : (LoopOK(k, f, P)' <=> LoopOK(k, f, P)) /\ (FoldOK(k, f, P)' <=> FoldOK(k, f, P))
  BY <1>1, LoopsStandStill
<1>4. (LoopOK(K, cur, Picks)' <=> LoopOK(K, cur', Picks)) /\ (FoldOK(K, cur, Picks)' <=> FoldOK(K, cur', Picks))
  BY <1>2, <1>3
<1>5. Looping(K)' <=> Looping(K)
  BY <1>1, <1>2, RowStandsStill
<1>. QED
  BY <1>1, <1>2, <1>4, <1>5 DEF Joins

\* Entry opens the range of the join's key: the loop, or the fold, begins at its start.
LEMMA EntryKeeps ==
  ASSUME RowInv, Entry
  PROVE  RowInv' /\ InRow /\ RowStep
<1>1. InRow /\ RowStep
  BY DEF Entry, Probing, InRow, RowInv, StaticOK, Blocks, RowStep
<1>. DEFINE c == Before(Picks)
<1>2. K <= N /\ K \in 1 .. N /\ Outer = c /\ RangeOK(K, c) /\ statics[K] = Prepared(K)
  BY <1>1, RunningRow DEF Entry, Probing
<1>3. ProbeOf(K)[1] = Lo(K, c) /\ ProbeOf(K)[2] = Hi(K, c)
  BY <1>2 DEF ProbeOf, Lo, Hi
<1>4. /\ cur' = [i |-> Lo(K, c), end |-> Hi(K, c), any |-> FALSE, row |-> <<>>]
      /\ pc' = IF Joins[K].kind = "fold" THEN "foldheader" ELSE "header"
      /\ plan.many \/ Joins[K].kind = "fold"
  BY <1>3 DEF Entry, NoFrame
<1>5. Lo(K, c) \in Nat /\ Hi(K, c) \in Nat /\ Lo(K, c) <= Hi(K, c)
  BY <1>2 DEF RangeOK
<1>6. cur' \in Frame
  BY <1>4, <1>5 DEF Frame
<1>7. LoopOK(K, cur', Picks) /\ FoldOK(K, cur', Picks)
  <2>1. Lo(K, c) + 1 .. Lo(K, c) = {} /\ Lo(K, c) \in Lo(K, c) .. Hi(K, c)
    BY <1>5
  <2>2. DOMAIN cur'.row = {}
    BY <1>4
  <2>3. /\ cur'.i = Lo(K, c) /\ cur'.end = Hi(K, c) /\ cur'.any = FALSE /\ cur'.row = <<>>
    BY <1>4
  <2>. QED
    BY <2>1, <2>2, <2>3 DEF LoopOK, FoldOK
<1>8. UNCHANGED frames
  BY DEF Entry
<1>9. CurOK'
  BY <1>1, <1>2, <1>4, <1>6, <1>7, <1>8, StayingKeeps DEF CurOK, Frame, Looping
<1>. QED
  BY <1>1, <1>8, <1>9, StayingKeeps DEF RowInv

\* Header leaves the loop for `after' only when its range is gone through.
LEMMA HeaderKeeps ==
  ASSUME RowInv, Header
  PROVE  RowInv' /\ InRow /\ RowStep
<1>1. InRow /\ RowStep
  BY DEF Header, HeaderTest, InRow, RowInv, StaticOK, Blocks, RowStep
<1>2. UNCHANGED frames /\ cur' = cur /\ pc = "header" /\ pc' = IF cur.i < cur.end THEN "body" ELSE "after"
  BY DEF Header, HeaderTest
<1>3. K <= N /\ Looping(K) /\ LoopOK(K, cur, Picks) /\ cur \in Frame
  BY <1>2 DEF RowInv, CurOK
<1>4. cur.i \in Nat /\ cur.end \in Nat
  BY <1>3 DEF Frame
<1>5. CurOK'
  BY <1>1, <1>2, <1>3, <1>4, StayingKeeps DEF CurOK, Frame
<1>. QED
  BY <1>1, <1>2, <1>5, StayingKeeps DEF RowInv

\* A loop that opens: what is left to show is its frame.
LEMMA OpenKeeps ==
  ASSUME InRow, RowStep, NEW f, Open(f), K <= N, FrameOK(K, f, Picks)
  PROVE  RowInv'
<1>1. StaticOK' /\ UNCHANGED <<plan, tables, input>>
  BY RowStepKeepsTables
<1>2. FramesOK'
  BY <1>1, OpeningKeepsFrames DEF InRow, RowInv, Open
<1>3. CurOK'
  BY DEF Open, CurOK, NoFrame, Frame
<1>. QED
  BY <1>1, <1>2, <1>3 DEF RowInv

\* The loop's next entry.
LEMMA NextEntry ==
  ASSUME InRow, K <= N, cur.i < cur.end, LoopOK(K, cur, Picks) \/ FoldOK(K, cur, Picks)
  PROVE  /\ EntryAt(K, cur.i) = <<RowAt(K, cur.i + 1)>>
         /\ cur.i + 1 \in Lo(K, Before(Picks)) + 1 .. Hi(K, Before(Picks))
         /\ cur.end = Hi(K, Before(Picks)) /\ cur.i \in Nat /\ cur.i \in Lo(K, Before(Picks)) .. Hi(K, Before(Picks))
         /\ RowAt(K, cur.i + 1) \in Nat
<1>. DEFINE c == Before(Picks)
<1>1. K \in 1 .. N /\ RangeOK(K, c) /\ statics[K] = Prepared(K)
  BY RunningRow
<1>2. cur.end = Hi(K, c) /\ cur.i \in Lo(K, c) .. Hi(K, c)
  BY DEF LoopOK, FoldOK
<1>3. Lo(K, c) \in Nat /\ Hi(K, c) \in Nat
  BY <1>1 DEF RangeOK
<1>4. cur.i + 1 \in Lo(K, c) + 1 .. Hi(K, c) /\ cur.i \in Nat
  BY <1>2, <1>3
<1>5. cur.i + 1 \in DOMAIN Prepared(K) /\ RowAt(K, cur.i + 1) \in Nat
  BY <1>1, <1>4 DEF RangeOK
<1>. QED
  BY <1>1, <1>2, <1>4, <1>5 DEF EntryAt, RowAt

\* Body opens the row it read or rejects it, and is not past the table's end.
LEMMA BodyKeeps ==
  ASSUME RowInv, Body
  PROVE  RowInv' /\ InRow /\ RowStep
<1>. DEFINE c == Before(Picks)
            i == cur.i + 1
            r == RowAt(K, i)
<1>1. InRow
  BY DEF Body, InRow, RowInv, Blocks
<1>2. K <= N /\ Looping(K) /\ LoopOK(K, cur, Picks) /\ cur \in Frame /\ cur.i < cur.end
  BY DEF Body, RowInv, CurOK
<1>3. /\ EntryAt(K, cur.i) = <<r>> /\ i \in Lo(K, c) + 1 .. Hi(K, c)
      /\ cur.end = Hi(K, c) /\ cur.i \in Nat /\ cur.i \in Lo(K, c) .. Hi(K, c) /\ r \in Nat
  BY <1>1, <1>2, NextEntry
<1>4. /\ Outer = c /\ RangeOK(K, c) /\ K \in 1 .. N
      /\ Lo(K, c) \in Nat /\ Hi(K, c) \in Nat
  BY <1>1, <1>2, RunningRow DEF RangeOK
<1>5. <<r>> # <<>>
  OBVIOUS
<1>6. CASE Truth(K, c, <<r>>)
  <2>. DEFINE f == [i |-> i, end |-> cur.end, any |-> TRUE, row |-> <<r>>]
  <2>1. Open(f) /\ RowStep
    BY <1>3, <1>4, <1>5, <1>6 DEF Body, Open, RowStep, Blocks
  <2>2. f \in Frame
    BY <1>3, <1>4 DEF Frame
  <2>3. f.i = i /\ f.end = Hi(K, c) /\ f.any = TRUE /\ f.row = <<r>>
    BY <1>3
  <2>4. <<r>> \in Extensions(K, Picks)
    <3>1. r \in Matches(K, Picks)
      BY <1>3, <1>4, <1>6, RangeHasMatches
    <3>2. Joins[K].kind # "fold"
      BY <1>2 DEF Looping
    <3>. HIDE DEF r
    <3>. QED
      BY <3>1, <3>2 DEF Extensions
  <2>. HIDE DEF f, i, r
  <2>5. FrameOK(K, f, Picks)
    BY <1>2, <1>3, <1>5, <2>2, <2>3, <2>4 DEF FrameOK, Hit, r
  <2>. QED
    BY <1>1, <1>2, <2>1, <2>5, OpenKeeps
<1>7. CASE ~ Truth(K, c, <<r>>)
  <2>1. cur' = Rejected(cur) /\ pc' = "header" /\ frames' = frames /\ RowStep
    BY <1>3, <1>4, <1>5, <1>7 DEF Body, RowStep, Blocks
  <2>2. cur' \in Frame /\ cur'.i = i /\ cur'.end = cur.end /\ cur'.any = cur.any
    BY <1>2, <1>3, <2>1 DEF Rejected, Frame
  <2>3. cur.any <=> \E m \in Lo(K, c) + 1 .. cur.i : Truth(K, c, <<RowAt(K, m)>>)
    <3>1. ~ (cur.i = 0 /\ cur.end = 0)
      BY <1>2
    <3>2. LoopOK(K, cur, Picks)
      BY <1>2
    <3>. QED
      BY <3>1, <3>2, Zenon DEF LoopOK
  <2>4. cur'.any <=> \E m \in Lo(K, c) + 1 .. i : Truth(K, c, <<RowAt(K, m)>>)
    <3>1. \A m : m \in Lo(K, c) + 1 .. i <=> m \in Lo(K, c) + 1 .. cur.i \/ m = i
      BY <1>3, <1>4
    <3>2. \A m \in {i} : ~ Truth(K, c, <<RowAt(K, m)>>)
      BY <1>7
    <3>. HIDE DEF i
    <3>. QED
      BY <2>2, <2>3, <3>1, <3>2
  <2>5. i \in Lo(K, c) .. Hi(K, c)
    BY <1>3, <1>4
  <2>6. LoopOK(K, cur', Picks)
    BY <1>3, <2>2, <2>4, <2>5 DEF LoopOK
  <2>7. CurOK'
    BY <1>1, <1>2, <2>1, <2>2, <2>6, StayingKeeps DEF CurOK, Frame
  <2>. QED
    BY <1>1, <2>1, <2>7, StayingKeeps DEF RowInv
<1>8. RowStep
  BY <1>3, <1>5 DEF Body, Open, RowStep, Blocks
<1>. QED
  BY <1>1, <1>6, <1>7, <1>8

\* After null-extends a LEFT row that nothing matched, and that one alone.
LEMMA AfterKeeps ==
  ASSUME RowInv, After
  PROVE  RowInv' /\ InRow /\ RowStep
<1>. DEFINE c == Before(Picks)
<1>1. InRow
  BY DEF After, InRow, RowInv, Blocks
<1>2. K <= N /\ Looping(K) /\ LoopOK(K, cur, Picks) /\ cur \in Frame /\ cur.i >= cur.end
  BY DEF After, RowInv, CurOK
<1>3. RangeOK(K, c) /\ K \in 1 .. N /\ Lo(K, c) \in Nat /\ Hi(K, c) \in Nat
  BY <1>1, <1>2, RunningRow DEF RangeOK
<1>4. CASE Joins[K].kind = "left" /\ ~ cur.any
  <2>1. Open(NoFrame) /\ RowStep
    BY <1>4 DEF After, Extension, Open, RowStep, Blocks
  <2>2. /\ cur.end = Hi(K, c) /\ cur.i \in Lo(K, c) .. Hi(K, c)
        /\ \A i \in Lo(K, c) + 1 .. cur.i : ~ Truth(K, c, <<RowAt(K, i)>>)
    BY <1>2, <1>4 DEF LoopOK
  <2>3. cur.i = Hi(K, c)
    BY <1>2, <1>3, <2>2 DEF Frame
  <2>4. Matches(K, Picks) = {}
    BY <1>3, <2>2, <2>3, RangeHasMatches
  <2>5. <<>> \in Extensions(K, Picks)
    BY <1>4, <2>4 DEF Extensions
  <2>6. NoFrame \in Frame /\ NoFrame.i = 0 /\ NoFrame.end = 0 /\ NoFrame.any = FALSE /\ NoFrame.row = <<>>
    BY DEF NoFrame, Frame
  <2>7. FrameOK(K, NoFrame, Picks)
    BY <1>4, <2>5, <2>6 DEF FrameOK, Hit
  <2>. QED
    BY <1>1, <1>2, <2>1, <2>7, OpenKeeps
<1>5. CASE ~ (Joins[K].kind = "left" /\ ~ cur.any)
  <2>1. pc' = "done" /\ frames' = frames /\ cur' = cur /\ RowStep
    BY <1>5 DEF After, RowStep, Blocks
  <2>2. plan.many
    BY <1>2 DEF Looping
  <2>3. CurOK'
    BY <1>1, <1>2, <2>1, <2>2, StayingKeeps DEF CurOK, Frame
  <2>. QED
    BY <1>1, <2>1, <2>3, StayingKeeps DEF RowInv
<1>6. RowStep
  BY DEF After, Open, RowStep, Blocks
<1>. QED
  BY <1>1, <1>4, <1>5, <1>6

\* The loop around goes on.
LEMMA ContinueKeeps ==
  ASSUME InRow, RowStep, plan.many, frames # <<>>, Continue
  PROVE  RowInv'
<1>. DEFINE n == Len(frames)
            f == frames[n]
            P == Prefix(n)
            c == Before(P)
<1>1. StaticOK' /\ UNCHANGED <<plan, tables, input>> /\ N' = N
  BY RowStepKeepsTables
<1>2. N \in Nat /\ FramesOK
  BY RunningRow DEF InRow, RowInv
<1>3. FramesOK' /\ n \in Nat \ {0} /\ K' = n /\ Picks' = P /\ frames' = SubSeq(frames, 1, n - 1)
  BY <1>1, <1>2, ClosingKeepsFrames DEF Continue
<1>4. n \in 1 .. n /\ n <= N /\ n \in 1 .. N
  BY <1>2, <1>3 DEF FramesOK
<1>5. FrameOK(n, f, P) /\ f \in Frame
  BY <1>2, <1>4 DEF FramesOK, FrameOK
<1>6. RangeOK(n, c) /\ Lo(n, c) \in Nat /\ Hi(n, c) \in Nat
  BY <1>4, RunningRow DEF K, RangeOK
<1>7. cur' = Continued(f) /\ pc' = IF Joins[n].kind = "fold" THEN "done" ELSE "header"
  BY DEF Continue
<1>8. cur' \in Frame /\ cur'.i = f.i /\ cur'.end = f.end /\ cur'.any = TRUE
  BY <1>5, <1>7 DEF Continued, Frame
<1>. HIDE DEF n, f, P, c
<1>9. ASSUME Joins[n].kind # "fold" PROVE LoopOK(n, cur', P)
  <2>1. Looping(n)
    BY <1>9 DEF Looping
  <2>2. CASE f.row # <<>>
    <3>1. /\ f.i \in Lo(n, c) + 1 .. Hi(n, c) /\ f.end = Hi(n, c)
          /\ f.row = <<RowAt(n, f.i)>> /\ f.row \in Extensions(n, P)
      BY <1>5, <2>1, <2>2 DEF FrameOK, c
    <3>2. PICK r \in Matches(n, P) : f.row = <<r>>
      BY <1>9, <2>2, <3>1 DEF Extensions
    <3>3. Truth(n, c, <<RowAt(n, f.i)>>)
      BY <1>6, <3>1, <3>2, RangeHasMatches DEF c
    <3>4. f.i \in Lo(n, c) .. Hi(n, c) /\ f.i \in Lo(n, c) + 1 .. f.i
      BY <1>6, <3>1
    <3>. QED
      BY <1>8, <3>1, <3>3, <3>4 DEF LoopOK, c
  <2>3. CASE f.row = <<>>
    <3>1. f.i = 0 /\ f.end = 0 /\ f.row \in Extensions(n, P)
      BY <1>5, <2>3 DEF FrameOK
    <3>2. \A r : <<r>> # <<>>
      OBVIOUS
    <3>3. Joins[n].kind = "left" /\ Matches(n, P) = {}
      BY <1>9, <2>3, <3>1, <3>2 DEF Extensions
    <3>. QED
      BY <1>8, <3>1, <3>3 DEF LoopOK
  <2>. QED
    BY <2>2, <2>3
<1>10. \A k, x, y : LoopOK(k, x, y)' <=> LoopOK(k, x, y)
  BY <1>1, LoopsStandStill
<1>11. LoopOK(K, cur, Picks)' <=> LoopOK(n, cur', P)
  BY <1>3, <1>10
<1>12. Looping(K)' <=> Looping(n)
  BY <1>1, <1>3 DEF Looping, Joins
<1>13. CurOK'
  BY <1>1, <1>3, <1>4, <1>7, <1>8, <1>9, <1>11, <1>12 DEF CurOK, Frame, Looping
<1>. QED
  BY <1>1, <1>3, <1>13 DEF RowInv

\* Done goes on with the loop around, or ends the input row.
LEMMA DoneKeeps ==
  ASSUME RowInv, Done
  PROVE  RowInv' /\ InRow /\ RowStep
<1>1. InRow /\ plan.many
  BY DEF Done, InRow, RowInv, CurOK, Blocks
<1>2. RowStep
  BY DEF Done, Continue, RowStep, Blocks
<1>3. CASE frames # <<>>
  BY <1>1, <1>2, <1>3, ContinueKeeps DEF Done
<1>4. CASE frames = <<>>
  <2>1. pc' = "over" /\ frames' = frames /\ cur' = cur
    BY <1>4 DEF Done
  <2>2. CurOK'
    BY <2>1 DEF RowInv, CurOK, Frame
  <2>. QED
    BY <1>1, <1>2, <2>1, <2>2, StayingKeeps DEF RowInv
<1>. QED
  BY <1>1, <1>2, <1>3, <1>4

\* There is one ascending sequence of a set: two of one set have one length and agree.
Ascends(a, n, S) ==
  /\ \A i \in 1 .. n : a[i] \in S
  /\ \A i, k \in 1 .. n : i < k => a[i] < a[k]
  /\ \A x \in S : \E i \in 1 .. n : a[i] = x

Agree(a, b, n) == \A i \in 1 .. n : a[i] = b[i]

\* Two ascending sequences of the same values agree place by place.
LEMMA AscendingAgree ==
  ASSUME NEW S, S \subseteq Nat, NEW n \in Nat, NEW m \in Nat, NEW a, NEW b,
         Ascends(a, n, S), Ascends(b, m, S)
  PROVE  n <= m /\ Agree(a, b, n)
<1>1. \A i \in 1 .. n : i \in 1 .. m => a[i] = b[i]
  <2>. DEFINE Wrong == { i \in 1 .. n : i \in 1 .. m /\ a[i] # b[i] }
  <2>. SUFFICES ASSUME Wrong # {} PROVE FALSE
    OBVIOUS
  <2>1. Wrong \subseteq Nat
    OBVIOUS
  <2>. HIDE DEF Wrong
  <2>2. PICK i \in Wrong : \A k \in Wrong : i <= k
    BY <2>1, LeastNatural
  <2>. USE DEF Wrong
  <2>3. /\ i \in 1 .. n /\ i \in 1 .. m /\ a[i] # b[i]
        /\ \A k \in 1 .. i - 1 : k \in 1 .. n /\ k \in 1 .. m /\ a[k] = b[k]
    BY <2>2
  <2>4. a[i] \in S /\ b[i] \in S /\ a[i] \in Nat /\ b[i] \in Nat
    BY <2>3 DEF Ascends
  <2>5. PICK k \in 1 .. m : b[k] = a[i]
    BY <2>4 DEF Ascends
  <2>6. PICK h \in 1 .. n : a[h] = b[i]
    BY <2>4 DEF Ascends
  <2>7. \A x, y \in 1 .. n : x < y => a[x] < a[y]
    BY DEF Ascends
  <2>8. \A x, y \in 1 .. m : x < y => b[x] < b[y]
    BY DEF Ascends
  <2>9. \A x \in 1 .. n : a[x] \in Nat
    BY DEF Ascends
  <2>. HIDE DEF Wrong
  <2>10. ~ (k < i)
    <3>1. k < i => k \in 1 .. i - 1
      BY <2>3, <2>5
    <3>2. k < i => a[k] = a[i] /\ a[k] < a[i]
      BY <2>3, <2>5, <2>7, <3>1
    <3>. QED
      BY <2>4, <3>2
  <2>11. ~ (h < i)
    <3>1. h < i => h \in 1 .. i - 1
      BY <2>3, <2>6
    <3>2. h < i => b[h] = b[i] /\ b[h] < b[i]
      BY <2>3, <2>6, <2>8, <3>1
    <3>. QED
      BY <2>4, <3>2
  <2>12. b[i] < a[i]
    BY <2>3, <2>5, <2>8, <2>10
  <2>13. a[i] < b[i]
    BY <2>3, <2>6, <2>7, <2>11, <2>4
  <2>. QED
    BY <2>4, <2>12, <2>13
<1>2. n <= m
  <2>. SUFFICES ASSUME m < n PROVE FALSE
    OBVIOUS
  <2>1. m + 1 \in 1 .. n /\ \A i \in 1 .. m : i \in 1 .. n /\ i < m + 1
    OBVIOUS
  <2>2. a[m + 1] \in S
    BY <2>1 DEF Ascends
  <2>3. PICK k \in 1 .. m : b[k] = a[m + 1]
    BY <2>2 DEF Ascends
  <2>4. a[k] = a[m + 1] /\ a[k] < a[m + 1] /\ a[m + 1] \in Nat
    BY <1>1, <2>1, <2>2, <2>3 DEF Ascends
  <2>. QED
    BY <2>4
<1>. QED
  BY <1>1, <1>2 DEF Agree

\* An ascending sequence of a set's elements is the one Sorting chooses.
LEMMA AscendingIsSorting ==
  ASSUME NEW S, S \subseteq Nat, IsFiniteSet(S), NEW q \in Seq(Nat), Ascends(q, Len(q), S)
  PROVE  q = Sorting(S)
<1>1. PICK n \in Nat : DOMAIN Sorting(S) = 1 .. n /\ Ascends(Sorting(S), n, S)
  BY SortingSorts DEF Ascends
<1>2. Len(q) \in Nat /\ DOMAIN q = 1 .. Len(q)
  BY LenProperties
<1>. DEFINE s == Sorting(S)
            m == Len(q)
<1>3. m \in Nat /\ Ascends(s, n, S) /\ Ascends(q, m, S)
  BY <1>1, <1>2
<1>. HIDE DEF s, m
<1>4. n <= m /\ Agree(s, q, n)
  BY <1>3, AscendingAgree
<1>5. m <= n
  BY <1>3, AscendingAgree
<1>. USE DEF s, m
<1>6. Sorting(S) = [i \in DOMAIN Sorting(S) |-> Sorting(S)[i]]
  <2>. DEFINE C(i) == CHOOSE x \in S : Cardinality({ y \in S : y < x }) = i - 1
              At == [i \in 1 .. Cardinality(S) |-> C(i)]
  <2>1. Sorting(S) = At
    BY DEF Sorting
  <2>. HIDE DEF C
  <2>. QED
    BY <2>1
<1>7. q = [i \in 1 .. Len(q) |-> q[i]]
  BY <1>2
<1>. QED
  BY <1>1, <1>2, <1>4, <1>5, <1>6, <1>7 DEF Agree

\* A fold whose range is gone through has kept the rows that match, in their order.
LEMMA FoldOpens ==
  ASSUME InRow, pc = "foldheader", ~ (cur.i < cur.end)
  PROVE  FrameOK(K, [cur EXCEPT !.i = 0, !.end = 0], Picks)
<1>. DEFINE c == Before(Picks)
            M == Matches(K, Picks)
            f == [cur EXCEPT !.i = 0, !.end = 0]
<1>1. K <= N /\ Joins[K].kind = "fold" /\ FoldOK(K, cur, Picks) /\ cur \in Frame
  BY DEF InRow, RowInv, CurOK
<1>2. RangeOK(K, c) /\ K \in 1 .. N /\ Lo(K, c) \in Nat /\ Hi(K, c) \in Nat /\ Built
  BY <1>1, RunningRow DEF RangeOK
<1>3. f \in Frame /\ f.i = 0 /\ f.end = 0 /\ f.any = cur.any /\ f.row = cur.row /\ cur.row \in Seq(Nat)
  BY <1>1 DEF Frame
<1>4. cur.i = Hi(K, c)
  BY <1>1, <1>2 DEF FoldOK, Frame
<1>5. M \subseteq Nat /\ IsFiniteSet(M) /\ DOMAIN cur.row = 1 .. Len(cur.row)
  BY <1>2, <1>3, ExtensionsType, LenProperties
<1>6. /\ \A m, n \in DOMAIN cur.row : m < n => cur.row[m] < cur.row[n]
      /\ \A m \in DOMAIN cur.row : \E i \in Lo(K, c) + 1 .. Hi(K, c) :
           cur.row[m] = RowAt(K, i) /\ Truth(K, c, <<RowAt(K, i)>>)
      /\ \A i \in Lo(K, c) + 1 .. Hi(K, c) : Truth(K, c, <<RowAt(K, i)>>) =>
           \E m \in DOMAIN cur.row : cur.row[m] = RowAt(K, i)
  BY <1>1, <1>4 DEF FoldOK
<1>7. /\ \A i \in Lo(K, c) + 1 .. Hi(K, c) : RowAt(K, i) \in M <=> Truth(K, c, <<RowAt(K, i)>>)
      /\ \A r \in M : \E i \in Lo(K, c) + 1 .. Hi(K, c) : RowAt(K, i) = r /\ Truth(K, c, <<RowAt(K, i)>>)
  BY <1>2, RangeHasMatches
<1>. HIDE DEF M, f, c
<1>8. \A m \in DOMAIN cur.row : cur.row[m] \in M
  BY <1>6, <1>7
<1>9. ASSUME NEW r \in M PROVE \E m \in DOMAIN cur.row : cur.row[m] = r
  <2>1. PICK i \in Lo(K, c) + 1 .. Hi(K, c) : RowAt(K, i) = r /\ Truth(K, c, <<RowAt(K, i)>>)
    BY <1>7
  <2>. QED
    BY <1>6, <2>1
<1>10. Ascends(cur.row, Len(cur.row), M)
  BY <1>5, <1>6, <1>8, <1>9 DEF Ascends
<1>11. cur.row = Sorting(M)
  BY <1>3, <1>5, <1>10, AscendingIsSorting
<1>12. f.row \in Extensions(K, Picks)
  BY <1>1, <1>3, <1>11 DEF Extensions, M
<1>13. Hit(K, f) <=> f.row # <<>>
  BY <1>1, <1>3 DEF Hit, FoldOK
<1>14. FrameOK(K, f, Picks)
  BY <1>1, <1>3, <1>12, <1>13 DEF FrameOK, Looping
<1>. QED
  BY <1>14 DEF f

\* FoldHeader opens the fold when its range is gone through, with the rows kept.
LEMMA FoldHeaderKeeps ==
  ASSUME RowInv, FoldHeader
  PROVE  RowInv' /\ InRow /\ RowStep
<1>1. InRow /\ RowStep
  BY DEF FoldHeader, Open, InRow, RowStep, RowInv, Blocks
<1>2. K <= N /\ Joins[K].kind = "fold" /\ FoldOK(K, cur, Picks) /\ cur \in Frame
  BY DEF FoldHeader, RowInv, CurOK
<1>3. CASE cur.i < cur.end
  <2>1. pc' = "foldbody" /\ frames' = frames /\ cur' = cur
    BY <1>3 DEF FoldHeader
  <2>2. CurOK'
    BY <1>1, <1>2, <1>3, <2>1, StayingKeeps DEF CurOK, Frame
  <2>. QED
    BY <1>1, <2>1, <2>2, StayingKeeps DEF RowInv
<1>4. CASE ~ (cur.i < cur.end)
  <2>. DEFINE f == [cur EXCEPT !.i = 0, !.end = 0]
  <2>1. Open(f)
    BY <1>4 DEF FoldHeader
  <2>2. FrameOK(K, f, Picks)
    BY <1>1, <1>4, FoldOpens DEF FoldHeader
  <2>. QED
    BY <1>1, <1>2, <2>1, <2>2, OpenKeeps
<1>. QED
  BY <1>1, <1>3, <1>4

\* FoldBody keeps the row it read if the predicate is TRUE of it, and rejects it else.
LEMMA FoldBodyKeeps ==
  ASSUME RowInv, FoldBody
  PROVE  RowInv' /\ InRow /\ RowStep
<1>. DEFINE c == Before(Picks)
            i == cur.i + 1
            r == RowAt(K, i)
            T(m) == Truth(K, c, <<RowAt(K, m)>>)
            q == cur.row
<1>1. InRow
  BY DEF FoldBody, InRow, RowInv, Blocks
<1>2. K <= N /\ Joins[K].kind = "fold" /\ FoldOK(K, cur, Picks) /\ cur \in Frame /\ cur.i < cur.end
  BY DEF FoldBody, RowInv, CurOK
<1>3. /\ EntryAt(K, cur.i) = <<r>> /\ i \in Lo(K, c) + 1 .. Hi(K, c)
      /\ cur.end = Hi(K, c) /\ cur.i \in Nat /\ cur.i \in Lo(K, c) .. Hi(K, c) /\ r \in Nat
  BY <1>1, <1>2, NextEntry
<1>4. Outer = c /\ RangeOK(K, c) /\ Lo(K, c) \in Nat /\ Hi(K, c) \in Nat
  BY <1>1, <1>2, RunningRow DEF RangeOK
<1>5. <<r>> # <<>>
  OBVIOUS
<1>6. RowStep /\ pc' = "foldheader" /\ frames' = frames
  BY <1>3, <1>5 DEF FoldBody, RowStep, Blocks
<1>7. /\ cur.any <=> q # <<>>
      /\ \A m, n \in DOMAIN q : m < n => q[m] < q[n]
      /\ \A m \in DOMAIN q : \E h \in Lo(K, c) + 1 .. cur.i : q[m] = RowAt(K, h) /\ T(h)
      /\ \A h \in Lo(K, c) + 1 .. cur.i : T(h) => \E m \in DOMAIN q : q[m] = RowAt(K, h)
  BY <1>2 DEF FoldOK
<1>8. i \in Lo(K, c) .. Hi(K, c) /\ q \in Seq(Nat)
  BY <1>2, <1>3, <1>4 DEF Frame
<1>9. /\ \A h : h \in Lo(K, c) + 1 .. i <=> h \in Lo(K, c) + 1 .. cur.i \/ h = i
      /\ \A h \in Lo(K, c) + 1 .. cur.i : h \in Lo(K, c) + 1 .. Hi(K, c) /\ h < i
  BY <1>3, <1>4
<1>10. \A h \in Lo(K, c) + 1 .. cur.i : RowAt(K, h) < r
  BY <1>3, <1>4, <1>9 DEF RangeOK
<1>11. FoldOK(K, cur', Picks) /\ cur' \in Frame
  <2>1. CASE T(i)
    <3>1. cur' = [cur EXCEPT !.i = @ + 1, !.any = TRUE, !.row = @ \o <<r>>]
      BY <1>3, <1>4, <1>5, <2>1 DEF FoldBody
    <3>. DEFINE p == q \o <<r>>
    <3>2. /\ p \in Seq(Nat) /\ DOMAIN p = 1 .. Len(q) + 1 /\ p[Len(q) + 1] = r
          /\ \A m \in 1 .. Len(q) : p[m] = q[m]
      BY <1>3, <1>8
    <3>3. cur'.i = i /\ cur'.end = cur.end /\ cur'.any = TRUE /\ cur'.row = p /\ cur' \in Frame
      <4>1. cur' = [i |-> cur.i + 1, end |-> cur.end, any |-> TRUE, row |-> p]
        <5>. HIDE DEF r
        <5>. QED
          BY <1>2, <3>1 DEF Frame
      <4>2. cur.end \in Nat /\ cur.i + 1 \in Nat
        BY <1>2 DEF Frame
      <4>. HIDE DEF p
      <4>. QED
        BY <3>2, <4>1, <4>2 DEF Frame
    <3>4. p # <<>> /\ DOMAIN q = 1 .. Len(q) /\ Len(q) \in Nat
      <4>1. DOMAIN q = 1 .. Len(q) /\ Len(q) \in Nat
        BY <1>8, LenProperties
      <4>2. Len(q) + 1 \in DOMAIN p
        BY <3>2, <4>1
      <4>. QED
        BY <4>1, <4>2
    <3>. HIDE DEF p, q, T, c, i, r
    <3>5. \A m \in DOMAIN q : q[m] < r
      BY <1>7, <1>10
    <3>6. \A m, n \in DOMAIN p : m < n => p[m] < p[n]
      <4>1. ASSUME NEW m \in DOMAIN p, NEW n \in DOMAIN p, m < n PROVE p[m] < p[n]
        <5>1. m \in 1 .. Len(q) /\ p[m] = q[m]
          BY <3>2, <3>4, <4>1
        <5>2. CASE n = Len(q) + 1
          BY <3>2, <3>4, <3>5, <5>1, <5>2
        <5>3. CASE n # Len(q) + 1
          <6>1. n \in 1 .. Len(q) /\ p[n] = q[n]
            BY <3>2, <3>4, <5>3
          <6>. QED
            BY <1>7, <3>4, <4>1, <5>1, <6>1
        <5>. QED
          BY <5>2, <5>3
      <4>. QED
        BY <4>1
    <3>7. ASSUME NEW m \in DOMAIN p PROVE \E h \in Lo(K, c) + 1 .. i : p[m] = RowAt(K, h) /\ T(h)
      <4>1. CASE m = Len(q) + 1
        BY <1>9, <2>1, <3>2, <4>1 DEF r
      <4>2. CASE m # Len(q) + 1
        <5>1. m \in DOMAIN q /\ p[m] = q[m]
          BY <3>2, <3>4, <4>2
        <5>2. PICK h \in Lo(K, c) + 1 .. cur.i : q[m] = RowAt(K, h) /\ T(h)
          BY <1>7, <5>1
        <5>. QED
          BY <1>9, <5>1, <5>2
      <4>. QED
        BY <4>1, <4>2
    <3>8. ASSUME NEW h \in Lo(K, c) + 1 .. i, T(h) PROVE \E m \in DOMAIN p : p[m] = RowAt(K, h)
      <4>1. CASE h = i
        <5>1. Len(q) + 1 \in DOMAIN p
          BY <3>2, <3>4
        <5>. QED
          BY <3>2, <4>1, <5>1 DEF r
      <4>2. CASE h # i
        <5>1. h \in Lo(K, c) + 1 .. cur.i
          BY <1>9, <4>2
        <5>2. PICK m \in DOMAIN q : q[m] = RowAt(K, h)
          BY <1>7, <3>8, <5>1
        <5>3. m \in DOMAIN p /\ p[m] = q[m]
          BY <3>2, <3>4, <5>2
        <5>. QED
          BY <5>2, <5>3
      <4>. QED
        BY <4>1, <4>2
    <3>. QED
      BY <1>3, <1>8, <3>3, <3>4, <3>6, <3>7, <3>8 DEF FoldOK, T, c
  <2>2. CASE ~ T(i)
    <3>1. cur' = Rejected(cur)
      BY <1>3, <1>4, <1>5, <2>2 DEF FoldBody
    <3>2. cur'.i = i /\ cur'.end = cur.end /\ cur'.any = cur.any /\ cur'.row = q /\ cur' \in Frame
      BY <1>2, <1>3, <3>1 DEF Rejected, Frame
    <3>. HIDE DEF q, T, c, i, r
    <3>3. \A m \in DOMAIN q : \E h \in Lo(K, c) + 1 .. i : q[m] = RowAt(K, h) /\ T(h)
      BY <1>7, <1>9
    <3>4. \A h \in Lo(K, c) + 1 .. i : T(h) => \E m \in DOMAIN q : q[m] = RowAt(K, h)
      BY <1>7, <1>9, <2>2
    <3>. QED
      BY <1>3, <1>7, <1>8, <3>2, <3>3, <3>4 DEF FoldOK, T, c
  <2>. QED
    BY <2>1, <2>2
<1>12. CurOK'
  BY <1>1, <1>2, <1>6, <1>11, StayingKeeps DEF CurOK, Frame
<1>. QED
  BY <1>1, <1>6, <1>12, StayingKeeps DEF RowInv

\* A map without duplicates has at most one candidate, the row it finds.
LEMMA MapFinds ==
  ASSUME InRow, ~ plan.many, K <= N, Joins[K].kind # "fold"
  PROVE  LET r == Found(Joins[K].cmps, statics[K], Key(K, Outer)) IN
         /\ Candidates(K, Before(Picks)) = IF r = 0 THEN {} ELSE {r}
         /\ r \in Nat
<1>. DEFINE c == Before(Picks)
            lo == Lo(K, c)
            hi == Hi(K, c)
            r == Found(Joins[K].cmps, statics[K], Key(K, Outer))
<1>1. /\ K \in 1 .. N /\ Outer = c /\ RangeOK(K, c) /\ statics[K] = Prepared(K)
      /\ Built
  BY RunningRow
<1>2. ~ HasDuplicate(Prepared(K))
  BY <1>1 DEF InRow, RowInv, StaticOK
<1>3. PICK n \in Nat : DOMAIN Prepared(K) = 1 .. n /\ Len(Prepared(K)) = n
  BY <1>1 DEF RangeOK
<1>4. lo \in Nat /\ hi \in Nat /\ lo <= hi
  BY <1>1 DEF RangeOK
<1>5. /\ \A i \in lo + 1 .. hi : i \in 1 .. n /\ RowAt(K, i) \in Candidates(K, c)
      /\ \A x \in Candidates(K, c) : \E i \in lo + 1 .. hi : RowAt(K, i) = x
      /\ \A i, m \in lo + 1 .. hi : Prepared(K)[i].key = Prepared(K)[m].key
  BY <1>1, <1>3 DEF RangeOK
<1>6. r = IF lo < hi THEN RowAt(K, lo + 1) ELSE 0
  BY <1>1 DEF Found, Lo, Hi, RowAt
<1>7. Candidates(K, c) \subseteq Nat \ {0}
  BY <1>1, ServedRows DEF Candidates
<1>. HIDE DEF lo, hi, c, r
<1>8. CASE lo < hi
  <2>1. lo + 1 \in lo + 1 .. hi
    BY <1>4, <1>8
  <2>2. hi = lo + 1
    <3>. SUFFICES ASSUME hi # lo + 1 PROVE FALSE
      OBVIOUS
    <3>1. lo + 2 \in lo + 1 .. hi /\ lo + 1 \in 1 .. n - 1
      <4>1. lo + 2 \in lo + 1 .. hi
        BY <1>4, <1>8
      <4>2. lo + 2 \in 1 .. n /\ lo + 1 \in 1 .. n
        BY <1>5, <2>1, <4>1
      <4>. QED
        BY <1>4, <4>1, <4>2
    <3>2. Prepared(K)[lo + 1].key = Prepared(K)[lo + 2].key
      BY <1>5, <2>1, <3>1
    <3>3. lo + 1 + 1 = lo + 2
      BY <1>4
    <3>. QED
      BY <1>2, <1>3, <3>1, <3>2, <3>3 DEF HasDuplicate
  <2>3. r = RowAt(K, lo + 1) /\ r \in Candidates(K, c)
    BY <1>5, <1>6, <1>8, <2>1
  <2>4. \A i \in lo + 1 .. hi : i = lo + 1
    BY <1>4, <2>2
  <2>5. \A x \in Candidates(K, c) : x = r
    BY <1>5, <2>3, <2>4
  <2>6. Candidates(K, c) = {r} /\ r \in Nat /\ r # 0
    BY <1>7, <2>3, <2>5
  <2>. QED
    BY <2>6 DEF r, c
<1>9. CASE ~ (lo < hi)
  <2>1. lo + 1 .. hi = {}
    BY <1>4, <1>9
  <2>2. Candidates(K, c) = {} /\ r = 0
    BY <1>5, <1>6, <1>9, <2>1
  <2>. QED
    BY <2>2 DEF r, c
<1>. QED
  BY <1>8, <1>9

\* So what it joins is what matches: one row, or none.
LEMMA MatchedRow ==
  ASSUME InRow, ~ plan.many, K <= N, Joins[K].kind # "fold"
  PROVE  \/ Matched(K) = <<>> /\ Matches(K, Picks) = {}
         \/ \E r \in Nat : Matched(K) = <<r>> /\ Matches(K, Picks) = {r}
<1>. DEFINE c == Before(Picks)
            r == Found(Joins[K].cmps, statics[K], Key(K, Outer))
<1>1. Candidates(K, c) = (IF r = 0 THEN {} ELSE {r}) /\ r \in Nat /\ Outer = c
  BY MapFinds, RunningRow
<1>2. Matches(K, Picks) = { x \in Candidates(K, c) : Truth(K, c, <<x>>) }
  BY MatchesAreCandidates
<1>3. Matched(K) = IF r # 0 /\ Truth(K, c, <<r>>) THEN <<r>> ELSE <<>>
  BY <1>1 DEF Matched
<1>. HIDE DEF r, c
<1>4. CASE r # 0 /\ Truth(K, c, <<r>>)
  BY <1>1, <1>2, <1>3, <1>4
<1>5. CASE ~ (r # 0 /\ Truth(K, c, <<r>>))
  BY <1>1, <1>2, <1>3, <1>5
<1>. QED
  BY <1>4, <1>5

\* What it opens is the frame of that row, or of the null-extension.
LEMMA MapOpens ==
  ASSUME InRow, ~ plan.many, K <= N, Joins[K].kind \in {"inner", "left"},
         ~ (Matched(K) = <<>> /\ Joins[K].kind = "inner")
  PROVE  FrameOK(K, [NoFrame EXCEPT !.any = Matched(K) # <<>>, !.row = Matched(K)], Picks)
<1>. DEFINE row == Matched(K)
            f == [NoFrame EXCEPT !.any = row # <<>>, !.row = row]
<1>1. \/ row = <<>> /\ Matches(K, Picks) = {}
      \/ \E r \in Nat : row = <<r>> /\ Matches(K, Picks) = {r}
  BY MatchedRow
<1>. HIDE DEF row
<1>2. row \in Seq(Nat) /\ \A r : <<r>> # <<>>
  <2>1. \A r \in Nat : <<r>> \in Seq(Nat)
    OBVIOUS
  <2>2. <<>> \in Seq(Nat) /\ \A r : <<r>> # <<>>
    OBVIOUS
  <2>. QED
    BY <1>1, <2>1, <2>2
<1>3. ~ (row = <<>> /\ Joins[K].kind = "inner")
  BY DEF row
<1>4. PICK b \in BOOLEAN : b = (row # <<>>)
  OBVIOUS
<1>5. f.i = 0 /\ f.end = 0 /\ f.any = b /\ f.row = row /\ f \in Frame
  <2>1. f = [NoFrame EXCEPT !.any = b, !.row = row]
    BY <1>4
  <2>. HIDE DEF f
  <2>. QED
    BY <1>2, <2>1 DEF NoFrame, Frame
<1>. HIDE DEF f
<1>6. row \in Extensions(K, Picks)
  <2>1. CASE row = <<>>
    BY <1>1, <1>2, <1>3, <2>1 DEF Extensions
  <2>2. CASE row # <<>>
    <3>1. PICK r \in Nat : row = <<r>> /\ Matches(K, Picks) = {r}
      BY <1>1, <2>2
    <3>. QED
      BY <3>1 DEF Extensions
  <2>. QED
    BY <2>1, <2>2
<1>7. Hit(K, f) <=> f.row # <<>>
  BY <1>3, <1>4, <1>5 DEF Hit
<1>8. FrameOK(K, f, Picks)
  BY <1>5, <1>6, <1>7 DEF FrameOK, Looping
<1>. QED
  BY <1>8 DEF f, row

\* ProbeMap opens the row found, a LEFT join's null-extension, or ends the input row.
LEMMA ProbeMapKeeps ==
  ASSUME RowInv, ProbeMap
  PROVE  RowInv' /\ InRow /\ RowStep
<1>1. InRow /\ K <= N /\ ~ plan.many /\ Joins[K].kind \in {"inner", "left"}
  BY DEF ProbeMap, Probing, InRow, RowInv, Blocks
<1>2. RowStep
  BY DEF ProbeMap, Open, RowStep, Blocks
<1>. DEFINE row == Matched(K)
            f == [NoFrame EXCEPT !.any = row # <<>>, !.row = row]
<1>3. CASE row = <<>> /\ Joins[K].kind = "inner"
  <2>1. pc' = "over" /\ frames' = frames /\ cur' = cur
    BY <1>3 DEF ProbeMap
  <2>2. CurOK'
    BY <2>1 DEF RowInv, CurOK, Frame
  <2>. QED
    BY <1>1, <1>2, <2>1, <2>2, StayingKeeps DEF RowInv
<1>4. CASE ~ (row = <<>> /\ Joins[K].kind = "inner")
  <2>1. Open(f)
    BY <1>4 DEF ProbeMap
  <2>2. FrameOK(K, f, Picks)
    BY <1>1, <1>4, MapOpens
  <2>. HIDE DEF f
  <2>. QED
    BY <1>1, <1>2, <2>1, <2>2, OpenKeeps
<1>. QED
  BY <1>1, <1>2, <1>3, <1>4

\* After an output row, or a dropped one, the innermost loop goes on or the row is over.
LEMMA LeaveKeeps ==
  ASSUME RowInv, pc = "entry", K > N, Leave, UNCHANGED <<buildVars, input, statics>>
  PROVE  RowInv' /\ InRow /\ RowStep
<1>1. InRow
  BY DEF InRow, RowInv, Blocks
<1>2. RowStep
  BY DEF Leave, Continue, RowStep, Blocks
<1>3. CASE plan.many
  <2>1. frames # <<>>
    <3>1. Len(frames) # 0
      BY <1>1, RunningRow
    <3>. QED
      BY <3>1
  <2>. QED
    BY <1>1, <1>2, <1>3, <2>1, ContinueKeeps DEF Leave
<1>4. CASE ~ plan.many
  <2>1. pc' = "over" /\ frames' = frames /\ cur' = cur
    BY <1>4 DEF Leave
  <2>2. CurOK'
    BY <2>1 DEF RowInv, CurOK, Frame
  <2>. QED
    BY <1>1, <1>2, <2>1, <2>2, StayingKeeps DEF RowInv
<1>. QED
  BY <1>1, <1>2, <1>3, <1>4

\* Before its first block, a row has no loop.
LEMMA NoLoops ==
  ASSUME N \in Nat
  PROVE  (frames = <<>> => FramesOK)
BY DEF FramesOK

\* A step of the build keeps what a row will find: no loop is open yet.
LEMMA BuildKeeps ==
  ASSUME RowInv, Build
  PROVE  RowInv'
<1>1. pc = "prepare" /\ frames = <<>> /\ verdict = "building"
  BY DEF Build, BuildNext, ReadRow, FinishTable, Building, RowInv, StaticOK
<1>2. /\ input' = input /\ pc' = pc /\ frames' = frames /\ cur' = cur /\ plan' = plan
  BY DEF Build, BuildNext, ReadRow, FinishTable, rowVars
<1>3. BuildInv'
  BY ReadRowKeepsBuild, FinishTableKeepsBuild DEF Build, BuildNext, RowInv, StaticOK
<1>4. StaticOK'
  BY <1>1, <1>2, <1>3 DEF RowInv, StaticOK, Cells, Blocks
<1>5. N \in Nat /\ N' = N
  BY <1>2, PlansFit DEF RowInv, StaticOK, BuildInv, N, Joins
<1>6. FramesOK'
  <2>1. frames' = <<>> /\ Len(frames') = 0 /\ frames' \in Seq(Frame) /\ 1 .. Len(frames') = {}
    BY <1>1, <1>2
  <2>. QED
    BY <1>5, <2>1 DEF FramesOK, Frame
<1>7. CurOK'
  BY <1>1, <1>2 DEF RowInv, CurOK, Frame
<1>. QED
  BY <1>4, <1>6, <1>7 DEF RowInv

\* Prepare leaves the entries of every join's table sorted by their keys.
LEMMA PrepareKeeps ==
  ASSUME RowInv, Prepare
  PROVE  RowInv'
<1>1. pc = "prepare" /\ frames = <<>> /\ verdict = "built" /\ pc' \in {"refused", "ready"}
  BY DEF Prepare, RowInv, StaticOK
<1>2. UNCHANGED <<plan, tables, at, groups, verdict, input, frames, cur>>
  BY DEF Prepare, buildVars
<1>3. BuildInv'
  BY <1>2, OthersKeepBuild DEF RowInv, StaticOK, buildVars
<1>4. Joins' = Joins /\ N' = N
  BY <1>2 DEF Joins, N
<1>5. \A k : Prepared(k)' = Prepared(k)
  BY <1>2, <1>4 DEF Prepared
<1>6. statics' = [k \in 1 .. N |-> Prepared(k)]
  BY DEF Prepare, Prepared
<1>7. pc' # "refused" /\ ~ plan.many => \A k \in 1 .. N : Joins[k].kind # "fold" => ~ HasDuplicate(Prepared(k))
  <2>. SUFFICES ASSUME pc' # "refused", ~ plan.many, NEW k \in 1 .. N, Joins[k].kind # "fold"
                PROVE  ~ HasDuplicate(Prepared(k))
    OBVIOUS
  <2>1. ~ HasDuplicate(statics'[k])
    BY DEF Prepare
  <2>2. statics'[k] = Prepared(k)
    BY <1>6
  <2>. QED
    BY <2>1, <2>2
<1>8. statics' = [k \in 1 .. N' |-> Prepared(k)']
  BY <1>4, <1>5, <1>6
<1>9. pc' # "refused" /\ ~ plan'.many => \A k \in 1 .. N' : Joins'[k].kind # "fold" => ~ HasDuplicate(Prepared(k)')
  BY <1>2, <1>4, <1>5, <1>7
<1>10. input' \in Cells' /\ pc' \in Blocks
  BY <1>1, <1>2 DEF RowInv, StaticOK, Blocks, Cells
<1>11. StaticOK'
  BY <1>1, <1>2, <1>3, <1>8, <1>9, <1>10 DEF StaticOK, Blocks
<1>12. N \in Nat
  BY PlansFit DEF RowInv, StaticOK, BuildInv, N
<1>13. FramesOK'
  <2>1. frames' = <<>> /\ Len(frames') = 0 /\ frames' \in Seq(Frame) /\ 1 .. Len(frames') = {}
    BY <1>1, <1>2
  <2>. QED
    BY <1>4, <1>12, <2>1 DEF FramesOK, Frame
<1>14. CurOK'
  BY <1>1, <1>2 DEF RowInv, CurOK, Frame
<1>. QED
  BY <1>11, <1>13, <1>14 DEF RowInv

\* Serve gives the input row, with no loop open.
LEMMA ServeKeeps ==
  ASSUME RowInv, Serve
  PROVE  RowInv'
<1>1. pc = "ready" /\ frames = <<>> /\ pc' = "entry" /\ input' \in Cells
  BY DEF Serve, RowInv, StaticOK
<1>2. UNCHANGED <<plan, tables, at, groups, verdict, statics, frames, cur>>
  BY DEF Serve, buildVars
<1>3. BuildInv'
  BY <1>2, OthersKeepBuild DEF RowInv, StaticOK, buildVars
<1>4. Joins' = Joins /\ N' = N
  BY <1>2 DEF Joins, N
<1>5. \A k : Prepared(k)' = Prepared(k)
  BY <1>2, <1>4 DEF Prepared
<1>6. /\ statics = [k \in 1 .. N |-> Prepared(k)] /\ verdict = "built"
      /\ ~ plan.many => \A k \in 1 .. N : Joins[k].kind # "fold" => ~ HasDuplicate(Prepared(k))
  BY <1>1 DEF RowInv, StaticOK
<1>7. statics' = [k \in 1 .. N' |-> Prepared(k)']
  BY <1>2, <1>4, <1>5, <1>6
<1>8. ~ plan'.many => \A k \in 1 .. N' : Joins'[k].kind # "fold" => ~ HasDuplicate(Prepared(k)')
  BY <1>2, <1>4, <1>5, <1>6
<1>9. StaticOK'
  BY <1>1, <1>2, <1>3, <1>6, <1>7, <1>8 DEF StaticOK, Blocks, Cells
<1>10. N \in Nat
  BY PlansFit DEF RowInv, StaticOK, BuildInv, N
<1>11. FramesOK'
  <2>1. frames' = <<>> /\ Len(frames') = 0 /\ frames' \in Seq(Frame) /\ 1 .. Len(frames') = {}
    BY <1>1, <1>2
  <2>. QED
    BY <1>4, <1>10, <2>1 DEF FramesOK, Frame
<1>12. CurOK'
  BY <1>1, <1>2 DEF RowInv, CurOK, Frame
<1>. QED
  BY <1>9, <1>11, <1>12 DEF RowInv

\* Before the build no loop is open.
LEMMA RowStarts ==
  ASSUME Init
  PROVE  RowInv
<1>1. BuildInv /\ N \in Nat
  BY BuildStarts, PlansFit DEF Init, BuildInv, N
<1>2. StaticOK
  BY <1>1 DEF Init, StaticOK, Blocks, Cells
<1>3. FramesOK
  BY <1>1, NoLoops DEF Init
<1>4. CurOK
  BY DEF Init, CurOK, NoFrame, Frame
<1>. QED
  BY <1>2, <1>3, <1>4 DEF RowInv

\* Emitting a row, or dropping it, leaves the innermost loop.
LEMMA EmitKeeps ==
  ASSUME RowInv, EmitRow \/ DropRow
  PROVE  RowInv' /\ InRow /\ RowStep
<1>1. pc = "entry" /\ K > N /\ Leave /\ UNCHANGED <<buildVars, input, statics>>
  BY DEF EmitRow, DropRow
<1>. QED
  BY <1>1, LeaveKeeps

\* Every step keeps the invariant.
LEMMA RowInvKept ==
  ASSUME RowInv, [Next]_vars
  PROVE  RowInv'
<1>1. CASE Build
  BY <1>1, BuildKeeps
<1>2. CASE Prepare
  BY <1>2, PrepareKeeps
<1>3. CASE Serve
  BY <1>3, ServeKeeps
<1>4. CASE Entry
  BY <1>4, EntryKeeps
<1>5. CASE Header
  BY <1>5, HeaderKeeps
<1>6. CASE Body
  BY <1>6, BodyKeeps
<1>7. CASE After
  BY <1>7, AfterKeeps
<1>8. CASE Done
  BY <1>8, DoneKeeps
<1>9. CASE FoldHeader
  BY <1>9, FoldHeaderKeeps
<1>10. CASE FoldBody
  BY <1>10, FoldBodyKeeps
<1>11. CASE ProbeMap
  BY <1>11, ProbeMapKeeps
<1>12. CASE EmitRow \/ DropRow
  BY <1>12, EmitKeeps
<1>13. CASE UNCHANGED vars
  <2>1. UNCHANGED <<plan, tables, at, groups, verdict, input, statics, pc, frames, cur>>
    BY <1>13 DEF vars
  <2>2. BuildInv'
    BY <2>1, OthersKeepBuild DEF RowInv, StaticOK, buildVars
  <2>3. Joins' = Joins /\ N' = N /\ Cells' = Cells
    BY <2>1 DEF Joins, N, Cells
  <2>4. \A k : Prepared(k)' = Prepared(k)
    BY <2>1, <2>3 DEF Prepared
  <2>5. StaticOK'
    <3>1. pc # "prepare" => statics' = [k \in 1 .. N' |-> Prepared(k)']
      BY <2>1, <2>3, <2>4 DEF RowInv, StaticOK
    <3>2. pc \notin {"prepare", "refused"} /\ ~ plan'.many =>
            \A k \in 1 .. N' : Joins'[k].kind # "fold" => ~ HasDuplicate(Prepared(k)')
      BY <2>1, <2>3, <2>4 DEF RowInv, StaticOK
    <3>. QED
      BY <2>1, <2>2, <2>3, <3>1, <3>2 DEF RowInv, StaticOK
  <2>6. FramesOK' /\ K' = K /\ Picks' = Picks
    BY <2>1, OthersKeepFrames DEF RowInv
  <2>7. \A k, f, P : (LoopOK(k, f, P)' <=> LoopOK(k, f, P)) /\ (FoldOK(k, f, P)' <=> FoldOK(k, f, P))
    BY <2>1, LoopsStandStill
  <2>8. (LoopOK(K, cur, Picks)' <=> LoopOK(K, cur, Picks)) /\ (FoldOK(K, cur, Picks)' <=> FoldOK(K, cur, Picks))
    BY <2>1, <2>6, <2>7
  <2>9. CurOK'
    BY <2>1, <2>3, <2>6, <2>8 DEF RowInv, CurOK, Looping, Frame
  <2>. QED
    BY <2>5, <2>6, <2>9 DEF RowInv
<1>. QED
  BY <1>1, <1>2, <1>3, <1>4, <1>5, <1>6, <1>7, <1>8, <1>9, <1>10, <1>11, <1>12, <1>13 DEF Next, RowNext

\* A flag follows from its frame: a left join's row is <<>> just when nothing matches.
LEMMA FramesTellMatches ==
  ASSUME RowInv
  PROVE  FlagsTellMatches
<1>. DEFINE k == Len(frames)
            f == frames[k]
            P == Prefix(k)
<1>1. SUFFICES ASSUME pc = "entry", k > 0, Joins[k].kind = "left"
               PROVE  f.any <=> Matches(k, P) # {}
  BY DEF FlagsTellMatches, Prefix
<1>2. k \in 1 .. k
  <2>1. frames \in Seq(Frame)
    BY DEF RowInv, FramesOK
  <2>2. k \in Nat
    BY <2>1, LenProperties
  <2>. QED
    BY <1>1, <2>2
<1>3. FrameOK(k, f, P)
  BY <1>2 DEF RowInv, FramesOK
<1>4. (f.any <=> f.row # <<>>) /\ f.row \in Extensions(k, P)
  BY <1>1, <1>3 DEF FrameOK, Hit
<1>. HIDE DEF k, f, P
<1>5. CASE Matches(k, P) = {}
  BY <1>1, <1>4, <1>5 DEF Extensions
<1>6. CASE Matches(k, P) # {}
  <2>1. \A r : <<r>> # <<>>
    OBVIOUS
  <2>2. PICK r \in Matches(k, P) : f.row = <<r>>
    BY <1>1, <1>4, <1>6 DEF Extensions
  <2>. QED
    BY <1>4, <1>6, <2>1, <2>2
<1>. QED
  BY <1>5, <1>6

\* The flag that a read of a left-joined column is gated by says whether the open row is a
\* match, for every query, every table and every input row: lower_many_loops' hit flags and
\* lower_stage_head's.
THEOREM FlagsAlwaysTellMatches == Spec => []FlagsTellMatches
<1>1. Init => RowInv
  BY RowStarts
<1>2. RowInv /\ [Next]_vars => RowInv'
  BY RowInvKept
<1>3. RowInv => FlagsTellMatches
  BY FramesTellMatches
<1>. QED
  BY <1>1, <1>2, <1>3, PTL DEF Spec

-----------------------------------------------------------------------------
(* What the loops have been through.                                       *)

\* Of what extends the row before join k, whether x lies behind: before the row that an
\* open loop stands at; read already, or the null-extension, where the loop's own block
\* runs; all of it, once the loop is over.
Past(k, x) ==
  IF k <= Len(frames) THEN x # Picks[k] /\ x[1] < Picks[k][1]
  ELSE IF pc \in {"header", "body", "after"}
       THEN \/ cur.any /\ cur.end = 0
            \/ \E i \in Lo(k, Before(Picks)) + 1 .. cur.i : x = <<RowAt(k, i)>>
       ELSE pc = "done"

\* Rows that the loops have been through.
Passed(p) == \E k \in 1 .. Len(p) : k <= K /\ SubSeq(p, 1, k - 1) = Prefix(k) /\ Past(k, p[k])

\* A row behind an entry of a range is among the entries before it.
LEMMA BehindAnEntry ==
  ASSUME NEW k, NEW c, RangeOK(k, c), NEW r \in Candidates(k, c), NEW i \in Lo(k, c) + 1 .. Hi(k, c)
  PROVE  /\ (\E h \in Lo(k, c) + 1 .. i - 1 : <<r>> = <<RowAt(k, h)>>)
              <=> (<<r>> # <<RowAt(k, i)>> /\ r < RowAt(k, i))
         /\ (\E h \in Lo(k, c) + 1 .. i : <<r>> = <<RowAt(k, h)>>)
              <=> (<<r>> = <<RowAt(k, i)>> \/ (<<r>> # <<RowAt(k, i)>> /\ r < RowAt(k, i)))
<1>. DEFINE lo == Lo(k, c)
            hi == Hi(k, c)
            R(h) == RowAt(k, h)
<1>1. lo \in Nat /\ hi \in Nat /\ \A h \in lo + 1 .. hi : R(h) \in Nat
  BY DEF RangeOK
<1>2. \A h, m \in lo + 1 .. hi : h < m => R(h) < R(m)
  BY DEF RangeOK
<1>3. PICK m \in lo + 1 .. hi : R(m) = r
  BY DEF RangeOK
<1>. HIDE DEF lo, hi, R
<1>4. i \in lo + 1 .. hi
  BY DEF lo, hi
<1>5. R(m) < R(i) <=> m < i
  BY <1>1, <1>2, <1>3, <1>4
<1>6. R(m) = R(i) <=> m = i
  <2>1. m < i \/ m = i \/ i < m
    BY <1>1, <1>3, <1>4
  <2>. QED
    BY <1>1, <1>2, <1>3, <1>4, <2>1
<1>7. ASSUME NEW h \in lo + 1 .. i, R(h) = r PROVE h = m
  <2>1. h \in lo + 1 .. hi
    BY <1>1, <1>4
  <2>2. h < m \/ h = m \/ m < h
    BY <1>1, <1>3, <2>1
  <2>. QED
    BY <1>1, <1>2, <1>3, <1>7, <2>1, <2>2
<1>8. (\E h \in lo + 1 .. i - 1 : r = R(h)) <=> m < i
  <2>1. ASSUME NEW h \in lo + 1 .. i - 1, r = R(h) PROVE m < i
    <3>1. h \in lo + 1 .. i /\ h < i
      BY <1>1, <1>4
    <3>. QED
      BY <1>7, <2>1, <3>1
  <2>2. ASSUME m < i PROVE \E h \in lo + 1 .. i - 1 : r = R(h)
    <3>1. m \in lo + 1 .. i - 1
      BY <1>1, <1>3, <1>4, <2>2
    <3>. QED
      BY <1>3, <3>1
  <2>. QED
    BY <2>1, <2>2
<1>9. (\E h \in lo + 1 .. i : r = R(h)) <=> m = i \/ m < i
  <2>1. ASSUME NEW h \in lo + 1 .. i, r = R(h) PROVE m = i \/ m < i
    <3>1. h = m
      BY <1>7, <2>1
    <3>. QED
      BY <1>1, <1>4, <3>1
  <2>2. ASSUME m = i \/ m < i PROVE \E h \in lo + 1 .. i : r = R(h)
    <3>1. m \in lo + 1 .. i
      BY <1>1, <1>3, <1>4, <2>2
    <3>. QED
      BY <1>3, <3>1
  <2>. QED
    BY <2>1, <2>2
<1>10. \A x, y : <<x>> = <<y>> <=> x = y
  OBVIOUS
<1>11. r = R(i) <=> m = i
  BY <1>3, <1>6
<1>12. r < R(i) <=> m < i
  BY <1>3, <1>5
<1>13. m < i => m # i
  BY <1>1, <1>3, <1>4
<1>14. /\ (\E h \in lo + 1 .. i - 1 : <<r>> = <<R(h)>>) <=> (\E h \in lo + 1 .. i - 1 : r = R(h))
       /\ (\E h \in lo + 1 .. i : <<r>> = <<R(h)>>) <=> (\E h \in lo + 1 .. i : r = R(h))
       /\ <<r>> = <<R(i)>> <=> r = R(i)
  BY <1>10
<1>. QED
  BY <1>8, <1>9, <1>11, <1>12, <1>13, <1>14 DEF lo, hi, R

\* The rows that reach a join do not change while an input row runs.
LEMMA ReachStandsStill ==
  ASSUME UNCHANGED <<plan, tables, input>>
  PROVE  \A n : Reach(n)' = Reach(n)
<1>1. \A k, P : Extensions(k, P)' = Extensions(k, P)
  BY RowStandsStill
<1>. QED
  BY <1>1 DEF Reach, PickSeqs

\* A row's picks, one by one.
LEMMA ReachedPicks ==
  ASSUME NEW n \in Nat, NEW p \in Reach(n)
  PROVE  /\ p \in Seq(Seq(Nat)) /\ Len(p) = n
         /\ \A k \in 1 .. n : p[k] \in Extensions(k, SubSeq(p, 1, k - 1))
BY DEF Reach, PickSeqs

\* A block that leaves the frames alone and what is behind it passes no row.
LEMMA StayingPassesNone ==
  ASSUME InRow, RowStep, UNCHANGED frames, K <= N,
         \A x \in Extensions(K, Picks) : Past(K, x)' <=> Past(K, x)
  PROVE  \A n \in 0 .. N : \A p \in Reach(n) : Passed(p)' <=> Passed(p)
<1>1. /\ K \in Nat \ {0} /\ K = Len(frames) + 1 /\ Len(frames) \in Nat /\ N \in Nat /\ Prefix(K) = Picks
  BY RunningRow
<1>2. UNCHANGED <<plan, tables, input>>
  BY RowStepKeepsTables
<1>3. K' = K /\ Picks' = Picks /\ \A k : Prefix(k)' = Prefix(k)
  BY <1>2, OthersKeepFrames DEF InRow, RowInv
<1>4. \A k, x : k <= Len(frames) => (Past(k, x)' <=> Past(k, x))
  BY <1>3 DEF Past
<1>. TAKE n \in 0 .. N
<1>. TAKE p \in Reach(n)
<1>5. n \in Nat /\ Len(p) = n /\ \A k \in 1 .. n : p[k] \in Extensions(k, SubSeq(p, 1, k - 1))
  BY <1>1, ReachedPicks
<1>6. ASSUME NEW k \in 1 .. Len(p), k <= K, SubSeq(p, 1, k - 1) = Prefix(k)
      PROVE  Past(k, p[k])' <=> Past(k, p[k])
  <2>1. CASE k <= Len(frames)
    BY <1>4, <2>1
  <2>2. CASE k = K
    BY <1>1, <1>3, <1>5, <1>6, <2>2
  <2>. QED
    BY <1>1, <1>5, <1>6, <2>1, <2>2
<1>7. Passed(p)' <=> \E k \in 1 .. Len(p) : k <= K /\ SubSeq(p, 1, k - 1) = Prefix(k) /\ Past(k, p[k])'
  BY <1>3 DEF Passed
<1>. QED
  BY <1>6, <1>7 DEF Passed

\* Nor does a loop that opens, at a row with what was behind behind it.
LEMMA OpeningPassesNone ==
  ASSUME InRow, RowStep, NEW f, Open(f), K <= N, FrameOK(K, f, Picks),
         \A x \in Extensions(K, Picks) : Past(K, x) <=> (x # f.row /\ x[1] < f.row[1])
  PROVE  \A n \in 0 .. N : \A p \in Reach(n) : Passed(p)' <=> Passed(p)
<1>1. /\ K \in Nat \ {0} /\ K = Len(frames) + 1 /\ Len(frames) \in Nat /\ N \in Nat /\ Prefix(K) = Picks
      /\ Picks \in Reach(Len(frames))
  BY RunningRow
<1>2. UNCHANGED <<plan, tables, input>>
  BY RowStepKeepsTables
<1>3. /\ K' = K + 1 /\ Picks' = Append(Picks, f.row) /\ \A k \in 1 .. K : Prefix(k)' = Prefix(k)
      /\ pc' = "entry" /\ frames' = Append(frames, f) /\ frames \in Seq(Frame) /\ f \in Frame
  BY <1>2, OpeningKeepsFrames DEF InRow, RowInv, Open, FramesOK, FrameOK
<1>4. Len(frames') = K
  BY <1>1, <1>3, AppendProperties
<1>5. Picks'[K] = f.row /\ \A k \in 1 .. Len(frames) : Picks'[k] = Picks[k]
  <2>1. Picks \in Seq(Seq(Nat)) /\ Len(Picks) = Len(frames) /\ f.row \in Seq(Nat)
    BY <1>1, <1>3, ReachedPicks DEF Frame
  <2>. QED
    BY <1>1, <1>3, <2>1, AppendProperties
<1>6. ASSUME NEW k \in 1 .. Len(frames), NEW x PROVE Past(k, x)' <=> Past(k, x)
  <2>1. k <= Len(frames) /\ k <= Len(frames')
    BY <1>1, <1>4
  <2>2. Past(k, x) <=> (x # Picks[k] /\ x[1] < Picks[k][1])
    BY <2>1 DEF Past
  <2>3. Past(k, x)' <=> (x # Picks'[k] /\ x[1] < Picks'[k][1])
    BY <2>1 DEF Past
  <2>. QED
    BY <1>5, <2>2, <2>3
<1>7. ASSUME NEW x \in Extensions(K, Picks), NEW k, k = K PROVE Past(k, x)' <=> Past(k, x)
  <2>1. k <= Len(frames') /\ ~ (k <= Len(frames))
    BY <1>1, <1>4, <1>7
  <2>2. Past(k, x)' <=> (x # Picks'[k] /\ x[1] < Picks'[k][1])
    BY <2>1 DEF Past
  <2>. QED
    BY <1>5, <1>7, <2>2
<1>8. ASSUME NEW x, NEW k, k = K + 1 PROVE ~ Past(k, x)'
  <2>1. ~ (k <= Len(frames'))
    BY <1>1, <1>4, <1>8
  <2>. QED
    BY <1>3, <2>1 DEF Past
<1>. TAKE n \in 0 .. N
<1>. TAKE p \in Reach(n)
<1>9. n \in Nat /\ Len(p) = n /\ \A k \in 1 .. n : p[k] \in Extensions(k, SubSeq(p, 1, k - 1))
  <2>1. n \in Nat
    BY <1>1
  <2>. QED
    BY <2>1, ReachedPicks
<1>10. ASSUME NEW k \in 1 .. Len(p), k <= K, SubSeq(p, 1, k - 1) = Prefix(k)
       PROVE  Past(k, p[k])' <=> Past(k, p[k])
  <2>1. CASE k \in 1 .. Len(frames)
    BY <1>6, <2>1
  <2>2. CASE k = K
    <3>1. p[k] \in Extensions(K, Picks)
      BY <1>1, <1>9, <1>10, <2>2
    <3>. QED
      BY <1>7, <2>2, <3>1
  <2>. QED
    BY <1>1, <1>9, <1>10, <2>1, <2>2
<1>11. ASSUME NEW k \in 1 .. Len(p), k <= K', SubSeq(p, 1, k - 1) = Prefix(k)', Past(k, p[k])'
       PROVE  Passed(p)
  <2>1. k # K + 1
    BY <1>8, <1>11
  <2>2. k <= K /\ k \in 1 .. K
    BY <1>1, <1>3, <1>9, <1>11, <2>1
  <2>3. SubSeq(p, 1, k - 1) = Prefix(k)
    BY <1>3, <1>11, <2>2
  <2>4. Past(k, p[k])
    BY <1>10, <1>11, <2>2, <2>3
  <2>. QED
    BY <2>2, <2>3, <2>4 DEF Passed
<1>12. ASSUME NEW k \in 1 .. Len(p), k <= K, SubSeq(p, 1, k - 1) = Prefix(k), Past(k, p[k])
       PROVE  Passed(p)'
  <2>1. k <= K' /\ k \in 1 .. K
    BY <1>1, <1>3, <1>9, <1>12
  <2>2. SubSeq(p, 1, k - 1) = Prefix(k)'
    BY <1>3, <1>12, <2>1
  <2>3. Past(k, p[k])'
    BY <1>10, <1>12
  <2>. QED
    BY <2>1, <2>2, <2>3 DEF Passed
<1>13. Passed(p) => Passed(p)'
  BY <1>12 DEF Passed
<1>14. Passed(p)' => Passed(p)
  BY <1>11 DEF Passed
<1>. QED
  BY <1>13, <1>14

\* What is behind a loop that goes on: what was, and the row it stood at.
LEMMA ContinuePast ==
  ASSUME InRow, RowStep, plan.many, frames # <<>>, Continue, NEW n, n = Len(frames),
         NEW x \in Extensions(n, Prefix(n))
  PROVE  Past(n, x)' <=> (x = frames[n].row \/ Past(n, x))
<1>. DEFINE f == frames[n]
            P == Prefix(n)
            c == Before(P)
<1>1. UNCHANGED <<plan, tables, input>>
  BY RowStepKeepsTables
<1>2. N \in Nat /\ FramesOK /\ Built
  BY RunningRow DEF InRow, RowInv
<1>3. /\ n \in Nat \ {0} /\ K' = n /\ Picks' = P /\ frames' = SubSeq(frames, 1, n - 1)
      /\ frames \in Seq(Frame)
  BY <1>1, <1>2, ClosingKeepsFrames DEF Continue, FramesOK
<1>4. n \in 1 .. n /\ n <= N /\ n \in 1 .. N
  BY <1>2, <1>3 DEF FramesOK
<1>5. FrameOK(n, f, P) /\ f \in Frame
  BY <1>2, <1>4 DEF FramesOK, FrameOK
<1>6. RangeOK(n, c) /\ Lo(n, c) \in Nat /\ Hi(n, c) \in Nat
  BY <1>4, RunningRow DEF K, RangeOK
<1>7. cur' = Continued(f) /\ pc' = IF Joins[n].kind = "fold" THEN "done" ELSE "header"
  BY DEF Continue
<1>8. cur'.i = f.i /\ cur'.end = f.end /\ cur'.any = TRUE
  BY <1>5, <1>7 DEF Continued, Frame
<1>9. Picks[n] = f.row
  BY <1>2, <1>4, PicksReach
<1>10. Past(n, x) <=> (x # f.row /\ x[1] < f.row[1])
  BY <1>4, <1>9 DEF Past
<1>11. ~ (n <= Len(frames'))
  <2>1. Len(frames') = n - 1
    BY <1>3, Prefixes
  <2>. QED
    BY <1>3, <2>1
<1>12. /\ \A k, y : Lo(k, y)' = Lo(k, y)
       /\ \A k, i : RowAt(k, i)' = RowAt(k, i)
       /\ \A Q : Before(Q)' = Before(Q)
  BY <1>1, RowStandsStill
<1>13. Before(Picks)' = c
  BY <1>3, <1>12
<1>14. Lo(n, Before(Picks))' = Lo(n, c)
  BY <1>12, <1>13
<1>15. Past(n, x)' <=> IF pc' \in {"header", "body", "after"}
                        THEN \/ cur'.any /\ cur'.end = 0
                             \/ \E i \in Lo(n, c) + 1 .. cur'.i : x = <<RowAt(n, i)>>
                        ELSE pc' = "done"
  BY <1>11, <1>12, <1>14 DEF Past
<1>. HIDE DEF f, P, c
<1>16. CASE Joins[n].kind = "fold"
  <2>1. x = f.row
    BY <1>5, <1>16 DEF FrameOK, Extensions, P
  <2>. QED
    BY <1>7, <1>15, <1>16, <2>1 DEF f
<1>17. CASE Joins[n].kind # "fold"
  <2>1. pc' = "header" /\ Looping(n)
    BY <1>7, <1>17 DEF Looping
  <2>2. Past(n, x)' <=> (f.end = 0 \/ \E i \in Lo(n, c) + 1 .. f.i : x = <<RowAt(n, i)>>)
    BY <1>8, <1>15, <2>1
  <2>3. CASE f.row # <<>>
    <3>1. /\ f.i \in Lo(n, c) + 1 .. Hi(n, c) /\ f.end = Hi(n, c)
          /\ f.row = <<RowAt(n, f.i)>> /\ f.row \in Extensions(n, P)
      BY <1>5, <2>1, <2>3 DEF FrameOK, c
    <3>2. PICK r \in Matches(n, P) : f.row = <<r>>
      BY <1>17, <2>3, <3>1 DEF Extensions
    <3>3. PICK q \in Matches(n, P) : x = <<q>>
      BY <1>17, <3>2 DEF Extensions, P
    <3>4. q \in Candidates(n, c)
      BY <3>3, MatchesAreCandidates DEF c
    <3>5. f.end # 0
      BY <1>6, <3>1
    <3>6. (\E h \in Lo(n, c) + 1 .. f.i : <<q>> = <<RowAt(n, h)>>)
             <=> (<<q>> = <<RowAt(n, f.i)>> \/ (<<q>> # <<RowAt(n, f.i)>> /\ q < RowAt(n, f.i)))
      BY <1>6, <3>1, <3>4, BehindAnEntry
    <3>7. x[1] = q /\ f.row[1] = RowAt(n, f.i)
      BY <3>1, <3>3
    <3>8. (x = f.row \/ Past(n, x)) <=> (<<q>> = <<RowAt(n, f.i)>> \/ (<<q>> # <<RowAt(n, f.i)>> /\ q < RowAt(n, f.i)))
      BY <1>10, <3>1, <3>3, <3>7 DEF f
    <3>. QED
      BY <2>2, <3>3, <3>5, <3>6, <3>8 DEF f
  <2>4. CASE f.row = <<>>
    <3>1. f.end = 0 /\ f.row \in Extensions(n, P)
      BY <1>5, <2>4 DEF FrameOK
    <3>2. \A r : <<r>> # <<>>
      OBVIOUS
    <3>3. Joins[n].kind = "left" /\ Matches(n, P) = {}
      BY <1>17, <2>4, <3>1, <3>2 DEF Extensions
    <3>4. x = <<>>
      BY <3>3 DEF Extensions, P
    <3>. QED
      BY <2>2, <2>4, <3>1, <3>4 DEF f
  <2>. QED
    BY <2>3, <2>4
<1>. QED
  BY <1>16, <1>17

\* A prefix, its last place apart.
SameAt(p, q, m) == p[m] = q[m]

\* A prefix is a given row exactly if it is so up to its last place and at it.
LEMMA PrefixByPlaces ==
  ASSUME NEW S, NEW p \in Seq(S), NEW m \in 1 .. Len(p), NEW q \in Seq(S), Len(q) = m
  PROVE  SubSeq(p, 1, m) = q <=> (SubSeq(p, 1, m - 1) = SubSeq(q, 1, m - 1) /\ SameAt(p, q, m))
<1>0. m \in Nat \ {0} /\ m \in 0 .. Len(p) /\ m - 1 \in 0 .. Len(p) /\ m - 1 \in 0 .. Len(q)
      /\ m \in 1 .. m /\ m \in 0 .. Len(q)
  BY LenProperties
<1>. DEFINE a == SubSeq(p, 1, m)
            b == SubSeq(p, 1, m - 1)
            d == SubSeq(q, 1, m - 1)
<1>1. a \in Seq(S) /\ Len(a) = m /\ \A i \in 1 .. m : a[i] = p[i]
  BY <1>0, Prefixes
<1>2. b \in Seq(S) /\ Len(b) = m - 1 /\ \A i \in 1 .. m - 1 : b[i] = p[i]
  BY <1>0, Prefixes
<1>3. d \in Seq(S) /\ Len(d) = m - 1 /\ \A i \in 1 .. m - 1 : d[i] = q[i]
  BY <1>0, Prefixes
<1>. HIDE DEF a, b, d
<1>4. ASSUME a = q PROVE b = d /\ p[m] = q[m]
  <2>1. \A i \in 1 .. m : p[i] = q[i]
    BY <1>1, <1>4
  <2>2. \A i \in 1 .. m - 1 : i \in 1 .. m
    BY <1>0
  <2>3. \A i \in 1 .. m - 1 : b[i] = d[i]
    BY <1>2, <1>3, <2>1, <2>2
  <2>. QED
    BY <1>0, <1>2, <1>3, <2>1, <2>3, SameSequence
<1>5. ASSUME b = d, p[m] = q[m] PROVE a = q
  <2>1. \A i \in 1 .. m : a[i] = q[i]
    <3>. TAKE i \in 1 .. m
    <3>1. CASE i = m
      BY <1>1, <1>5, <3>1
    <3>2. CASE i # m
      <4>1. i \in 1 .. m - 1
        BY <1>0, <3>2
      <4>. QED
        BY <1>1, <1>2, <1>3, <1>5, <4>1
    <3>. QED
      BY <3>1, <3>2
  <2>. QED
    BY <1>1, <2>1, SameSequence
<1>. QED
  BY <1>4, <1>5 DEF a, b, d, SameAt

\* A loop that goes on has passed the row it stood at, and no other than were.
LEMMA ContinuePasses ==
  ASSUME InRow, RowStep, plan.many, frames # <<>>, Continue,
         pc = "done" \/ (pc = "entry" /\ K > N)
  PROVE  \A n \in 0 .. N : \A p \in Reach(n) : Passed(p)' <=> (Passed(p) \/ p = Picks)
<1>1. PICK m : m = Len(frames)
  OBVIOUS
<1>2. UNCHANGED <<plan, tables, input>>
  BY RowStepKeepsTables
<1>3. N \in Nat /\ FramesOK /\ Prefix(K) = Picks /\ Picks \in Reach(m) /\ K = m + 1
  BY <1>1, RunningRow DEF InRow, RowInv
<1>4. /\ m \in Nat \ {0} /\ K' = m /\ Picks' = Prefix(m) /\ frames' = SubSeq(frames, 1, m - 1)
      /\ frames \in Seq(Frame) /\ \A k \in 1 .. m : Prefix(k)' = Prefix(k)
  BY <1>1, <1>2, <1>3, ClosingKeepsFrames DEF Continue, FramesOK
<1>5. Picks \in Seq(Seq(Nat)) /\ Len(Picks) = m /\ Picks[m] = frames[m].row
  <2>1. m \in Nat /\ m \in 1 .. Len(frames)
    BY <1>1, <1>4
  <2>2. Picks[m] = frames[m].row
    BY <1>3, <2>1, PicksReach
  <2>. QED
    BY <1>3, <2>1, <2>2, ReachedPicks
<1>6. Len(frames') = m - 1
  <2>1. m - 1 \in 0 .. Len(frames)
    BY <1>1, <1>4
  <2>. QED
    BY <1>4, <2>1, Prefixes
<1>7. \A k \in 1 .. m - 1 : Picks'[k] = Picks[k]
  <2>1. m - 1 \in 0 .. Len(Picks)
    BY <1>4, <1>5
  <2>. QED
    BY <1>4, <1>5, <2>1, Prefixes DEF Prefix
<1>8. ASSUME NEW k \in 1 .. m - 1, NEW x PROVE Past(k, x)' <=> Past(k, x)
  <2>1. k <= Len(frames) /\ k <= Len(frames')
    BY <1>1, <1>4, <1>6
  <2>2. Past(k, x) <=> (x # Picks[k] /\ x[1] < Picks[k][1])
    BY <2>1 DEF Past
  <2>3. Past(k, x)' <=> (x # Picks'[k] /\ x[1] < Picks'[k][1])
    BY <2>1 DEF Past
  <2>. QED
    BY <1>7, <2>2, <2>3
<1>9. ASSUME NEW x \in Extensions(m, Prefix(m)) PROVE Past(m, x)' <=> (x = Picks[m] \/ Past(m, x))
  BY <1>1, <1>5, ContinuePast
<1>10. ASSUME pc = "done", NEW x PROVE Past(m + 1, x)
  <2>1. ~ (m + 1 <= Len(frames))
    BY <1>1, <1>4
  <2>. QED
    BY <1>10, <2>1 DEF Past
<1>. TAKE n \in 0 .. N
<1>. TAKE p \in Reach(n)
<1>11. n \in Nat
  BY <1>3
<1>12. p \in Seq(Seq(Nat)) /\ Len(p) = n /\ \A k \in 1 .. n : p[k] \in Extensions(k, SubSeq(p, 1, k - 1))
  BY <1>11, ReachedPicks
<1>13. ASSUME m <= n
       PROVE  SubSeq(p, 1, m) = Picks <=> (SubSeq(p, 1, m - 1) = Prefix(m) /\ p[m] = Picks[m])
  <2>1. m \in 1 .. Len(p)
    BY <1>4, <1>11, <1>12, <1>13
  <2>. DEFINE Q == Picks
              S == Seq(Nat)
  <2>2. Q \in Seq(S) /\ Len(Q) = m /\ p \in Seq(S)
    BY <1>5, <1>12
  <2>. HIDE DEF Q, S
  <2>3. SubSeq(p, 1, m) = Q <=> (SubSeq(p, 1, m - 1) = SubSeq(Q, 1, m - 1) /\ SameAt(p, Q, m))
    BY <2>1, <2>2, PrefixByPlaces
  <2>. QED
    BY <2>3 DEF Prefix, SameAt, Q
<1>14. ASSUME NEW k \in 1 .. Len(p), k <= K', SubSeq(p, 1, k - 1) = Prefix(k)', Past(k, p[k])'
       PROVE  Passed(p) \/ p = Picks
  <2>1. k \in 1 .. m /\ k <= K /\ SubSeq(p, 1, k - 1) = Prefix(k) /\ k \in 1 .. n
    BY <1>3, <1>4, <1>11, <1>12, <1>14
  <2>2. CASE k \in 1 .. m - 1
    BY <1>8, <1>14, <2>1, <2>2 DEF Passed
  <2>3. CASE k = m
    <3>1. p[m] \in Extensions(m, Prefix(m)) /\ Past(m, p[m])'
      BY <1>12, <1>14, <2>1, <2>3
    <3>2. p[m] = Picks[m] \/ Past(m, p[m])
      BY <1>9, <3>1
    <3>3. CASE Past(m, p[m])
      BY <2>1, <2>3, <3>3 DEF Passed
    <3>4. CASE p[m] = Picks[m]
      <4>1. SubSeq(p, 1, m) = Picks /\ m <= n
        BY <1>11, <1>13, <2>1, <2>3, <3>4
      <4>2. CASE n = m
        BY <1>12, <4>1, <4>2, WholePrefix
      <4>3. CASE n # m
        <5>1. m + 1 \in 1 .. Len(p) /\ m + 1 <= K /\ m + 1 - 1 = m /\ K <= N
          BY <1>3, <1>4, <1>11, <1>12, <4>1, <4>3
        <5>2. pc = "done"
          BY <1>3, <1>4, <5>1
        <5>3. PICK q \in 1 .. Len(p) : q = m + 1
          BY <5>1
        <5>4. q <= K /\ SubSeq(p, 1, q - 1) = Prefix(q) /\ Past(q, p[q])
          BY <1>3, <1>4, <1>10, <4>1, <5>1, <5>2, <5>3
        <5>. QED
          BY <5>4 DEF Passed
      <4>. QED
        BY <4>2, <4>3
    <3>. QED
      BY <3>2, <3>3, <3>4
  <2>. QED
    BY <1>4, <2>1, <2>2, <2>3
<1>15. ASSUME m <= n, SubSeq(p, 1, m) = Picks PROVE Passed(p)'
  <2>1. SubSeq(p, 1, m - 1) = Prefix(m) /\ p[m] = Picks[m] /\ m \in 1 .. n /\ m \in 1 .. m /\ m <= K'
    BY <1>4, <1>11, <1>13, <1>15
  <2>2. p[m] \in Extensions(m, Prefix(m))
    BY <1>12, <2>1
  <2>3. Past(m, p[m])'
    BY <1>9, <2>1, <2>2
  <2>4. SubSeq(p, 1, m - 1) = Prefix(m)' /\ m \in 1 .. Len(p)
    BY <1>4, <1>12, <2>1
  <2>. QED
    BY <2>1, <2>3, <2>4 DEF Passed
<1>16. ASSUME NEW k \in 1 .. Len(p), k <= K, SubSeq(p, 1, k - 1) = Prefix(k), Past(k, p[k])
       PROVE  Passed(p)'
  <2>1. k \in 1 .. n
    BY <1>12
  <2>2. CASE k \in 1 .. m - 1
    <3>1. Past(k, p[k])' /\ k <= K' /\ k \in 1 .. m
      BY <1>4, <1>8, <1>16, <2>2
    <3>2. SubSeq(p, 1, k - 1) = Prefix(k)'
      BY <1>4, <1>16, <3>1
    <3>. QED
      BY <3>1, <3>2 DEF Passed
  <2>3. CASE k = m
    <3>0. p[k] \in Extensions(k, Prefix(k))
      BY <1>12, <1>16, <2>1
    <3>1. p[m] \in Extensions(m, Prefix(m)) /\ Past(m, p[m]) /\ m \in 1 .. m
      BY <1>4, <1>16, <2>3, <3>0
    <3>2. Past(m, p[m])' /\ m <= K'
      BY <1>4, <1>9, <3>1
    <3>3. SubSeq(p, 1, m - 1) = Prefix(m)' /\ m \in 1 .. Len(p)
      BY <1>4, <1>16, <2>3, <3>1
    <3>. QED
      BY <3>2, <3>3 DEF Passed
  <2>4. CASE k = m + 1
    <3>1. k - 1 = m /\ m <= n
      BY <1>4, <1>11, <2>1, <2>4
    <3>2. SubSeq(p, 1, m) = Picks
      BY <1>3, <1>16, <2>4, <3>1
    <3>. QED
      BY <1>15, <3>1, <3>2
  <2>. QED
    BY <1>3, <1>4, <1>11, <1>16, <2>1, <2>2, <2>3, <2>4
<1>17. ASSUME p = Picks PROVE Passed(p)'
  <2>1. n = m
    BY <1>5, <1>12, <1>17
  <2>2. SubSeq(p, 1, m) = Picks
    BY <1>12, <1>17, <2>1, WholePrefix
  <2>. QED
    BY <1>4, <1>15, <2>1, <2>2
<1>18. Passed(p)' => Passed(p) \/ p = Picks
  BY <1>14 DEF Passed
<1>19. Passed(p) => Passed(p)'
  BY <1>16 DEF Passed
<1>. QED
  BY <1>17, <1>18, <1>19

\* What is behind the loop whose block runs, before a step and after it.
LEMMA PastHere ==
  ASSUME InRow, NEW x
  PROVE  Past(K, x) <=> IF pc \in {"header", "body", "after"}
                        THEN \/ cur.any /\ cur.end = 0
                             \/ \E i \in Lo(K, Before(Picks)) + 1 .. cur.i : x = <<RowAt(K, i)>>
                        ELSE pc = "done"
<1>1. ~ (K <= Len(frames))
  BY RunningRow
<1>. QED
  BY <1>1 DEF Past

\* The same of the state after a block that opened no loop and closed none.
LEMMA PastThere ==
  ASSUME InRow, RowStep, UNCHANGED frames, NEW x
  PROVE  Past(K, x)' <=> IF pc' \in {"header", "body", "after"}
                         THEN \/ cur'.any /\ cur'.end = 0
                              \/ \E i \in Lo(K, Before(Picks)) + 1 .. cur'.i : x = <<RowAt(K, i)>>
                         ELSE pc' = "done"
<1>1. ~ (K <= Len(frames))
  BY RunningRow
<1>2. UNCHANGED <<plan, tables, input>>
  BY RowStepKeepsTables
<1>3. K' = K /\ Picks' = Picks
  BY <1>2, OthersKeepFrames DEF InRow, RowInv
<1>4. /\ \A k, y : Lo(k, y)' = Lo(k, y)
      /\ \A k, i : RowAt(k, i)' = RowAt(k, i)
      /\ \A Q : Before(Q)' = Before(Q)
  BY <1>2, RowStandsStill
<1>5. Before(Picks)' = Before(Picks)
  BY <1>3, <1>4
<1>6. Lo(K, Before(Picks))' = Lo(K, Before(Picks))
  BY <1>3, <1>4, <1>5
<1>7. \A i : RowAt(K, i)' = RowAt(K, i)
  BY <1>3, <1>4
<1>. QED
  BY <1>1, <1>3, <1>6, <1>7 DEF Past

\* What extends a row is one thing, where the join is a fold or nothing matches; else it
\* is a row that matches.
LEMMA ExtensionsAre ==
  ASSUME NEW k, NEW P, NEW x \in Extensions(k, P)
  PROVE  /\ Joins[k].kind = "fold" => x = Sorting(Matches(k, P))
         /\ Joins[k].kind = "left" /\ Matches(k, P) = {} => x = <<>>
         /\ Joins[k].kind # "fold" /\ (Joins[k].kind = "left" => Matches(k, P) # {}) =>
              \E r \in Matches(k, P) : x = <<r>>
BY DEF Extensions

\* The rows gone through, block by block: none passes but where a loop goes on.
SamePassed == \A n \in 0 .. N : \A p \in Reach(n) : Passed(p)' <=> Passed(p)

\* Entry passes no row.
LEMMA EntryPasses ==
  ASSUME RowInv, Entry
  PROVE  SamePassed
<1>. DEFINE c == Before(Picks)
<1>1. InRow /\ RowStep
  BY EntryKeeps
<1>2. K <= N /\ K \in 1 .. N /\ Outer = c /\ RangeOK(K, c) /\ statics[K] = Prepared(K)
  BY <1>1, RunningRow DEF Entry, Probing
<1>3. ProbeOf(K)[1] = Lo(K, c)
  BY <1>2 DEF ProbeOf, Lo
<1>4. /\ cur'.i = Lo(K, c) /\ cur'.any = FALSE /\ pc' \in {"header", "foldheader"} /\ frames' = frames
      /\ pc = "entry"
  BY <1>3 DEF Entry, NoFrame, Probing
<1>5. Lo(K, c) + 1 .. cur'.i = {}
  <2>1. Lo(K, c) \in Nat
    BY <1>2 DEF RangeOK
  <2>. QED
    BY <1>4, <2>1
<1>6. ASSUME NEW x PROVE Past(K, x)' <=> Past(K, x)
  <2>1. ~ Past(K, x)
    BY <1>1, <1>4, PastHere
  <2>2. ~ Past(K, x)'
    BY <1>1, <1>4, <1>5, PastThere
  <2>. QED
    BY <2>1, <2>2
<1>. QED
  BY <1>1, <1>2, <1>4, <1>6, StayingPassesNone DEF SamePassed

\* Header passes no row.
LEMMA HeaderPasses ==
  ASSUME RowInv, Header
  PROVE  SamePassed
<1>1. InRow /\ RowStep
  BY HeaderKeeps
<1>2. frames' = frames /\ cur' = cur /\ pc = "header" /\ pc' \in {"body", "after"}
  BY DEF Header, HeaderTest
<1>3. K <= N
  BY <1>2 DEF RowInv, CurOK
<1>4. ASSUME NEW x PROVE Past(K, x)' <=> Past(K, x)
  BY <1>1, <1>2, PastHere, PastThere
<1>. QED
  BY <1>1, <1>2, <1>3, <1>4, StayingPassesNone DEF SamePassed

\* Body passes no row that matches: the one it rejects extends nothing.
LEMMA BodyPasses ==
  ASSUME RowInv, Body
  PROVE  SamePassed
<1>. DEFINE c == Before(Picks)
            i == cur.i + 1
            r == RowAt(K, i)
<1>1. InRow /\ RowStep
  BY BodyKeeps
<1>2. K <= N /\ Looping(K) /\ LoopOK(K, cur, Picks) /\ cur \in Frame /\ cur.i < cur.end /\ pc = "body"
  BY DEF Body, RowInv, CurOK
<1>3. /\ EntryAt(K, cur.i) = <<r>> /\ i \in Lo(K, c) + 1 .. Hi(K, c)
      /\ cur.end = Hi(K, c) /\ cur.i \in Nat /\ r \in Nat
  BY <1>1, <1>2, NextEntry
<1>4. /\ Outer = c /\ RangeOK(K, c) /\ K \in 1 .. N
      /\ Lo(K, c) \in Nat /\ Hi(K, c) \in Nat
  BY <1>1, <1>2, RunningRow DEF RangeOK
<1>5. <<r>> # <<>> /\ i - 1 = cur.i /\ cur.end # 0
  BY <1>2, <1>3
<1>6. ASSUME NEW x PROVE Past(K, x) <=> \E h \in Lo(K, c) + 1 .. i - 1 : x = <<RowAt(K, h)>>
  BY <1>1, <1>2, <1>5, PastHere
<1>7. Joins[K].kind # "fold"
  BY <1>2 DEF Looping
<1>8. CASE Truth(K, c, <<r>>)
  <2>. DEFINE f == [i |-> i, end |-> cur.end, any |-> TRUE, row |-> <<r>>]
  <2>1. Open(f)
    BY <1>3, <1>4, <1>5, <1>8 DEF Body
  <2>2. f.i = i /\ f.end = Hi(K, c) /\ f.any = TRUE /\ f.row = <<r>> /\ f \in Frame
    BY <1>3, <1>4 DEF Frame
  <2>3. r \in Matches(K, Picks)
    BY <1>3, <1>4, <1>8, RangeHasMatches
  <2>4. <<r>> \in Extensions(K, Picks)
    <3>. HIDE DEF r
    <3>. QED
      BY <1>7, <2>3 DEF Extensions
  <2>. HIDE DEF f, i, r
  <2>5. FrameOK(K, f, Picks)
    BY <1>2, <1>3, <1>5, <2>2, <2>4 DEF FrameOK, Hit, r
  <2>6. ASSUME NEW x \in Extensions(K, Picks) PROVE Past(K, x) <=> (x # f.row /\ x[1] < f.row[1])
    <3>1. PICK q \in Matches(K, Picks) : x = <<q>>
      BY <1>7, <2>3, ExtensionsAre
    <3>2. q \in Candidates(K, c)
      BY <3>1, MatchesAreCandidates DEF c
    <3>3. (\E h \in Lo(K, c) + 1 .. i - 1 : <<q>> = <<RowAt(K, h)>>) <=> (<<q>> # <<RowAt(K, i)>> /\ q < RowAt(K, i))
      BY <1>3, <1>4, <3>2, BehindAnEntry
    <3>4. x[1] = q /\ f.row[1] = RowAt(K, i) /\ f.row = <<RowAt(K, i)>>
      BY <2>2, <3>1 DEF r
    <3>. QED
      BY <1>6, <3>1, <3>3, <3>4
  <2>. QED
    BY <1>1, <1>2, <2>1, <2>5, <2>6, OpeningPassesNone DEF SamePassed
<1>9. CASE ~ Truth(K, c, <<r>>)
  <2>1. cur' = Rejected(cur) /\ pc' = "header" /\ frames' = frames
    BY <1>3, <1>4, <1>5, <1>9 DEF Body
  <2>2. cur'.i = i /\ cur'.end = cur.end
    BY <1>2, <1>3, <2>1 DEF Rejected, Frame
  <2>. HIDE DEF i, r
  <2>3. ASSUME NEW x PROVE Past(K, x)' <=> \E h \in Lo(K, c) + 1 .. i : x = <<RowAt(K, h)>>
    BY <1>1, <1>5, <2>1, <2>2, PastThere
  <2>4. \A h : h \in Lo(K, c) + 1 .. i <=> (h \in Lo(K, c) + 1 .. i - 1 \/ h = i)
    BY <1>3, <1>4
  <2>5. \A q \in Matches(K, Picks) : <<q>> # <<r>>
    <3>1. r \notin Matches(K, Picks)
      BY <1>3, <1>4, <1>9, RangeHasMatches DEF r
    <3>. QED
      BY <3>1
  <2>6. ASSUME NEW x \in Extensions(K, Picks) PROVE x # <<r>>
    <3>1. x = <<>> \/ \E q \in Matches(K, Picks) : x = <<q>>
      BY <1>7, ExtensionsAre DEF Extensions
    <3>. QED
      BY <1>5, <2>5, <3>1
  <2>7. ASSUME NEW x \in Extensions(K, Picks) PROVE Past(K, x)' <=> Past(K, x)
    BY <1>6, <2>3, <2>4, <2>6, <2>7 DEF r
  <2>. QED
    BY <1>1, <1>2, <2>1, <2>7, StayingPassesNone DEF SamePassed
<1>. QED
  BY <1>8, <1>9

\* After passes no row: a loop that is done has been through its range; a null-extension
\* is the one row that extends its own.
LEMMA AfterPasses ==
  ASSUME RowInv, After
  PROVE  SamePassed
<1>. DEFINE c == Before(Picks)
<1>1. InRow /\ RowStep /\ pc = "after"
  BY AfterKeeps DEF After
<1>2. K <= N /\ Looping(K) /\ LoopOK(K, cur, Picks) /\ cur \in Frame /\ cur.i >= cur.end
  BY DEF After, RowInv, CurOK
<1>3. RangeOK(K, c) /\ K \in 1 .. N /\ Lo(K, c) \in Nat /\ Hi(K, c) \in Nat
  BY <1>1, <1>2, RunningRow DEF RangeOK
<1>4. CASE Joins[K].kind = "left" /\ ~ cur.any
  <2>1. Open(NoFrame)
    BY <1>4 DEF After, Extension
  <2>2. /\ cur.end = Hi(K, c) /\ cur.i \in Lo(K, c) .. Hi(K, c)
        /\ \A i \in Lo(K, c) + 1 .. cur.i : ~ Truth(K, c, <<RowAt(K, i)>>)
    BY <1>2, <1>4 DEF LoopOK
  <2>3. cur.i = Hi(K, c)
    BY <1>2, <1>3, <2>2 DEF Frame
  <2>4. Matches(K, Picks) = {}
    BY <1>3, <2>2, <2>3, RangeHasMatches
  <2>5. <<>> \in Extensions(K, Picks)
    BY <1>4, <2>4 DEF Extensions
  <2>6. NoFrame \in Frame /\ NoFrame.i = 0 /\ NoFrame.end = 0 /\ NoFrame.any = FALSE /\ NoFrame.row = <<>>
    BY DEF NoFrame, Frame
  <2>7. FrameOK(K, NoFrame, Picks)
    BY <1>4, <2>5, <2>6 DEF FrameOK, Hit
  <2>8. ASSUME NEW x \in Extensions(K, Picks)
        PROVE  Past(K, x) <=> (x # NoFrame.row /\ x[1] < NoFrame.row[1])
    <3>1. x = <<>>
      BY <1>4, <2>4, ExtensionsAre
    <3>2. ~ Past(K, x)
      <4>1. \A i : <<RowAt(K, i)>> # <<>>
        OBVIOUS
      <4>. QED
        BY <1>1, <1>4, <3>1, <4>1, PastHere
    <3>. QED
      BY <2>6, <3>1, <3>2
  <2>. QED
    BY <1>1, <1>2, <2>1, <2>7, <2>8, OpeningPassesNone DEF SamePassed
<1>5. CASE ~ (Joins[K].kind = "left" /\ ~ cur.any)
  <2>1. pc' = "done" /\ frames' = frames
    BY <1>5 DEF After
  <2>2. ASSUME NEW x \in Extensions(K, Picks) PROVE Past(K, x)
    <3>1. CASE cur.i = 0 /\ cur.end = 0 /\ cur.any /\ Joins[K].kind = "left"
      BY <1>1, <3>1, PastHere
    <3>2. CASE ~ (cur.i = 0 /\ cur.end = 0 /\ cur.any /\ Joins[K].kind = "left")
      <4>1. /\ cur.end = Hi(K, c) /\ cur.i \in Lo(K, c) .. Hi(K, c)
            /\ cur.any <=> \E i \in Lo(K, c) + 1 .. cur.i : Truth(K, c, <<RowAt(K, i)>>)
        BY <1>2, <3>2 DEF LoopOK
      <4>2. cur.i = Hi(K, c)
        BY <1>2, <1>3, <4>1 DEF Frame
      <4>3. Joins[K].kind = "left" => Matches(K, Picks) # {}
        BY <1>3, <1>5, <4>1, <4>2, RangeHasMatches
      <4>4. PICK r \in Matches(K, Picks) : x = <<r>>
        BY <1>2, <4>3, ExtensionsAre DEF Looping
      <4>5. PICK i \in Lo(K, c) + 1 .. Hi(K, c) : RowAt(K, i) = r
        BY <1>3, RangeHasMatches
      <4>. QED
        BY <1>1, <4>2, <4>4, <4>5, PastHere
    <3>. QED
      BY <3>1, <3>2
  <2>3. ASSUME NEW x \in Extensions(K, Picks) PROVE Past(K, x)' <=> Past(K, x)
    BY <1>1, <2>1, <2>2, PastThere
  <2>. QED
    BY <1>1, <1>2, <2>1, <2>3, StayingPassesNone DEF SamePassed
<1>. QED
  BY <1>4, <1>5

\* A fold passes no row: its one extension opens when its rows are gone through.
LEMMA FoldPasses ==
  ASSUME RowInv, FoldHeader \/ FoldBody
  PROVE  SamePassed
<1>1. InRow /\ RowStep /\ pc \in {"foldheader", "foldbody"}
  BY FoldHeaderKeeps, FoldBodyKeeps DEF FoldHeader, FoldBody
<1>2. K <= N /\ Joins[K].kind = "fold" /\ cur \in Frame
  BY <1>1 DEF RowInv, CurOK
<1>3. \A x : ~ Past(K, x)
  BY <1>1, PastHere
<1>4. CASE UNCHANGED frames
  <2>1. pc' \in {"foldheader", "foldbody", "trap"}
    BY <1>4 DEF FoldHeader, FoldBody, Open
  <2>2. ASSUME NEW x \in Extensions(K, Picks) PROVE Past(K, x)' <=> Past(K, x)
    BY <1>1, <1>3, <1>4, <2>1, PastThere
  <2>. QED
    BY <1>1, <1>2, <1>4, <2>2, StayingPassesNone DEF SamePassed
<1>5. CASE ~ UNCHANGED frames
  <2>. DEFINE f == [cur EXCEPT !.i = 0, !.end = 0]
  <2>1. FoldHeader /\ Open(f)
    BY <1>5 DEF FoldHeader, FoldBody
  <2>2. FrameOK(K, f, Picks)
    BY <1>1, <1>5, <2>1, FoldOpens DEF FoldHeader
  <2>3. ASSUME NEW x \in Extensions(K, Picks)
        PROVE  Past(K, x) <=> (x # f.row /\ x[1] < f.row[1])
    <3>. HIDE DEF f
    <3>1. f.row \in Extensions(K, Picks)
      BY <2>2 DEF FrameOK
    <3>2. x = f.row
      BY <1>2, <3>1, ExtensionsAre
    <3>. QED
      BY <1>3, <3>2
  <2>. HIDE DEF f
  <2>. QED
    BY <1>1, <1>2, <2>1, <2>2, <2>3, OpeningPassesNone DEF SamePassed
<1>. QED
  BY <1>4, <1>5

\* A map's probe passes no row: its one extension opens, or there is none.
LEMMA ProbeMapPasses ==
  ASSUME RowInv, ProbeMap, ~ (Matched(K) = <<>> /\ Joins[K].kind = "inner")
  PROVE  SamePassed
<1>. DEFINE row == Matched(K)
            f == [NoFrame EXCEPT !.any = row # <<>>, !.row = row]
<1>1. InRow /\ RowStep
  BY ProbeMapKeeps
<1>2. K <= N /\ ~ plan.many /\ Joins[K].kind \in {"inner", "left"} /\ pc = "entry"
  BY DEF ProbeMap, Probing
<1>3. Open(f)
  BY DEF ProbeMap
<1>4. FrameOK(K, f, Picks)
  BY <1>1, <1>2, MapOpens
<1>5. \/ Matches(K, Picks) = {}
      \/ \E r \in Nat : Matches(K, Picks) = {r}
  BY <1>1, <1>2, MatchedRow
<1>. HIDE DEF f
<1>6. f.row \in Extensions(K, Picks)
  BY <1>4 DEF FrameOK
<1>7. ASSUME NEW x \in Extensions(K, Picks)
      PROVE  Past(K, x) <=> (x # f.row /\ x[1] < f.row[1])
  <2>1. x = f.row
    <3>1. Joins[K].kind # "fold"
      BY <1>2
    <3>2. CASE Matches(K, Picks) = {}
      BY <1>6, <1>7, <3>1, <3>2 DEF Extensions
    <3>3. CASE Matches(K, Picks) # {}
      BY <1>5, <1>6, <1>7, <3>1, <3>3 DEF Extensions
    <3>. QED
      BY <3>2, <3>3
  <2>2. ~ Past(K, x)
    BY <1>1, <1>2, PastHere
  <2>. QED
    BY <2>1, <2>2
<1>. QED
  BY <1>1, <1>2, <1>3, <1>4, <1>7, OpeningPassesNone DEF SamePassed

-----------------------------------------------------------------------------
(* The rows emitted, and those at which each join's keys were evaluated.   *)

\* A row the query keeps.
Wanted(p) == Passes(plan.where, CellOf(N, p[N]))

\* The row join k was entered with, and is not through with.
Stands(k, p) == (k < K \/ (k = K /\ pc # "entry")) /\ p = Prefix(k)

\* Of the rows of a query: those that were passed and are kept, and those that
\* join k was entered with.
Kept == { p \in Reach(N) : Wanted(p) /\ (pc = "over" \/ Passed(p)) }
Visited(k) == { p \in Reach(k - 1) : pc = "over" \/ Passed(p) \/ Stands(k, p) }

\* A sequence of the elements of a set; one without repetitions.
Lists(a, S) == /\ a \in Seq(PickSeqs)
               /\ \A i \in DOMAIN a : a[i] \in S
               /\ \A p \in S : \E i \in DOMAIN a : a[i] = p
Distinct(a) == \A i, j \in DOMAIN a : i # j => a[i] # a[j]

OutOK == Lists(out, Kept) /\ \A i, j \in DOMAIN out : i < j => Precedes(out[i], out[j])
ProbedOK == \A k \in 1 .. N : Lists(probed[k], Visited(k)) /\ Distinct(probed[k])

\* The history of a row: none before it is served; then the rows kept of those passed,
\* in FROM order, and for each join the rows it was entered with.
HistInv ==
  /\ out \in Seq(PickSeqs) /\ probed \in [1 .. N -> Seq(PickSeqs)]
  /\ IF pc \in {"prepare", "refused", "ready"}
     THEN out = <<>> /\ \A k \in 1 .. N : probed[k] = <<>>
     ELSE OutOK /\ ProbedOK

\* An element more.
LEMMA ListsMore ==
  ASSUME NEW S, NEW a, Lists(a, S), NEW p \in PickSeqs
  PROVE  /\ Lists(Append(a, p), S \union {p})
         /\ Distinct(a) /\ p \notin S => Distinct(Append(a, p))
         /\ DOMAIN Append(a, p) = DOMAIN a \union {Len(a) + 1}
         /\ DOMAIN a = 1 .. Len(a) /\ Len(a) \in Nat
         /\ Append(a, p)[Len(a) + 1] = p /\ \A i \in DOMAIN a : Append(a, p)[i] = a[i]
<1>. DEFINE b == Append(a, p)
            n == Len(a)
            PS == PickSeqs
<1>1. a \in Seq(PS) /\ p \in PS
  BY DEF Lists
<1>. HIDE DEF PS
<1>2. /\ b \in Seq(PS) /\ Len(b) = n + 1 /\ b[n + 1] = p /\ \A i \in 1 .. n : b[i] = a[i]
      /\ n \in Nat /\ DOMAIN a = 1 .. n
  BY <1>1, AppendProperties, LenProperties
<1>3. DOMAIN b = 1 .. n + 1
  BY <1>2, LenProperties
<1>4. DOMAIN b = DOMAIN a \union {n + 1} /\ n + 1 \notin DOMAIN a
  BY <1>2, <1>3
<1>. HIDE DEF b, n
<1>5. Lists(b, S \union {p})
  <2>1. \A i \in DOMAIN b : b[i] \in S \union {p}
    BY <1>2, <1>4 DEF Lists
  <2>2. \A q \in S \union {p} : \E i \in DOMAIN b : b[i] = q
    <3>1. \A q \in S : \E i \in DOMAIN a : a[i] = q
      BY DEF Lists
    <3>. QED
      BY <1>2, <1>4, <3>1
  <2>. QED
    BY <1>2, <2>1, <2>2 DEF Lists, PS
<1>6. ASSUME Distinct(a), p \notin S PROVE Distinct(b)
  <2>1. \A i \in DOMAIN a : a[i] # p
    BY <1>6 DEF Lists
  <2>. QED
    BY <1>2, <1>4, <1>6, <2>1 DEF Distinct
<1>. QED
  BY <1>2, <1>4, <1>5, <1>6 DEF b, n

\* A sequence without repetitions is as long as its set is large.
LEMMA DistinctCounts ==
  ASSUME NEW S, NEW a, Lists(a, S), Distinct(a)
  PROVE  { a[i] : i \in DOMAIN a } = S /\ Len(a) = Cardinality(S)
<1>. DEFINE n == Len(a)
            f == [i \in 1 .. n |-> a[i]]
<1>1. n \in Nat /\ DOMAIN a = 1 .. n
  BY LenProperties DEF Lists
<1>2. \A i \in 1 .. n : a[i] \in S
  BY <1>1 DEF Lists
<1>3. \A p \in S : \E i \in 1 .. n : a[i] = p
  BY <1>1 DEF Lists
<1>4. \A i, j \in 1 .. n : i # j => a[i] # a[j]
  BY <1>1 DEF Distinct
<1>. HIDE DEF n
<1>5. f \in [1 .. n -> S] /\ \A i \in 1 .. n : f[i] = a[i]
  BY <1>2
<1>. HIDE DEF f
<1>6. f \in Bijection(1 .. n, S)
  BY <1>3, <1>4, <1>5 DEF Bijection, Injection, Surjection, IsInjective
<1>7. Cardinality(S) = n
  BY <1>1, <1>6, FS_CountingElements DEF ExistsBijection
<1>. QED
  BY <1>1, <1>2, <1>3, <1>7 DEF n

\* The two sets after a step, said of the rows before it.
LEMMA HistorySets ==
  ASSUME InRow, RowStep
  PROVE  /\ Kept' = { p \in Reach(N) : Wanted(p) /\ (pc' = "over" \/ Passed(p)') }
         /\ \A k : Visited(k)' = { p \in Reach(k - 1) : pc' = "over" \/ Passed(p)' \/ Stands(k, p)' }
         /\ \A p, q : Precedes(p, q)' <=> Precedes(p, q)
<1>1. UNCHANGED <<plan, tables, input>> /\ N' = N
  BY RowStepKeepsTables
<1>2. \A n : Reach(n)' = Reach(n)
  BY <1>1, ReachStandsStill
<1>3. \A p : Wanted(p)' <=> Wanted(p)
  <2>1. \A k, x : CellOf(k, x)' = CellOf(k, x)
    BY <1>1 DEF CellOf, Served, Joins
  <2>. QED
    BY <1>1, <2>1 DEF Wanted
<1>4. Kept' = { p \in Reach(N) : Wanted(p) /\ (pc' = "over" \/ Passed(p)') }
  BY <1>1, <1>2, <1>3 DEF Kept
<1>5. \A k : Visited(k)' = { p \in Reach(k - 1) : pc' = "over" \/ Passed(p)' \/ Stands(k, p)' }
  BY <1>2 DEF Visited
<1>6. \A p, q : Precedes(p, q)' <=> Precedes(p, q)
  BY <1>1 DEF Precedes
<1>. QED
  BY <1>4, <1>5, <1>6

\* A step that adds nothing to the history, and nothing to what it is of.
LEMMA HistoryStays ==
  ASSUME InRow, RowStep, HistInv, UNCHANGED <<out, probed>>,
         Kept' = Kept, \A k \in 1 .. N : Visited(k)' = Visited(k)
  PROVE  HistInv'
<1>1. N' = N
  BY RowStepKeepsTables
<1>2. pc \notin {"prepare", "refused", "ready"} /\ pc' \notin {"prepare", "refused", "ready"}
  BY DEF InRow, RowStep
<1>3. OutOK /\ ProbedOK /\ out \in Seq(PickSeqs) /\ probed \in [1 .. N -> Seq(PickSeqs)]
  BY <1>2 DEF HistInv
<1>4. OutOK'
  <2>1. Lists(out, Kept) /\ \A i, j \in DOMAIN out : i < j => Precedes(out[i], out[j])
    BY <1>3 DEF OutOK
  <2>2. \A p, q : Precedes(p, q)' <=> Precedes(p, q)
    BY HistorySets
  <2>3. Lists(out, Kept)'
    BY <2>1 DEF Lists
  <2>. QED
    BY <2>1, <2>2, <2>3 DEF OutOK
<1>5. ProbedOK'
  <2>1. ASSUME NEW k \in 1 .. N PROVE Lists(probed[k], Visited(k))' /\ Distinct(probed[k])'
    <3>1. Lists(probed[k], Visited(k)) /\ Distinct(probed[k])
      BY <1>3 DEF ProbedOK
    <3>. QED
      BY <3>1 DEF Lists, Distinct
  <2>. QED
    BY <1>1, <2>1 DEF ProbedOK
<1>. QED
  BY <1>1, <1>2, <1>3, <1>4, <1>5 DEF HistInv

\* A step that evaluates the keys of the join that comes next, at a row at which they
\* were not.
LEMMA HistoryProbes ==
  ASSUME InRow, RowStep, HistInv, K <= N, out' = out, Kept' = Kept,
         probed' = [probed EXCEPT ![K] = Append(@, Picks)], Picks \notin Visited(K),
         \A k \in 1 .. N : Visited(k)' = IF k = K THEN Visited(k) \union {Picks} ELSE Visited(k)
  PROVE  HistInv'
<1>1. N' = N /\ K \in 1 .. N
  BY RowStepKeepsTables, RunningRow
<1>2. pc \notin {"prepare", "refused", "ready"} /\ pc' \notin {"prepare", "refused", "ready"}
  BY DEF InRow, RowStep
<1>3. OutOK /\ ProbedOK /\ out \in Seq(PickSeqs) /\ probed \in [1 .. N -> Seq(PickSeqs)]
  BY <1>2 DEF HistInv
<1>4. OutOK'
  <2>1. Lists(out, Kept) /\ \A i, j \in DOMAIN out : i < j => Precedes(out[i], out[j])
    BY <1>3 DEF OutOK
  <2>2. \A p, q : Precedes(p, q)' <=> Precedes(p, q)
    BY HistorySets
  <2>3. Lists(out, Kept)'
    BY <2>1 DEF Lists
  <2>. QED
    BY <2>1, <2>2, <2>3 DEF OutOK
<1>5. Picks \in PickSeqs
  BY PicksOfFrames DEF InRow, RowInv, FramesOK
<1>6. /\ Lists(Append(probed[K], Picks), Visited(K) \union {Picks})
      /\ Distinct(Append(probed[K], Picks))
  <2>1. Lists(probed[K], Visited(K)) /\ Distinct(probed[K])
    BY <1>1, <1>3 DEF ProbedOK
  <2>. QED
    BY <1>5, <2>1, ListsMore
<1>7. probed'[K] = Append(probed[K], Picks) /\ \A k \in 1 .. N : k # K => probed'[k] = probed[k]
  BY <1>1, <1>3
<1>8. ProbedOK'
  <2>1. ASSUME NEW k \in 1 .. N PROVE Lists(probed[k], Visited(k))' /\ Distinct(probed[k])'
    <3>1. CASE k = K
      <4>1. Lists(probed'[k], Visited(k)') /\ Distinct(probed'[k])
        BY <1>6, <1>7, <3>1
      <4>. QED
        BY <4>1 DEF Lists, Distinct
    <3>2. CASE k # K
      <4>1. Lists(probed[k], Visited(k)) /\ Distinct(probed[k])
        BY <1>3 DEF ProbedOK
      <4>2. probed'[k] = probed[k] /\ Visited(k)' = Visited(k)
        BY <1>7, <3>2
      <4>. QED
        BY <4>1, <4>2 DEF Lists, Distinct
    <3>. QED
      BY <3>1, <3>2
  <2>. QED
    BY <1>1, <2>1 DEF ProbedOK
<1>9. probed' \in [1 .. N -> Seq(PickSeqs)]
  <2>1. Append(probed[K], Picks) \in Seq(PickSeqs)
    BY <1>6 DEF Lists
  <2>. QED
    BY <1>1, <1>3, <1>7, <2>1
<1>. QED
  BY <1>1, <1>2, <1>3, <1>4, <1>8, <1>9 DEF HistInv

\* The row at hand is not behind the loops.
LEMMA PicksNotPassed ==
  ASSUME InRow
  PROVE  /\ ~ Passed(Picks) /\ Picks \in Reach(K - 1) /\ Len(Picks) = K - 1
         /\ (pc # "over" /\ pc = "entry" /\ K <= N => Picks \notin Visited(K))
<1>1. K \in Nat \ {0} /\ K = Len(frames) + 1 /\ Len(frames) \in Nat /\ Picks \in Reach(Len(frames))
  BY RunningRow
<1>2. K - 1 = Len(frames) /\ Len(Picks) = Len(frames)
  BY <1>1, ReachedPicks
<1>3. ~ Passed(Picks)
  <2>. SUFFICES ASSUME NEW k \in 1 .. Len(Picks) PROVE ~ Past(k, Picks[k])
    BY DEF Passed
  <2>1. k <= Len(frames)
    BY <1>1, <1>2
  <2>. QED
    BY <2>1 DEF Past
<1>4. pc = "entry" => Picks \notin Visited(K)
  BY <1>1, <1>3 DEF Visited, Stands
<1>. QED
  BY <1>1, <1>2, <1>3, <1>4

\* A loop that opened left the rows before it alone.
LEMMA OpenedPrefixes ==
  ASSUME InRow, RowStep, RowInv', NEW f, frames' = Append(frames, f)
  PROVE  K' = K + 1 /\ \A k \in 1 .. K : Prefix(k)' = Prefix(k)
<1>. DEFINE n == Len(frames)
            S == Frame \union {f}
<1>1. UNCHANGED <<plan, tables, input>> /\ frames \in Seq(Frame) /\ frames' \in Seq(Frame)
  BY RowStepKeepsTables DEF InRow, RowInv, FramesOK, Frame
<1>2. n \in Nat /\ frames \in Seq(S) /\ f \in S
  BY <1>1
<1>. HIDE DEF S
<1>3. Len(frames') = n + 1 /\ \A k \in 1 .. n : frames'[k] = frames[k]
  BY <1>2, AppendProperties
<1>4. /\ Picks \in PickSeqs /\ Len(Picks) = n
      /\ \A k \in 1 .. n : Picks[k] = Pick(k, frames[k])
  BY <1>1, PicksOfFrames
<1>5. \A k, x : Pick(k, x)' = Pick(k, x)
  BY <1>1, RowStandsStill DEF Pick
<1>6. /\ Picks' \in PickSeqs /\ Len(Picks') = Len(frames')
      /\ \A k \in 1 .. Len(frames') : Picks'[k] = Pick(k, frames'[k])
  <2>1. DOMAIN frames' = 1 .. Len(frames') /\ \A k \in 1 .. Len(frames') : frames'[k] \in Frame
    BY <1>1, ElementOfSeq, LenProperties
  <2>2. \A k \in 1 .. Len(frames') : Pick(k, frames'[k]) \in Seq(Nat)
    BY <2>1 DEF Pick, Frame
  <2>3. Picks' = [k \in 1 .. Len(frames') |-> Pick(k, frames'[k])]
    BY <1>5, <2>1 DEF Picks
  <2>4. Len(frames') \in Nat
    BY <1>2, <1>3
  <2>. QED
    BY <2>2, <2>3, <2>4 DEF PickSeqs
<1>7. \A k \in 1 .. K : Prefix(k)' = Prefix(k)
  <2>. TAKE k \in 1 .. K
  <2>1. k - 1 \in 0 .. Len(Picks') /\ k - 1 <= Len(Picks) /\ \A i \in 1 .. k - 1 : i \in 1 .. n /\ i \in 1 .. Len(frames')
    BY <1>2, <1>3, <1>4, <1>6 DEF K
  <2>2. \A i \in 1 .. k - 1 : Picks'[i] = Picks[i]
    BY <1>3, <1>4, <1>5, <1>6, <2>1
  <2>3. SubSeq(Picks', 1, k - 1) = SubSeq(Picks, 1, k - 1)
    BY <1>4, <1>6, <2>1, <2>2, SamePrefix DEF PickSeqs
  <2>. QED
    BY <2>3 DEF Prefix
<1>. QED
  BY <1>2, <1>3, <1>7 DEF K

\* A block that reads, opens, or rejects: what is emitted and evaluated is as it was.
LEMMA QuietHistory ==
  ASSUME RowInv, HistInv, Header \/ Body \/ After \/ FoldHeader \/ FoldBody
  PROVE  HistInv'
<1>1. InRow /\ RowStep /\ RowInv'
  BY HeaderKeeps, BodyKeeps, AfterKeeps, FoldHeaderKeeps, FoldBodyKeeps
<1>2. SamePassed
  BY HeaderPasses, BodyPasses, AfterPasses, FoldPasses
<1>3. pc \notin {"entry", "over"} /\ pc' # "over" /\ UNCHANGED <<out, probed>>
  BY DEF Header, HeaderTest, Body, After, FoldHeader, FoldBody, Open
<1>4. N \in Nat \ {0} /\ K \in Nat /\ K = Len(frames) + 1 /\ Len(frames) \in Nat
  BY <1>1, RunningRow
<1>5. (frames' = frames /\ pc' # "entry") \/ (pc' = "entry" /\ \E f : frames' = Append(frames, f))
  BY DEF Header, HeaderTest, Body, After, FoldHeader, FoldBody, Open
<1>6. \A k \in 1 .. N : \A p : Stands(k, p)' <=> Stands(k, p)
  <2>1. UNCHANGED <<plan, tables, input>>
    BY <1>1, RowStepKeepsTables
  <2>2. CASE frames' = frames /\ pc' # "entry"
    <3>1. K' = K /\ \A k : Prefix(k)' = Prefix(k)
      BY <2>1, <2>2, OthersKeepFrames DEF RowInv
    <3>. QED
      BY <1>3, <2>2, <3>1 DEF Stands
  <2>3. CASE pc' = "entry" /\ \E f : frames' = Append(frames, f)
    <3>1. K' = K + 1 /\ \A k \in 1 .. K : Prefix(k)' = Prefix(k)
      BY <1>1, <2>3, OpenedPrefixes
    <3>2. \A k \in 1 .. N : (k < K + 1 <=> k < K \/ k = K) /\ (k < K \/ k = K => k \in 1 .. K)
      BY <1>4
    <3>3. \A k \in 1 .. N : \A p : Stands(k, p)' <=> (k < K + 1 /\ p = Prefix(k)')
      BY <2>3, <3>1 DEF Stands
    <3>. QED
      BY <1>3, <3>1, <3>2, <3>3 DEF Stands
  <2>. QED
    BY <1>5, <2>2, <2>3
<1>7. Kept' = Kept
  <2>1. \A p \in Reach(N) : Passed(p)' <=> Passed(p)
    BY <1>2, <1>4 DEF SamePassed
  <2>. QED
    BY <1>1, <1>3, <2>1, HistorySets DEF Kept
<1>8. \A k \in 1 .. N : Visited(k)' = Visited(k)
  <2>. TAKE k \in 1 .. N
  <2>1. k - 1 \in 0 .. N
    BY <1>4
  <2>2. \A p \in Reach(k - 1) : Passed(p)' <=> Passed(p)
    BY <1>2, <2>1 DEF SamePassed
  <2>3. \A p : Stands(k, p)' <=> Stands(k, p)
    BY <1>6
  <2>4. Visited(k)' = { p \in Reach(k - 1) : pc' = "over" \/ Passed(p)' \/ Stands(k, p)' }
    BY <1>1, HistorySets
  <2>. QED
    BY <1>3, <2>2, <2>3, <2>4 DEF Visited
<1>. QED
  BY <1>1, <1>3, <1>7, <1>8, HistoryStays

\* The keys of a join, evaluated at the row at hand.
LEMMA ProbingHistory ==
  ASSUME RowInv, HistInv, Entry \/ (ProbeMap /\ ~ (Matched(K) = <<>> /\ Joins[K].kind = "inner"))
  PROVE  HistInv'
<1>1. InRow /\ RowStep /\ RowInv' /\ SamePassed
  BY EntryKeeps, ProbeMapKeeps, EntryPasses, ProbeMapPasses
<1>2. /\ pc = "entry" /\ pc' # "over" /\ out' = out /\ K <= N
      /\ probed' = [probed EXCEPT ![K] = Append(@, Picks)]
  BY DEF Entry, ProbeMap, Probing, Probed, Open
<1>3. N \in Nat \ {0} /\ K \in Nat \ {0} /\ K = Len(frames) + 1 /\ Len(frames) \in Nat /\ Prefix(K) = Picks
  BY <1>1, RunningRow
<1>4. (frames' = frames /\ pc' # "entry") \/ (pc' = "entry" /\ \E f : frames' = Append(frames, f))
  BY DEF Entry, ProbeMap, Open
<1>5. \A k \in 1 .. N : \A p : Stands(k, p)' <=> (Stands(k, p) \/ (k = K /\ p = Picks))
  <2>1. UNCHANGED <<plan, tables, input>>
    BY <1>1, RowStepKeepsTables
  <2>2. CASE frames' = frames /\ pc' # "entry"
    <3>1. K' = K /\ \A k : Prefix(k)' = Prefix(k)
      BY <2>1, <2>2, OthersKeepFrames DEF RowInv
    <3>. QED
      BY <1>2, <1>3, <2>2, <3>1 DEF Stands
  <2>3. CASE pc' = "entry" /\ \E f : frames' = Append(frames, f)
    <3>1. K' = K + 1 /\ \A k \in 1 .. K : Prefix(k)' = Prefix(k)
      BY <1>1, <2>3, OpenedPrefixes
    <3>2. \A k \in 1 .. N : (k < K + 1 <=> k < K \/ k = K) /\ (k < K \/ k = K => k \in 1 .. K)
      BY <1>3
    <3>3. \A k \in 1 .. N : \A p : Stands(k, p)' <=> (k < K + 1 /\ p = Prefix(k)')
      BY <2>3, <3>1 DEF Stands
    <3>4. \A k \in 1 .. N : \A p : Stands(k, p) <=> (k < K /\ p = Prefix(k))
      BY <1>2 DEF Stands
    <3>. QED
      BY <1>3, <3>1, <3>2, <3>3, <3>4
  <2>. QED
    BY <1>4, <2>2, <2>3
<1>6. Kept' = Kept
  <2>1. \A p \in Reach(N) : Passed(p)' <=> Passed(p)
    BY <1>1, <1>3 DEF SamePassed
  <2>. QED
    BY <1>1, <1>2, <2>1, HistorySets DEF Kept
<1>7. Picks \notin Visited(K) /\ Picks \in Reach(K - 1)
  BY <1>1, <1>2, PicksNotPassed
<1>8. \A k \in 1 .. N : Visited(k)' = IF k = K THEN Visited(k) \union {Picks} ELSE Visited(k)
  <2>. TAKE k \in 1 .. N
  <2>1. k - 1 \in 0 .. N
    BY <1>3
  <2>2. \A p \in Reach(k - 1) : Passed(p)' <=> Passed(p)
    BY <1>1, <2>1 DEF SamePassed
  <2>3. \A p : Stands(k, p)' <=> (Stands(k, p) \/ (k = K /\ p = Picks))
    BY <1>5
  <2>4. Visited(k)' = { p \in Reach(k - 1) : pc' = "over" \/ Passed(p)' \/ Stands(k, p)' }
    BY <1>1, HistorySets
  <2>5. Visited(k)' = { p \in Reach(k - 1) : Passed(p) \/ Stands(k, p) \/ (k = K /\ p = Picks) }
    BY <1>2, <2>2, <2>3, <2>4
  <2>6. Visited(k) = { p \in Reach(k - 1) : Passed(p) \/ Stands(k, p) }
    BY <1>2 DEF Visited
  <2>. QED
    BY <1>7, <2>5, <2>6
<1>. QED
  BY <1>1, <1>2, <1>6, <1>7, <1>8, HistoryProbes

\* A loop that goes on has left the joins' places as they were, its own apart.
LEMMA ContinueStands ==
  ASSUME InRow, RowStep, plan.many, frames # <<>>, Continue,
         pc = "done" \/ (pc = "entry" /\ K > N)
  PROVE  \A k \in 1 .. N : \A p \in Reach(k - 1) :
           (Passed(p)' \/ Stands(k, p)') <=> (Passed(p) \/ Stands(k, p))
<1>1. UNCHANGED <<plan, tables, input>>
  BY RowStepKeepsTables
<1>2. PICK m : m = Len(frames)
  OBVIOUS
<1>3. /\ N \in Nat \ {0} /\ FramesOK /\ Prefix(K) = Picks /\ K = m + 1 /\ Len(Picks) = m
  BY <1>2, RunningRow, PicksOfFrames DEF InRow, RowInv, FramesOK
<1>4. /\ m \in Nat \ {0} /\ K' = m /\ \A k \in 1 .. m : Prefix(k)' = Prefix(k)
  BY <1>1, <1>2, <1>3, ClosingKeepsFrames DEF Continue
<1>5. pc' # "entry"
  BY DEF Continue
<1>. TAKE k \in 1 .. N
<1>. TAKE p \in Reach(k - 1)
<1>6. k - 1 \in 0 .. N /\ k \in Nat /\ Len(p) = k - 1
  <2>1. k - 1 \in 0 .. N /\ k - 1 \in Nat /\ k \in Nat
    BY <1>3
  <2>. QED
    BY <2>1, ReachedPicks
<1>7. Passed(p)' <=> (Passed(p) \/ p = Picks)
  BY <1>6, ContinuePasses
<1>8. p = Picks => k = K
  BY <1>3, <1>4, <1>6
<1>9. Stands(k, p)' <=> (k <= m /\ p = Prefix(k))
  <2>1. Stands(k, p)' <=> (k <= m /\ p = Prefix(k)')
    BY <1>4, <1>5, <1>6 DEF Stands
  <2>2. k <= m => k \in 1 .. m
    BY <1>4, <1>6
  <2>. QED
    BY <1>4, <2>1, <2>2
<1>10. CASE k <= m
  <2>1. k < K /\ k # K
    BY <1>3, <1>4, <1>6, <1>10
  <2>. QED
    BY <1>7, <1>8, <1>9, <1>10, <2>1 DEF Stands
<1>11. CASE k = K
  <2>1. ~ (k <= m) /\ pc = "done"
    BY <1>3, <1>4, <1>6, <1>11
  <2>. QED
    BY <1>3, <1>7, <1>9, <1>11, <2>1 DEF Stands
<1>12. CASE ~ (k <= m) /\ k # K
  <2>1. ~ (k < K)
    BY <1>3, <1>4, <1>6, <1>12
  <2>. QED
    BY <1>7, <1>8, <1>9, <1>12, <2>1 DEF Stands
<1>. QED
  BY <1>10, <1>11, <1>12

\* The rows that reach nothing but the first join: the row before it.
LEMMA OuterLoopOver ==
  ASSUME InRow, pc = "done", frames = <<>>
  PROVE  /\ \A p \in Reach(N) : Passed(p)
         /\ \A k \in 1 .. N : \A p \in Reach(k - 1) : Passed(p) \/ Stands(k, p)
<1>1. /\ N \in Nat \ {0} /\ K = 1 /\ Prefix(1) = <<>> /\ Len(frames) = 0
  <2>1. K = 1 /\ Len(frames) = 0
    BY RunningRow DEF K
  <2>2. Picks = <<>>
    BY DEF Picks
  <2>. QED
    BY <2>1, <2>2, RunningRow
<1>2. ASSUME NEW n \in Nat \ {0}, NEW p \in Reach(n) PROVE Passed(p)
  <2>1. p \in Seq(Seq(Nat)) /\ Len(p) = n
    BY <1>2, ReachedPicks
  <2>2. 1 \in 1 .. Len(p) /\ 1 <= K /\ Past(1, p[1])
    <3>1. ~ (1 <= Len(frames))
      BY <1>1
    <3>2. 1 \in 1 .. Len(p) /\ 1 <= K
      BY <1>1, <1>2, <2>1
    <3>. QED
      BY <3>1, <3>2 DEF Past
  <2>3. SubSeq(p, 1, 1 - 1) = <<>>
    BY <2>1
  <2>. QED
    BY <1>1, <2>2, <2>3 DEF Passed
<1>3. ASSUME NEW k \in 1 .. N, NEW p \in Reach(k - 1) PROVE Passed(p) \/ Stands(k, p)
  <2>1. CASE k = 1
    <3>1. p = <<>>
      BY <2>1 DEF Reach, PickSeqs
    <3>. QED
      BY <1>1, <2>1, <3>1 DEF Stands
  <2>2. CASE k # 1
    <3>1. k - 1 \in Nat \ {0}
      BY <1>1, <2>2
    <3>. QED
      BY <1>2, <3>1
  <2>. QED
    BY <2>1, <2>2
<1>. QED
  BY <1>1, <1>2, <1>3

\* Done: the loop around goes on, and what it was at is behind it; or all is.
LEMMA DoneHistory ==
  ASSUME RowInv, HistInv, Done
  PROVE  HistInv'
<1>1. InRow /\ RowStep /\ pc = "done" /\ plan.many /\ K <= N /\ UNCHANGED <<out, probed>>
  BY DoneKeeps DEF Done, RowInv, CurOK
<1>2. N \in Nat \ {0} /\ K \in Nat \ {0} /\ K = Len(frames) + 1 /\ Len(Picks) = K - 1
  BY <1>1, RunningRow, PicksNotPassed
<1>3. CASE frames # <<>>
  <2>1. Continue /\ pc' # "over"
    BY <1>3 DEF Done, Continue
  <2>2. Kept' = Kept
    <3>1. ASSUME NEW p \in Reach(N) PROVE Passed(p)' <=> Passed(p)
      <4>1. N \in 0 .. N /\ N \in Nat
        BY <1>2
      <4>2. Passed(p)' <=> (Passed(p) \/ p = Picks)
        BY <1>1, <1>3, <2>1, <4>1, ContinuePasses
      <4>3. Len(p) = N
        BY <4>1, ReachedPicks
      <4>4. p # Picks
        BY <1>1, <1>2, <4>3
      <4>. QED
        BY <4>2, <4>4
    <3>. QED
      BY <1>1, <2>1, <3>1, HistorySets DEF Kept
  <2>3. \A k \in 1 .. N : Visited(k)' = Visited(k)
    <3>. TAKE k \in 1 .. N
    <3>1. \A p \in Reach(k - 1) : (Passed(p)' \/ Stands(k, p)') <=> (Passed(p) \/ Stands(k, p))
      BY <1>1, <1>3, <2>1, ContinueStands
    <3>2. Visited(k)' = { p \in Reach(k - 1) : pc' = "over" \/ Passed(p)' \/ Stands(k, p)' }
      BY <1>1, HistorySets
    <3>. QED
      BY <1>1, <2>1, <3>1, <3>2 DEF Visited
  <2>. QED
    BY <1>1, <2>2, <2>3, HistoryStays
<1>4. CASE frames = <<>>
  <2>1. pc' = "over"
    BY <1>4 DEF Done
  <2>2. /\ \A p \in Reach(N) : Passed(p)
        /\ \A k \in 1 .. N : \A p \in Reach(k - 1) : Passed(p) \/ Stands(k, p)
    BY <1>1, <1>4, OuterLoopOver
  <2>3. Kept' = Kept
    BY <1>1, <2>1, <2>2, HistorySets DEF Kept
  <2>4. \A k \in 1 .. N : Visited(k)' = Visited(k)
    <3>. TAKE k \in 1 .. N
    <3>1. Visited(k)' = { p \in Reach(k - 1) : pc' = "over" \/ Passed(p)' \/ Stands(k, p)' }
      BY <1>1, HistorySets
    <3>. QED
      BY <2>1, <2>2, <3>1 DEF Visited
  <2>. QED
    BY <1>1, <2>3, <2>4, HistoryStays
<1>. QED
  BY <1>3, <1>4

\* Without shape='many' no map has two rows of one key: one row at most extends another.
LEMMA OneExtends ==
  ASSUME InRow, ~ plan.many, NEW k \in 1 .. N, NEW P \in Reach(k - 1),
         NEW x \in Extensions(k, P), NEW y \in Extensions(k, P)
  PROVE  x = y
<1>. DEFINE c == Before(P)
            lo == Lo(k, c)
            hi == Hi(k, c)
<1>1. CASE Joins[k].kind = "fold"
  BY <1>1, ExtensionsAre
<1>2. CASE Joins[k].kind = "left" /\ Matches(k, P) = {}
  BY <1>2, ExtensionsAre
<1>3. CASE Joins[k].kind # "fold" /\ ~ (Joins[k].kind = "left" /\ Matches(k, P) = {})
  <2>1. Built /\ input \in Cells /\ RangeOK(k, c) /\ ~ HasDuplicate(Prepared(k))
    <3>1. Built /\ input \in Cells /\ ~ HasDuplicate(Prepared(k))
      BY <1>3 DEF InRow, RowInv, StaticOK, Built
    <3>. QED
      BY <3>1, ReachedCells
  <2>2. PICK n \in Nat : DOMAIN Prepared(k) = 1 .. n /\ Len(Prepared(k)) = n
    BY <2>1 DEF RangeOK
  <2>3. lo \in Nat /\ hi \in Nat
    BY <2>1 DEF RangeOK
  <2>4. /\ \A i \in lo + 1 .. hi : i \in 1 .. n
        /\ \A i, m \in lo + 1 .. hi : Prepared(k)[i].key = Prepared(k)[m].key
    BY <2>1, <2>2 DEF RangeOK
  <2>5. ASSUME NEW i \in lo + 1 .. hi, NEW m \in lo + 1 .. hi, i < m PROVE FALSE
    <3>1. i + 1 \in lo + 1 .. hi /\ i \in 1 .. n /\ m \in 1 .. n
      BY <2>3, <2>4, <2>5
    <3>2. i \in 1 .. n - 1 /\ Prepared(k)[i].key = Prepared(k)[i + 1].key
      BY <2>4, <2>5, <3>1
    <3>. QED
      BY <2>1, <2>2, <3>2 DEF HasDuplicate
  <2>6. PICK q \in Matches(k, P) : x = <<q>>
    BY <1>3, ExtensionsAre
  <2>7. PICK r \in Matches(k, P) : y = <<r>>
    BY <1>3, ExtensionsAre
  <2>8. PICK i \in lo + 1 .. hi : RowAt(k, i) = q
    BY <2>1, RangeHasMatches
  <2>9. PICK m \in lo + 1 .. hi : RowAt(k, m) = r
    BY <2>1, RangeHasMatches
  <2>10. i = m
    <3>. HIDE DEF lo, hi
    <3>1. i \in Int /\ m \in Int
      OBVIOUS
    <3>2. ~ (i < m) /\ ~ (m < i)
      BY <2>5
    <3>. QED
      BY <3>1, <3>2
  <2>. QED
    BY <2>6, <2>7, <2>8, <2>9, <2>10
<1>. QED
  BY <1>1, <1>2, <1>3

\* So the one row that reaches a join is the one it was entered with.
LEMMA OneReaches ==
  ASSUME InRow, ~ plan.many
  PROVE  \A k \in 1 .. K : \A p \in Reach(k - 1) : p = Prefix(k)
<1>1. K \in Nat \ {0} /\ K = Len(frames) + 1 /\ Len(frames) \in Nat /\ FramesOK /\ N \in Nat /\ Len(frames) <= N
  BY RunningRow DEF InRow, RowInv, FramesOK
<1>2. /\ Picks \in PickSeqs /\ Len(Picks) = K - 1
      /\ \A k \in 1 .. K : Prefix(k) \in Reach(k - 1)
  BY <1>1, PicksReach, PicksNotPassed, PicksOfFrames DEF FramesOK
<1>. DEFINE Wrong == { k \in 1 .. K : \E p \in Reach(k - 1) : p # Prefix(k) }
<1>. SUFFICES ASSUME Wrong # {} PROVE FALSE
  OBVIOUS
<1>3. PICK k \in Wrong : \A j \in Wrong : k <= j
  <2>1. Wrong \subseteq Nat
    BY <1>1
  <2>. QED
    BY <2>1, LeastNatural
<1>4. k \in 1 .. K
  OBVIOUS
<1>5. PICK p \in Reach(k - 1) : p # Prefix(k)
  OBVIOUS
<1>6. \A j \in 1 .. K : j < k => \A q \in Reach(j - 1) : q = Prefix(j)
  <2>. TAKE j \in 1 .. K
  <2>1. j < k => j \notin Wrong
    BY <1>1, <1>3, <1>4
  <2>. QED
    BY <2>1
<1>. HIDE DEF Wrong
<1>7. k - 1 \in Nat /\ k \in Nat
  BY <1>1, <1>4
<1>8. p \in Seq(Seq(Nat)) /\ Len(p) = k - 1 /\ \A j \in 1 .. k - 1 : p[j] \in Extensions(j, SubSeq(p, 1, j - 1))
  BY <1>7, ReachedPicks
<1>. DEFINE q == Prefix(k)
<1>9. q \in Reach(k - 1)
  BY <1>2, <1>4
<1>10. q \in Seq(Seq(Nat)) /\ Len(q) = k - 1 /\ \A j \in 1 .. k - 1 : q[j] \in Extensions(j, SubSeq(q, 1, j - 1))
  BY <1>7, <1>9, ReachedPicks
<1>. HIDE DEF q
<1>11. ASSUME NEW j \in 1 .. k - 1 PROVE p[j] = q[j]
  <2>1. j - 1 \in 0 .. k - 1 /\ j \in 1 .. K /\ j < k /\ j \in 1 .. N
    BY <1>1, <1>4, <1>7
  <2>2. SubSeq(p, 1, j - 1) \in Reach(j - 1) /\ SubSeq(q, 1, j - 1) \in Reach(j - 1)
    BY <1>7, <1>9, <2>1, ReachedBefore
  <2>3. SubSeq(p, 1, j - 1) = Prefix(j) /\ SubSeq(q, 1, j - 1) = Prefix(j)
    BY <1>6, <2>1, <2>2
  <2>4. Prefix(j) \in Reach(j - 1) /\ p[j] \in Extensions(j, Prefix(j)) /\ q[j] \in Extensions(j, Prefix(j))
    BY <1>2, <1>8, <1>10, <2>1, <2>3
  <2>. QED
    BY <2>1, <2>4, OneExtends
<1>12. p = q
  BY <1>8, <1>10, <1>11, SameSequence
<1>. QED
  BY <1>5, <1>12 DEF q

\* WHERE is evaluated over the last join's cell.
LEMMA WhereIsWanted ==
  ASSUME InRow, K > N
  PROVE  /\ K = N + 1 /\ Len(frames) = N /\ Picks \in Reach(N) /\ Prefix(K) = Picks
         /\ WhereHolds <=> Wanted(Picks)
<1>1. /\ N \in Nat \ {0} /\ K = Len(frames) + 1 /\ Len(frames) \in Nat /\ Len(frames) <= N
      /\ Picks \in Reach(Len(frames)) /\ Prefix(K) = Picks /\ FramesOK
  BY RunningRow DEF InRow, RowInv, FramesOK
<1>2. Len(frames) = N /\ K = N + 1 /\ N \in 1 .. N
  BY <1>1
<1>3. Picks[N] = frames[N].row /\ (Hit(N, frames[N]) <=> frames[N].row # <<>>)
  BY <1>1, <1>2, PicksReach DEF FramesOK, FrameOK
<1>4. Cell(N, frames[N]) = CellOf(N, Picks[N])
  BY <1>3 DEF Cell, CellOf, Lane
<1>. QED
  BY <1>1, <1>2, <1>4 DEF WhereHolds, Wanted

\* The row at hand comes after those passed.
LEMMA PassedPrecede ==
  ASSUME InRow, K > N, NEW p \in Reach(N), Passed(p)
  PROVE  Precedes(p, Picks)
<1>1. K = N + 1 /\ Len(frames) = N /\ N \in Nat /\ Picks \in Reach(N)
  BY WhereIsWanted, RunningRow
<1>2. p \in Seq(Seq(Nat)) /\ Len(p) = N /\ Picks \in Seq(Seq(Nat)) /\ Len(Picks) = N
  BY <1>1, ReachedPicks
<1>3. PICK k \in 1 .. Len(p) : k <= K /\ SubSeq(p, 1, k - 1) = Prefix(k) /\ Past(k, p[k])
  BY DEF Passed
<1>4. k \in 1 .. N /\ k <= Len(frames) /\ k - 1 \in 0 .. N
  BY <1>1, <1>2
<1>5. p[k] # Picks[k] /\ p[k][1] < Picks[k][1]
  BY <1>3, <1>4 DEF Past
<1>6. \A j \in 1 .. k - 1 : p[j] = Picks[j]
  <2>1. /\ \A j \in 1 .. k - 1 : SubSeq(p, 1, k - 1)[j] = p[j]
        /\ \A j \in 1 .. k - 1 : SubSeq(Picks, 1, k - 1)[j] = Picks[j]
    BY <1>2, <1>4, Prefixes
  <2>. QED
    BY <1>3, <2>1 DEF Prefix
<1>. QED
  BY <1>4, <1>5, <1>6 DEF Precedes

\* A step that gives the row at hand, if it is wanted.
LEMMA HistoryEmits ==
  ASSUME InRow, RowStep, HistInv, probed' = probed, Picks \in PickSeqs,
         out' = IF Wanted(Picks) THEN Append(out, Picks) ELSE out,
         Kept' = IF Wanted(Picks) THEN Kept \union {Picks} ELSE Kept,
         \A p \in Kept : Precedes(p, Picks),
         \A k \in 1 .. N : Visited(k)' = Visited(k)
  PROVE  HistInv'
<1>1. CASE ~ Wanted(Picks)
  BY <1>1, HistoryStays
<1>2. CASE Wanted(Picks)
  <2>1. N' = N
    BY RowStepKeepsTables
  <2>2. pc \notin {"prepare", "refused", "ready"} /\ pc' \notin {"prepare", "refused", "ready"}
    BY DEF InRow, RowStep
  <2>3. OutOK /\ ProbedOK /\ probed \in [1 .. N -> Seq(PickSeqs)]
    BY <2>2 DEF HistInv
  <2>4. Lists(out, Kept) /\ \A i, j \in DOMAIN out : i < j => Precedes(out[i], out[j])
    BY <2>3 DEF OutOK
  <2>5. /\ Lists(out', Kept')
        /\ DOMAIN out' = DOMAIN out \union {Len(out) + 1} /\ DOMAIN out = 1 .. Len(out) /\ Len(out) \in Nat
        /\ out'[Len(out) + 1] = Picks /\ \A i \in DOMAIN out : out'[i] = out[i]
    BY <1>2, <2>4, ListsMore
  <2>6. \A i, j \in DOMAIN out' : i < j => Precedes(out'[i], out'[j])
    <3>. SUFFICES ASSUME NEW i \in DOMAIN out', NEW j \in DOMAIN out', i < j PROVE Precedes(out'[i], out'[j])
      OBVIOUS
    <3>1. i \in DOMAIN out /\ out'[i] = out[i] /\ out[i] \in Kept
      <4>1. i \in DOMAIN out
        BY <2>5
      <4>. QED
        BY <2>4, <2>5, <4>1 DEF Lists
    <3>2. CASE j \in DOMAIN out
      BY <2>4, <2>5, <3>1, <3>2
    <3>3. CASE j = Len(out) + 1
      BY <2>5, <3>1, <3>3
    <3>. QED
      BY <2>5, <3>2, <3>3
  <2>7. OutOK'
    <3>1. \A p, q : Precedes(p, q)' <=> Precedes(p, q)
      BY HistorySets
    <3>2. Lists(out, Kept)'
      BY <2>5 DEF Lists
    <3>. QED
      BY <2>6, <3>1, <3>2 DEF OutOK
  <2>8. ProbedOK'
    <3>1. ASSUME NEW k \in 1 .. N PROVE Lists(probed[k], Visited(k))' /\ Distinct(probed[k])'
      <4>1. Lists(probed[k], Visited(k)) /\ Distinct(probed[k])
        BY <2>3 DEF ProbedOK
      <4>. QED
        BY <4>1 DEF Lists, Distinct
    <3>. QED
      BY <2>1, <3>1 DEF ProbedOK
  <2>9. out' \in Seq(PickSeqs)
    BY <2>5 DEF Lists
  <2>. QED
    BY <2>1, <2>2, <2>3, <2>7, <2>8, <2>9 DEF HistInv
<1>. QED
  BY <1>1, <1>2

\* Emitted or dropped, the row at hand is behind the loops.
LEMMA LeaveHistory ==
  ASSUME RowInv, HistInv, EmitRow \/ DropRow
  PROVE  HistInv'
<1>1. InRow /\ RowStep /\ pc = "entry" /\ K > N /\ Leave /\ probed' = probed
  BY EmitKeeps DEF EmitRow, DropRow
<1>2. /\ K = N + 1 /\ Len(frames) = N /\ Picks \in Reach(N) /\ Prefix(K) = Picks
      /\ WhereHolds <=> Wanted(Picks)
  BY <1>1, WhereIsWanted
<1>3. N \in Nat \ {0} /\ ~ Passed(Picks) /\ Picks \in PickSeqs
  BY <1>1, RunningRow, PicksNotPassed, PicksOfFrames DEF RowInv, FramesOK
<1>4. out' = IF Wanted(Picks) THEN Append(out, Picks) ELSE out
  BY <1>2 DEF EmitRow, DropRow
<1>5. \A p \in Kept : Precedes(p, Picks)
  BY <1>1, PassedPrecede DEF Kept
<1>6. CASE plan.many
  <2>1. Continue /\ frames # <<>>
    <3>1. Len(frames) # 0
      BY <1>2, <1>3
    <3>. QED
      BY <1>1, <1>6, <3>1 DEF Leave
  <2>2. pc' # "over"
    BY <2>1 DEF Continue
  <2>3. \A p \in Reach(N) : Passed(p)' <=> (Passed(p) \/ p = Picks)
    <3>1. N \in 0 .. N
      BY <1>3
    <3>. QED
      BY <1>1, <1>6, <2>1, <3>1, ContinuePasses
  <2>4. Kept' = IF Wanted(Picks) THEN Kept \union {Picks} ELSE Kept
    <3>1. Kept' = { p \in Reach(N) : Wanted(p) /\ (Passed(p) \/ p = Picks) }
      BY <1>1, <2>2, <2>3, HistorySets
    <3>2. Kept = { p \in Reach(N) : Wanted(p) /\ Passed(p) }
      BY <1>1 DEF Kept
    <3>. QED
      BY <1>2, <3>1, <3>2
  <2>5. \A k \in 1 .. N : Visited(k)' = Visited(k)
    <3>. TAKE k \in 1 .. N
    <3>1. \A p \in Reach(k - 1) : (Passed(p)' \/ Stands(k, p)') <=> (Passed(p) \/ Stands(k, p))
      BY <1>1, <1>6, <2>1, ContinueStands
    <3>2. Visited(k)' = { p \in Reach(k - 1) : pc' = "over" \/ Passed(p)' \/ Stands(k, p)' }
      BY <1>1, HistorySets
    <3>. QED
      BY <1>1, <2>2, <3>1, <3>2 DEF Visited
  <2>. QED
    BY <1>1, <1>3, <1>4, <1>5, <2>4, <2>5, HistoryEmits
<1>7. CASE ~ plan.many
  <2>1. pc' = "over"
    BY <1>1, <1>7 DEF Leave
  <2>2. \A k \in 1 .. K : \A p \in Reach(k - 1) : p = Prefix(k)
    BY <1>1, <1>7, OneReaches
  <2>3. Kept' = IF Wanted(Picks) THEN Kept \union {Picks} ELSE Kept
    <3>1. \A p \in Reach(N) : p = Picks
      <4>1. K \in 1 .. K /\ K - 1 = N
        BY <1>2, <1>3
      <4>. QED
        BY <1>2, <2>2, <4>1
    <3>2. Kept' = { p \in Reach(N) : Wanted(p) }
      BY <1>1, <2>1, HistorySets
    <3>3. Kept = {}
      BY <1>1, <1>3, <3>1 DEF Kept
    <3>. QED
      BY <1>2, <3>1, <3>2, <3>3
  <2>4. \A k \in 1 .. N : Visited(k)' = Visited(k)
    <3>. TAKE k \in 1 .. N
    <3>1. k < K /\ k \in 1 .. K
      BY <1>2, <1>3
    <3>2. \A p \in Reach(k - 1) : Stands(k, p)
      BY <2>2, <3>1 DEF Stands
    <3>3. Visited(k)' = Reach(k - 1)
      BY <1>1, <2>1, HistorySets
    <3>. QED
      BY <3>2, <3>3 DEF Visited
  <2>. QED
    BY <1>1, <1>3, <1>4, <1>5, <2>3, <2>4, HistoryEmits
<1>. QED
  BY <1>6, <1>7

\* An INNER join's map that has no match ends the row: nothing reaches the joins beyond.
LEMMA MissHistory ==
  ASSUME RowInv, HistInv, ProbeMap, Matched(K) = <<>>, Joins[K].kind = "inner"
  PROVE  HistInv'
<1>1. /\ InRow /\ RowStep /\ pc = "entry" /\ pc' = "over" /\ out' = out /\ K <= N /\ ~ plan.many
      /\ probed' = [probed EXCEPT ![K] = Append(@, Picks)]
  BY ProbeMapKeeps DEF ProbeMap, Probing, Probed
<1>2. N \in Nat \ {0} /\ K \in 1 .. N /\ Prefix(K) = Picks
  BY <1>1, RunningRow
<1>3. \A k \in 1 .. K : \A p \in Reach(k - 1) : p = Prefix(k)
  BY <1>1, OneReaches
<1>4. Extensions(K, Picks) = {}
  <2>1. Matches(K, Picks) = {}
    <3>1. \A r : <<r>> # <<>>
      OBVIOUS
    <3>. QED
      BY <1>1, <3>1, MatchedRow
  <2>. QED
    BY <2>1 DEF Extensions
<1>5. ASSUME NEW n \in K .. N, NEW p \in Reach(n) PROVE FALSE
  <2>1. n \in Nat /\ K - 1 \in 0 .. n /\ K \in 1 .. n /\ K \in 1 .. K
    BY <1>2
  <2>2. SubSeq(p, 1, K - 1) \in Reach(K - 1)
    BY <2>1, ReachedBefore
  <2>3. SubSeq(p, 1, K - 1) = Picks
    BY <1>2, <1>3, <2>1, <2>2
  <2>4. p[K] \in Extensions(K, SubSeq(p, 1, K - 1))
    BY <2>1, ReachedPicks
  <2>. QED
    BY <1>4, <2>3, <2>4
<1>6. Kept' = Kept
  <2>1. Reach(N) = {}
    BY <1>2, <1>5
  <2>2. Kept' = {}
    BY <1>1, <2>1, HistorySets
  <2>. QED
    BY <2>1, <2>2 DEF Kept
<1>7. Picks \notin Visited(K) /\ Picks \in Reach(K - 1)
  BY <1>1, PicksNotPassed
<1>8. \A k \in 1 .. N : Visited(k)' = IF k = K THEN Visited(k) \union {Picks} ELSE Visited(k)
  <2>. TAKE k \in 1 .. N
  <2>1. Visited(k)' = Reach(k - 1)
    BY <1>1, HistorySets
  <2>2. CASE k < K
    <3>1. k \in 1 .. K /\ k # K
      BY <1>2, <2>2
    <3>2. \A p \in Reach(k - 1) : Stands(k, p)
      BY <1>3, <2>2, <3>1 DEF Stands
    <3>. QED
      BY <2>1, <3>1, <3>2 DEF Visited
  <2>3. CASE k = K
    <3>1. \A p \in Reach(k - 1) : p = Picks
      <4>1. K \in 1 .. K
        BY <1>2
      <4>. QED
        BY <1>2, <1>3, <2>3, <4>1
    <3>2. Visited(k) \subseteq Reach(k - 1)
      BY DEF Visited
    <3>. QED
      BY <1>7, <2>1, <2>3, <3>1, <3>2
  <2>4. CASE k > K
    <3>1. k - 1 \in K .. N /\ k # K
      BY <1>2, <2>4
    <3>2. Reach(k - 1) = {}
      BY <1>5, <3>1
    <3>. QED
      BY <2>1, <3>1, <3>2 DEF Visited
  <2>. QED
    BY <1>2, <2>2, <2>3, <2>4
<1>. QED
  BY <1>1, <1>6, <1>7, <1>8, HistoryProbes

\* Nothing is emitted, and no key evaluated, before a row is served.
LEMMA HistoryStarts ==
  ASSUME Init
  PROVE  HistInv
<1>1. out = <<>> /\ probed = [k \in 1 .. N |-> <<>>] /\ pc = "prepare"
  BY DEF Init
<1>2. <<>> \in Seq(PickSeqs)
  OBVIOUS
<1>. QED
  BY <1>1, <1>2 DEF HistInv

\* The build and its preparation give and evaluate nothing.
LEMMA EarlyHistory ==
  ASSUME RowInv, HistInv, Build \/ Prepare
  PROVE  HistInv'
<1>1. pc \in {"prepare", "refused", "ready"} /\ pc' \in {"prepare", "refused", "ready"}
      /\ UNCHANGED <<plan, out, probed>>
  <2>1. CASE Build
    <3>1. pc = "prepare"
      BY <2>1 DEF Build, BuildNext, ReadRow, FinishTable, Building, RowInv, StaticOK
    <3>. QED
      BY <2>1, <3>1 DEF Build, BuildNext, ReadRow, FinishTable, rowVars
  <2>2. CASE Prepare
    BY <2>2 DEF Prepare, buildVars
  <2>. QED
    BY <2>1, <2>2
<1>2. N' = N
  BY <1>1 DEF N, Joins
<1>. QED
  BY <1>1, <1>2 DEF HistInv

\* A row that is served has been through nothing.
LEMMA ServeHistory ==
  ASSUME RowInv, HistInv, Serve
  PROVE  HistInv'
<1>1. /\ pc = "ready" /\ pc' = "entry" /\ UNCHANGED <<plan, tables, frames, out, probed>> /\ frames = <<>>
  BY DEF Serve, buildVars, RowInv, StaticOK
<1>2. N' = N
  BY <1>1 DEF N, Joins
<1>3. out = <<>> /\ probed \in [1 .. N -> Seq(PickSeqs)] /\ \A k \in 1 .. N : probed[k] = <<>>
  BY <1>1 DEF HistInv
<1>4. K' = 1 /\ Len(frames') = 0
  BY <1>1 DEF K
<1>5. \A p : ~ Passed(p)'
  <2>. SUFFICES ASSUME NEW p, NEW k \in 1 .. Len(p), k <= K', Past(k, p[k])' PROVE FALSE
    BY DEF Passed
  <2>1. ~ (k <= Len(frames'))
    BY <1>4
  <2>. QED
    BY <1>1, <2>1 DEF Past
<1>6. \A k \in 1 .. N : \A p : ~ Stands(k, p)'
  BY <1>1, <1>4 DEF Stands
<1>7. Kept' = {} /\ \A k \in 1 .. N : Visited(k)' = {}
  BY <1>1, <1>5, <1>6 DEF Kept, Visited
<1>8. DOMAIN out' = {} /\ out' \in Seq(PickSeqs) /\ \A k \in 1 .. N : DOMAIN probed'[k] = {} /\ probed'[k] \in Seq(PickSeqs)
  BY <1>1, <1>3
<1>9. OutOK'
  BY <1>7, <1>8 DEF OutOK, Lists
<1>10. ProbedOK'
  BY <1>2, <1>7, <1>8 DEF ProbedOK, Lists, Distinct
<1>. QED
  BY <1>1, <1>2, <1>3, <1>8, <1>9, <1>10 DEF HistInv

\* Nor does it change when nothing does.
LEMMA HistoryStutters ==
  ASSUME RowInv, HistInv, UNCHANGED vars
  PROVE  HistInv'
<1>1. UNCHANGED <<plan, tables, at, groups, verdict, input, statics, pc, frames, cur, out, probed>>
  BY DEF vars
<1>2. CASE pc \in {"prepare", "refused", "ready"}
  <2>1. N' = N
    BY <1>1 DEF N, Joins
  <2>. QED
    BY <1>1, <1>2, <2>1 DEF HistInv
<1>3. CASE pc \notin {"prepare", "refused", "ready"}
  <2>1. InRow /\ RowStep
    BY <1>1, <1>3 DEF InRow, RowStep, RowInv, StaticOK, Blocks, buildVars
  <2>2. K' = K /\ Picks' = Picks /\ \A k : Prefix(k)' = Prefix(k)
    BY <1>1, OthersKeepFrames DEF RowInv
  <2>3. /\ \A k, y : Lo(k, y)' = Lo(k, y)
        /\ \A k, i : RowAt(k, i)' = RowAt(k, i)
        /\ \A Q : Before(Q)' = Before(Q)
    BY <1>1, RowStandsStill
  <2>4. Before(Picks)' = Before(Picks)
    BY <2>2, <2>3
  <2>5. \A k : Lo(k, Before(Picks))' = Lo(k, Before(Picks))
    BY <2>3, <2>4
  <2>6. \A k, x : Past(k, x)' <=> Past(k, x)
    BY <1>1, <2>2, <2>3, <2>5 DEF Past
  <2>7. \A p : Passed(p)' <=> Passed(p)
    BY <2>2, <2>6 DEF Passed
  <2>8. \A k, p : Stands(k, p)' <=> Stands(k, p)
    BY <1>1, <2>2 DEF Stands
  <2>9. Kept' = Kept
    BY <1>1, <2>1, <2>7, HistorySets DEF Kept
  <2>10. \A k \in 1 .. N : Visited(k)' = Visited(k)
    <3>. TAKE k \in 1 .. N
    <3>1. Visited(k)' = { p \in Reach(k - 1) : pc' = "over" \/ Passed(p)' \/ Stands(k, p)' }
      BY <2>1, HistorySets
    <3>. QED
      BY <1>1, <2>7, <2>8, <3>1 DEF Visited
  <2>. QED
    BY <1>1, <2>1, <2>9, <2>10, HistoryStays
<1>. QED
  BY <1>2, <1>3

\* Every step keeps the history.
LEMMA HistInvKept ==
  ASSUME RowInv, HistInv, [Next]_vars
  PROVE  HistInv'
<1>1. CASE Build \/ Prepare
  BY <1>1, EarlyHistory
<1>2. CASE Serve
  BY <1>2, ServeHistory
<1>3. CASE Entry
  BY <1>3, ProbingHistory
<1>4. CASE Header \/ Body \/ After \/ FoldHeader \/ FoldBody
  BY <1>4, QuietHistory
<1>5. CASE ProbeMap
  <2>1. CASE Matched(K) = <<>> /\ Joins[K].kind = "inner"
    BY <1>5, <2>1, MissHistory
  <2>2. CASE ~ (Matched(K) = <<>> /\ Joins[K].kind = "inner")
    BY <1>5, <2>2, ProbingHistory
  <2>. QED
    BY <2>1, <2>2
<1>6. CASE Done
  BY <1>6, DoneHistory
<1>7. CASE EmitRow \/ DropRow
  BY <1>7, LeaveHistory
<1>8. CASE UNCHANGED vars
  BY <1>8, HistoryStutters
<1>. QED
  BY <1>1, <1>2, <1>3, <1>4, <1>5, <1>6, <1>7, <1>8 DEF Next, RowNext

\* When the row is over all of it is history.
LEMMA HistoryIsExact ==
  ASSUME RowInv, HistInv
  PROVE  JoinIsExact
<1>. SUFFICES ASSUME pc = "over"
              PROVE  /\ { out[i] : i \in DOMAIN out } = Expected
                     /\ \A i, j \in DOMAIN out : i < j => Precedes(out[i], out[j])
                     /\ \A k \in 1 .. N :
                          /\ { probed[k][i] : i \in DOMAIN probed[k] } = Reaching[k - 1]
                          /\ Len(probed[k]) = Cardinality(Reaching[k - 1])
  BY DEF JoinIsExact
<1>1. InRow
  BY DEF InRow, Blocks
<1>2. N \in Nat /\ \A k \in 0 .. N : Reaching[k] = Reach(k)
  BY <1>1, RunningRow, ReachingIsReach
<1>3. OutOK /\ ProbedOK
  BY DEF HistInv
<1>4. Kept = Expected
  <2>1. Reaching[N] = Reach(N)
    BY <1>2
  <2>. QED
    BY <2>1 DEF Kept, Expected, Wanted
<1>5. { out[i] : i \in DOMAIN out } = Expected /\ \A i, j \in DOMAIN out : i < j => Precedes(out[i], out[j])
  BY <1>3, <1>4 DEF OutOK, Lists
<1>6. ASSUME NEW k \in 1 .. N
      PROVE  /\ { probed[k][i] : i \in DOMAIN probed[k] } = Reaching[k - 1]
             /\ Len(probed[k]) = Cardinality(Reaching[k - 1])
  <2>1. Visited(k) = Reaching[k - 1]
    <3>1. k - 1 \in 0 .. N
      BY <1>2
    <3>. QED
      BY <1>2, <3>1 DEF Visited
  <2>2. Lists(probed[k], Visited(k)) /\ Distinct(probed[k])
    BY <1>3 DEF ProbedOK
  <2>. QED
    BY <2>1, <2>2, DistinctCounts
<1>. QED
  BY <1>5, <1>6

\* The row code computes the join, for every query, every table and every input row: the
\* rows it emits are those of SQL, each once and in FROM order, and each join's keys are
\* evaluated once at every row the joins before it produce and at no other: what
\* lower_many_loops, emit_fold and lower_stage_head generate.
THEOREM JoinIsAlwaysExact == Spec => []JoinIsExact
<1>1. Init => RowInv /\ HistInv
  BY RowStarts, HistoryStarts
<1>2. RowInv /\ HistInv /\ [Next]_vars => (RowInv /\ HistInv)'
  BY RowInvKept, HistInvKept
<1>3. RowInv /\ HistInv => JoinIsExact
  BY HistoryIsExact
<1>. QED
  BY <1>1, <1>2, <1>3, PTL DEF Spec

-----------------------------------------------------------------------------
(* The maps that are refused.                                              *)

\* Among sorted entries two of one key make two neighbours of one key.
LEMMA DuplicatesMeet ==
  ASSUME Built, NEW k \in 1 .. N
  PROVE  HasDuplicate(Prepared(k)) <=>
           \E q, r \in DOMAIN tables[k] :
             q < r /\ SameKey(Joins[k].cmps, tables[k][q].key, tables[k][r].key)
<1>. DEFINE cmps == Joins[k].cmps
            t == tables[k]
            e == Prepared(k)
            w == Width(cmps)
            B(r) == Stored(cmps, t, r)
<1>1. JoinFits(Joins[k]) /\ TableOK(Joins[k], t)
  BY BuiltJoins
<1>2. PICK n \in Nat : DOMAIN t = 1 .. n
  BY <1>1 DEF TableOK
<1>3. Comparisons(cmps) /\ Keyed(cmps, t) /\ Unnulled(cmps, t)
  BY <1>1 DEF JoinFits, TableOK
<1>4. PICK At \in [1 .. n -> 1 .. n] :
        /\ e = [i \in 1 .. n |-> [key |-> B(At[i]), row |-> t[At[i]].row]]
        /\ \A r \in 1 .. n : \E i \in 1 .. n : At[i] = r
        /\ \A i, m \in 1 .. n : i < m => SortsBefore(cmps, t, At[i], At[m])
  BY <1>2, <1>3, EntriesEnumerate DEF Prepared
<1>5. w \in Nat /\ \A r \in 1 .. n : B(r) \in [1 .. w -> Nat]
  <2>1. w \in Nat
    BY <1>3, WidthType
  <2>2. ASSUME NEW r \in 1 .. n PROVE B(r) \in [1 .. w -> Raw]
    BY <1>2, <1>3, SlotsOfAKey DEF Keyed, Stored
  <2>. QED
    BY <2>1, <2>2, RawAssumption
<1>6. \A q, r \in 1 .. n : B(q) = B(r) <=> SameKey(cmps, t[q].key, t[r].key)
  BY <1>2, <1>3, BitsCompare DEF Keyed, Unnulled, Stored
<1>7. \A i, m \in 1 .. n : i < m =>
        SlotsBelow(B(At[i]), B(At[m])) \/ (B(At[i]) = B(At[m]) /\ At[i] < At[m])
  BY <1>4 DEF SortsBefore
<1>8. Len(e) = n /\ \A i \in 1 .. n : e[i].key = B(At[i])
  <2>. DEFINE E(i) == [key |-> B(At[i]), row |-> t[At[i]].row]
  <2>1. e = [i \in 1 .. n |-> E(i)]
    BY <1>4
  <2>2. \A i \in 1 .. n : E(i).key = B(At[i])
    OBVIOUS
  <2>. HIDE DEF e, B, E
  <2>. QED
    BY <2>1, <2>2
<1>9. At \in [1 .. n -> 1 .. n]
  BY <1>4
<1>10. \A r \in 1 .. n : \E i \in 1 .. n : At[i] = r
  BY <1>4
<1>. HIDE DEF B, w, e, t, cmps
<1>11. \A i \in 1 .. n : ~ SlotsBelow(B(i), B(i))
  BY <1>5, SlotsAreOrdered
<1>12. ASSUME HasDuplicate(e)
       PROVE  \E q, r \in DOMAIN t : q < r /\ SameKey(cmps, t[q].key, t[r].key)
  <2>1. PICK i \in 1 .. n - 1 : e[i].key = e[i + 1].key
    BY <1>8, <1>12 DEF HasDuplicate
  <2>2. i \in 1 .. n /\ i + 1 \in 1 .. n /\ i < i + 1
    OBVIOUS
  <2>3. At[i] \in 1 .. n /\ At[i + 1] \in 1 .. n /\ B(At[i]) = B(At[i + 1])
    BY <1>8, <1>9, <2>1, <2>2
  <2>4. At[i] < At[i + 1]
    BY <1>7, <1>11, <2>2, <2>3
  <2>5. SameKey(cmps, t[At[i]].key, t[At[i + 1]].key)
    BY <1>6, <2>3
  <2>6. At[i] \in DOMAIN t /\ At[i + 1] \in DOMAIN t
    BY <1>2, <2>3
  <2>. QED
    BY <2>4, <2>5, <2>6
<1>13. ASSUME NEW q \in DOMAIN t, NEW r \in DOMAIN t, q < r, SameKey(cmps, t[q].key, t[r].key)
       PROVE  HasDuplicate(e)
  <2>1. q \in 1 .. n /\ r \in 1 .. n /\ B(q) = B(r)
    BY <1>2, <1>6, <1>13
  <2>2. PICK i \in 1 .. n : At[i] = q
    BY <1>10, <2>1
  <2>3. PICK m \in 1 .. n : At[m] = r
    BY <1>10, <2>1
  <2>4. i < m
    <3>1. i # m
      BY <1>13, <2>1, <2>2, <2>3
    <3>2. ~ (m < i)
      BY <1>7, <1>11, <1>13, <2>1, <2>2, <2>3
    <3>. QED
      BY <3>1, <3>2
  <2>. DEFINE h == i + 1
  <2>5. h \in 1 .. n /\ i < h /\ h <= m /\ i \in 1 .. n - 1
    BY <2>4
  <2>. HIDE DEF h
  <2>6. B(At[h]) = B(q)
    <3>1. CASE h = m
      BY <2>1, <2>3, <3>1
    <3>2. CASE h # m
      <4>1. h < m
        BY <2>5, <3>2
      <4>2. SlotsBelow(B(q), B(At[h])) \/ B(q) = B(At[h])
        BY <1>7, <2>2, <2>5
      <4>3. SlotsBelow(B(At[h]), B(q)) \/ B(At[h]) = B(q)
        BY <1>7, <2>1, <2>3, <2>5, <4>1
      <4>4. B(q) \in [1 .. w -> Nat] /\ B(At[h]) \in [1 .. w -> Nat]
        BY <1>5, <1>9, <2>1, <2>5
      <4>5. ~ (SlotsBelow(B(q), B(At[h])) /\ SlotsBelow(B(At[h]), B(q)))
        BY <1>5, <1>11, <2>1, <4>4, SlotsBelowTransitive
      <4>. QED
        BY <4>2, <4>3, <4>5
    <3>. QED
      BY <3>1, <3>2
  <2>7. e[i].key = e[i + 1].key
    BY <1>8, <2>2, <2>5, <2>6 DEF h
  <2>. QED
    BY <1>8, <2>5, <2>7 DEF HasDuplicate
<1>. QED
  BY <1>12, <1>13 DEF e, t, cmps

\* A refusal was of a map with two neighbours of one key.
RefusalOK == pc = "refused" /\ ~ plan.many =>
               \E k \in 1 .. N : Joins[k].kind # "fold" /\ HasDuplicate(Prepared(k))

\* Only Prepare refuses, and nothing comes after it.
LEMMA RefusalOKKept ==
  ASSUME RowInv, RefusalOK, [Next]_vars
  PROVE  RefusalOK'
<1>1. CASE Build
  <2>1. pc' = pc /\ pc = "prepare"
    BY <1>1 DEF Build, BuildNext, ReadRow, FinishTable, Building, RowInv, StaticOK, rowVars
  <2>. QED
    BY <2>1 DEF RefusalOK
<1>2. CASE Prepare
  <2>1. UNCHANGED <<plan, tables>>
    BY <1>2 DEF Prepare, buildVars
  <2>2. Joins' = Joins /\ N' = N
    BY <2>1 DEF Joins, N
  <2>3. \A k : Prepared(k)' = Prepared(k)
    BY <2>1, <2>2 DEF Prepared
  <2>4. statics' = [k \in 1 .. N |-> Prepared(k)]
    BY <1>2 DEF Prepare, Prepared
  <2>5. SUFFICES ASSUME pc' = "refused", ~ plan.many
                 PROVE  \E k \in 1 .. N : Joins[k].kind # "fold" /\ HasDuplicate(Prepared(k)')
    BY <2>1, <2>2 DEF RefusalOK
  <2>6. PICK k \in 1 .. N : Joins[k].kind # "fold" /\ HasDuplicate(statics'[k])
    BY <1>2, <2>5 DEF Prepare
  <2>7. statics'[k] = Prepared(k)
    BY <2>4
  <2>. QED
    BY <2>3, <2>6, <2>7
<1>3. CASE \/ Serve \/ Entry \/ Header \/ Body \/ After \/ Done
           \/ FoldHeader \/ FoldBody \/ ProbeMap \/ EmitRow \/ DropRow
  <2>1. pc' # "refused"
    BY <1>3 DEF Serve, Entry, Header, HeaderTest, Body, After, Done, Continue, Open, FoldHeader,
                FoldBody, ProbeMap, EmitRow, DropRow, Leave
  <2>. QED
    BY <2>1 DEF RefusalOK
<1>4. CASE UNCHANGED vars
  <2>1. UNCHANGED <<plan, tables, pc>>
    BY <1>4 DEF vars
  <2>2. Joins' = Joins /\ N' = N
    BY <2>1 DEF Joins, N
  <2>3. \A k : Prepared(k)' = Prepared(k)
    BY <2>1, <2>2 DEF Prepared
  <2>. QED
    BY <2>1, <2>2, <2>3 DEF RefusalOK
<1>. QED
  BY <1>1, <1>2, <1>3, <1>4 DEF Next, RowNext

\* A row that is over was served by maps without such neighbours.
LEMMA RefusalsAreExact ==
  ASSUME RowInv, RefusalOK
  PROVE  MapsRefuseDuplicates
<1>. DEFINE Twice(k) == \E q, r \in DOMAIN tables[k] :
                          q < r /\ SameKey(Joins[k].cmps, tables[k][q].key, tables[k][r].key)
<1>1. SUFFICES ASSUME pc \in {"refused", "over"}, ~ plan.many
               PROVE  pc = "refused" <=> \E k \in 1 .. N : Joins[k].kind # "fold" /\ Twice(k)
  BY DEF MapsRefuseDuplicates
<1>2. Built
  BY <1>1 DEF RowInv, StaticOK, Built
<1>3. \A k \in 1 .. N : HasDuplicate(Prepared(k)) <=> Twice(k)
  BY <1>2, DuplicatesMeet
<1>4. pc = "over" => \A k \in 1 .. N : Joins[k].kind # "fold" => ~ HasDuplicate(Prepared(k))
  BY <1>1 DEF RowInv, StaticOK
<1>5. pc = "refused" => \E k \in 1 .. N : Joins[k].kind # "fold" /\ HasDuplicate(Prepared(k))
  BY <1>1 DEF RefusalOK
<1>. HIDE DEF Twice
<1>. QED
  BY <1>1, <1>3, <1>4, <1>5

\* prepare_statics refuses a map exactly if two of its rows would match one
\* probe, for every query and every table: two spellings of zero are one key, and so
\* are two NULLs where the comparison is IS NOT DISTINCT FROM.
THEOREM MapsAlwaysRefuseDuplicates == Spec => []MapsRefuseDuplicates
<1>1. Init => RowInv /\ RefusalOK
  BY RowStarts DEF Init, RefusalOK
<1>2. RowInv /\ RefusalOK /\ [Next]_vars => (RowInv /\ RefusalOK)'
  BY RowInvKept, RefusalOKKept
<1>3. RowInv /\ RefusalOK => MapsRefuseDuplicates
  BY RefusalsAreExact
<1>. QED
  BY <1>1, <1>2, <1>3, PTL DEF Spec

-----------------------------------------------------------------------------
(* Extremes.                                                               *)

\* A value of a table is ordered as a number.
LEMMA OrdIsNumber ==
  ASSUME NEW x \in Int
  PROVE  Ord(x) \in Int
<1>1. 2 ^ Precision \in Int /\ 2 ^ MaxExp \in Int
  BY FormatAssumption
<1>. DEFINE p == 2 ^ Precision
            e == 2 ^ MaxExp
<1>2. p \in Int /\ e \in Int
  BY <1>1
<1>3. MaxFloat = (p - 1) * e
  BY DEF MaxFloat
<1>. HIDE DEF p, e
<1>4. MaxFloat \in Int
  BY <1>2, <1>3
<1>5. NaN \in Int
  BY <1>4 DEF NaN, Infinite
<1>. QED
  BY <1>5 DEF Ord

\* Finitely many numbers have a least.
LEMMA LeastOfMany ==
  ASSUME NEW n \in Nat \ {0}, NEW f \in [1 .. n -> Int]
  PROVE  \E i \in 1 .. n : \A h \in 1 .. n : f[i] <= f[h]
<1>. DEFINE Below(i) == { h \in 1 .. n : f[h] < f[i] }
            C(i) == Cardinality(Below(i))
<1>1. IsFiniteSet(1 .. n)
  BY FS_Interval
<1>2. \A i \in 1 .. n : IsFiniteSet(Below(i)) /\ C(i) \in Nat
  <2>. TAKE i \in 1 .. n
  <2>1. Below(i) \in SUBSET (1 .. n)
    OBVIOUS
  <2>. HIDE DEF Below
  <2>. QED
    BY <1>1, <2>1, FS_Subset, FS_CardinalityType
<1>3. \E i \in 1 .. n : \A h \in 1 .. n : C(i) <= C(h)
  <2>. DEFINE c == [i \in 1 .. n |-> C(i)]
              T == { c[i] : i \in 1 .. n }
  <2>1. c \in [1 .. n -> Nat] /\ \A i \in 1 .. n : c[i] = C(i)
    BY <1>2
  <2>. HIDE DEF c, C
  <2>2. T \subseteq Nat /\ c[1] \in T /\ T # {}
    BY <2>1
  <2>3. \E x \in T : \A y \in T : x <= y
    <3>. HIDE DEF T
    <3>. QED
      BY <2>2, LeastNatural
  <2>. QED
    BY <2>1, <2>3
<1>4. PICK i \in 1 .. n : \A h \in 1 .. n : C(i) <= C(h)
  BY <1>3
<1>5. ASSUME NEW h \in 1 .. n, f[h] < f[i] PROVE FALSE
  <2>1. Below(h) \in SUBSET Below(i) /\ h \in Below(i) /\ h \notin Below(h)
    <3>1. f[h] \in Int /\ f[i] \in Int /\ \A g \in 1 .. n : f[g] \in Int
      OBVIOUS
    <3>2. \A g \in 1 .. n : f[g] < f[h] => f[g] < f[i]
      BY <1>5, <3>1
    <3>. QED
      BY <1>5, <3>1, <3>2
  <2>. DEFINE A == Below(i)
              B == Below(h)
  <2>2. IsFiniteSet(A) /\ B \in SUBSET A
    BY <1>2, <2>1
  <2>3. C(h) = Cardinality(B) /\ C(i) = Cardinality(A)
    OBVIOUS
  <2>. HIDE DEF A, B, C
  <2>4. C(h) <= C(i) /\ (C(h) = C(i) => B = A)
    BY <2>2, <2>3, FS_Subset
  <2>5. h \in A /\ h \notin B
    BY <2>1 DEF A, B
  <2>. HIDE DEF Below
  <2>. QED
    BY <1>2, <1>4, <2>4, <2>5
<1>. QED
  BY <1>5

\* Whether a value is at least as extreme as another.
Leads(build, x, y) == IF build.fn = "min" THEN Ord(x) <= Ord(y) ELSE Ord(x) >= Ord(y)

\* The place of an extreme in a sequence of values: the first that leads.
LEMMA ExtremeLeads ==
  ASSUME NEW build, NEW n \in Nat \ {0}, NEW v \in [1 .. n -> Int]
  PROVE  \E i \in 1 .. n : /\ Extreme(build, v) = v[i]
                           /\ \A h \in 1 .. n : Leads(build, v[i], v[h])
                           /\ (\A h \in 1 .. n : Ord(v[h]) = Ord(v[1])) => i = 1
<1>. DEFINE best == { i \in 1 .. n : \A h \in 1 .. n : Leads(build, v[i], v[h]) }
            f == [i \in 1 .. n |-> IF build.fn = "min" THEN Ord(v[i]) ELSE 0 - Ord(v[i])]
            first == CHOOSE i \in best : \A h \in best : i <= h
<1>1. \A i \in 1 .. n : Ord(v[i]) \in Int
  BY OrdIsNumber
<1>2. f \in [1 .. n -> Int]
  BY <1>1
<1>3. \A i, h \in 1 .. n : f[i] <= f[h] => Leads(build, v[i], v[h])
  BY <1>1 DEF Leads
<1>. HIDE DEF f
<1>4. best # {}
  BY <1>2, <1>3, LeastOfMany
<1>5. best \subseteq Nat
  OBVIOUS
<1>6. Extreme(build, v) = v[first]
  BY DEF Extreme, Leads
<1>7. (\A h \in 1 .. n : Ord(v[h]) = Ord(v[1])) => best = 1 .. n
  BY <1>1 DEF Leads
<1>8. best \subseteq 1 .. n /\ \A i \in best : \A h \in 1 .. n : Leads(build, v[i], v[h])
  OBVIOUS
<1>. HIDE DEF best
<1>9. first \in best /\ \A h \in best : first <= h
  <2>1. \E i \in best : \A h \in best : i <= h
    BY <1>4, <1>5, LeastNatural
  <2>. QED
    BY <2>1
<1>. HIDE DEF first
<1>10. (\A h \in 1 .. n : Ord(v[h]) = Ord(v[1])) => first = 1
  BY <1>7, <1>8, <1>9
<1>. QED
  BY <1>6, <1>8, <1>9, <1>10

\* Rows whose values are numbers, none of them NULL.
Numbers(rows, n) == /\ DOMAIN rows = 1 .. n
                    /\ \A i \in 1 .. n : rows[i].val \in Int /\ rows[i].val # Null

\* Every value is read, or one that is ordered the same before it.
LEMMA ValuesAreRead ==
  ASSUME NEW build \in Builds, NEW n \in Nat \ {0}, NEW rows, Numbers(rows, n)
  PROVE  \E m \in Nat \ {0} :
           /\ ValuesRead(build, rows) \in [1 .. m -> Int]
           /\ ValuesRead(build, rows)[1] = rows[1].val
           /\ \A i \in 1 .. m : \E h \in 1 .. n : ValuesRead(build, rows)[i] = rows[h].val
           /\ \A h \in 1 .. n : \E i \in 1 .. m : Ord(ValuesRead(build, rows)[i]) = Ord(rows[h].val)
<1>. DEFINE T == { i \in 1 .. n : build.distinct => \A h \in 1 .. n :
                                    h < i => Ord(rows[h].val) # Ord(rows[i].val) }
            ix == Sorting(T)
            vs == [i \in DOMAIN ix |-> rows[ix[i]].val]
<1>1. ValuesRead(build, rows) = vs
  <2>1. { i \in DOMAIN rows : rows[i].val # Null } = 1 .. n
    BY DEF Numbers
  <2>. QED
    BY <2>1 DEF ValuesRead
<1>2. T \subseteq Nat /\ IsFiniteSet(T) /\ T \subseteq 1 .. n
  <2>1. T \in SUBSET (1 .. n) /\ IsFiniteSet(1 .. n)
    BY FS_Interval
  <2>. QED
    BY <2>1, FS_Subset
<1>3. 1 \in T
  OBVIOUS
<1>4. \A h \in 1 .. n : \E t \in T : Ord(rows[t].val) = Ord(rows[h].val)
  <2>. TAKE h \in 1 .. n
  <2>. DEFINE Same == { g \in 1 .. n : Ord(rows[g].val) = Ord(rows[h].val) }
  <2>1. Same \subseteq Nat /\ h \in Same
    OBVIOUS
  <2>2. PICK g \in Same : \A q \in Same : g <= q
    BY <2>1, LeastNatural
  <2>3. g \in T
    <3>1. ASSUME NEW q \in 1 .. n, q < g, Ord(rows[q].val) = Ord(rows[g].val) PROVE FALSE
      BY <2>2, <3>1
    <3>. QED
      BY <2>2, <3>1
  <2>. QED
    BY <2>2, <2>3
<1>. HIDE DEF T
<1>5. PICK m \in Nat : /\ DOMAIN ix = 1 .. m
                       /\ \A i \in 1 .. m : ix[i] \in T
                       /\ \A i, k \in 1 .. m : i < k => ix[i] < ix[k]
                       /\ \A x \in T : \E i \in 1 .. m : ix[i] = x
  BY <1>2, SortingSorts
<1>. HIDE DEF ix
<1>6. m # 0 /\ ix[1] = 1
  <2>1. PICK i \in 1 .. m : ix[i] = 1
    BY <1>3, <1>5
  <2>2. 1 \in 1 .. m
    OBVIOUS
  <2>3. ix[1] \in 1 .. n
    BY <1>2, <1>5, <2>2
  <2>4. ~ (1 < i)
    BY <1>5, <2>1, <2>2, <2>3
  <2>. QED
    BY <2>1, <2>4
<1>7. \A i \in 1 .. m : vs[i] = rows[ix[i]].val /\ ix[i] \in 1 .. n
  BY <1>2, <1>5
<1>8. vs \in [1 .. m -> Int]
  BY <1>5, <1>7 DEF Numbers
<1>9. \A h \in 1 .. n : \E i \in 1 .. m : Ord(vs[i]) = Ord(rows[h].val)
  <2>. TAKE h \in 1 .. n
  <2>1. PICK t \in T : Ord(rows[t].val) = Ord(rows[h].val)
    BY <1>4
  <2>2. PICK i \in 1 .. m : ix[i] = t
    BY <1>5
  <2>. QED
    BY <1>7, <2>1, <2>2
<1>10. vs[1] = rows[1].val /\ m \in Nat \ {0}
  BY <1>5, <1>6, <1>7
<1>11. \A i \in 1 .. m : \E h \in 1 .. n : vs[i] = rows[h].val
  BY <1>7
<1>. HIDE DEF vs
<1>. QED
  BY <1>1, <1>8, <1>9, <1>10, <1>11

\* What DuckDB answers for a min or a max over rows without a NULL.
LEMMA AggregateLeads ==
  ASSUME NEW b \in Builds, b.fn \in {"min", "max"},
         NEW n \in Nat \ {0}, NEW rows, Numbers(rows, n)
  PROVE  /\ \E q \in 1 .. n : /\ DuckAggregate(b, rows) = rows[q].val
                              /\ \A h \in 1 .. n : Leads(b, rows[q].val, rows[h].val)
         /\ (\A h \in 1 .. n : Ord(rows[h].val) = Ord(rows[1].val)) => DuckAggregate(b, rows) = rows[1].val
<1>. DEFINE vs == ValuesRead(b, rows)
<1>0. \E m \in Nat \ {0} :
        /\ ValuesRead(b, rows) \in [1 .. m -> Int]
        /\ ValuesRead(b, rows)[1] = rows[1].val
        /\ \A i \in 1 .. m : \E h \in 1 .. n : ValuesRead(b, rows)[i] = rows[h].val
        /\ \A h \in 1 .. n : \E i \in 1 .. m : Ord(ValuesRead(b, rows)[i]) = Ord(rows[h].val)
  BY ValuesAreRead
<1>1. PICK m \in Nat \ {0} :
        /\ vs \in [1 .. m -> Int] /\ vs[1] = rows[1].val
        /\ \A i \in 1 .. m : \E h \in 1 .. n : vs[i] = rows[h].val
        /\ \A h \in 1 .. n : \E i \in 1 .. m : Ord(vs[i]) = Ord(rows[h].val)
  BY <1>0
<1>2. DuckAggregate(b, rows) = Extreme(b, vs)
  <2>1. DOMAIN vs = 1 .. m /\ 1 \in 1 .. m
    BY <1>1
  <2>. HIDE DEF vs
  <2>2. vs # <<>>
    BY <2>1
  <2>3. DuckAggregate(b, rows) =
          CASE b.fn = "count_star" -> Len(rows)
            [] b.fn = "count" -> Len(vs)
            [] b.fn \notin {"count_star", "count"} /\ vs = <<>> -> Null
            [] OTHER ->
                 CASE b.fn \in {"min", "max"} -> Extreme(b, vs)
                   [] b.fn \in {"bool_and", "bit_and"} -> IF Ones(vs) = Len(vs) THEN 1 ELSE 0
                   [] b.fn \in {"bool_or", "bit_or"} -> IF Ones(vs) > 0 THEN 1 ELSE 0
                   [] b.fn = "bit_xor" -> Ones(vs) % 2
                   [] OTHER -> DuckSum(b, vs)
    BY DEF DuckAggregate, vs
  <2>4. CASE b.fn = "min"
    BY <2>2, <2>3, <2>4
  <2>5. CASE b.fn = "max"
    BY <2>2, <2>3, <2>5
  <2>. QED
    BY <2>4, <2>5
<1>. HIDE DEF vs
<1>3. PICK i \in 1 .. m : /\ Extreme(b, vs) = vs[i]
                          /\ \A h \in 1 .. m : Leads(b, vs[i], vs[h])
                          /\ (\A h \in 1 .. m : Ord(vs[h]) = Ord(vs[1])) => i = 1
  BY <1>1, ExtremeLeads
<1>4. PICK q \in 1 .. n : vs[i] = rows[q].val
  BY <1>1
<1>5. ASSUME NEW h \in 1 .. n PROVE Leads(b, rows[q].val, rows[h].val)
  <2>1. PICK k \in 1 .. m : Ord(vs[k]) = Ord(rows[h].val)
    BY <1>1
  <2>2. Leads(b, vs[i], vs[k])
    BY <1>3
  <2>. QED
    BY <1>4, <2>1, <2>2 DEF Leads
<1>6. ASSUME \A h \in 1 .. n : Ord(rows[h].val) = Ord(rows[1].val) PROVE vs[i] = rows[1].val
  <2>1. \A h \in 1 .. m : Ord(vs[h]) = Ord(vs[1])
    BY <1>1, <1>6
  <2>. QED
    BY <1>1, <1>3, <2>1
<1>. QED
  BY <1>2, <1>3, <1>4, <1>5, <1>6

\* The rows of S in an order.
LEMMA OrdersOf ==
  ASSUME NEW j, NEW S, NEW rows \in Orders(j, S)
  PROVE  \E f \in [1 .. Cardinality(S) -> S] :
           /\ rows = [ i \in 1 .. Cardinality(S) |-> j.table[f[i]] ]
           /\ \A r \in S : \E i \in 1 .. Cardinality(S) : f[i] = r
<1>1. PICK f \in [1 .. Cardinality(S) -> S] :
        { f[i] : i \in DOMAIN f } = S /\ rows = [ i \in 1 .. Cardinality(S) |-> j.table[f[i]] ]
  BY DEF Orders
<1>2. ASSUME NEW r \in S PROVE \E i \in 1 .. Cardinality(S) : f[i] = r
  <2>1. r \in { f[i] : i \in DOMAIN f }
    BY <1>1
  <2>. QED
    BY <2>1
<1>. QED
  BY <1>1, <1>2

\* Numbering the rows of a set gives one of its orders.
LEMMA OrderedBy ==
  ASSUME NEW j, NEW S, NEW f \in [1 .. Cardinality(S) -> S],
         \A r \in S : \E i \in 1 .. Cardinality(S) : f[i] = r
  PROVE  [ i \in 1 .. Cardinality(S) |-> j.table[f[i]] ] \in Orders(j, S)
<1>1. { f[i] : i \in DOMAIN f } = S
  OBVIOUS
<1>. QED
  BY <1>1 DEF Orders

\* Two rows whose values order the same, and are not.
Clashes(j, q, r) == /\ j.table[q].val # Null /\ j.table[r].val # Null
                    /\ Ord(j.table[q].val) = Ord(j.table[r].val) /\ j.table[q].val # j.table[r].val

\* Values that are no NULLs.
Valued(j, S) == /\ S \subseteq Nat /\ IsFiniteSet(S) /\ S # {}
                /\ \A r \in S : j.table[r].val \in Int /\ j.table[r].val # Null

\* A min or a max of rows without a clash is the same in every order of them.
LEMMA ExtremesAgree ==
  ASSUME NEW j, NEW S, Valued(j, S), \A q, r \in S : ~ Clashes(j, q, r),
         NEW b \in Builds, b.fn \in {"min", "max"}
  PROVE  Cardinality({ DuckAggregate(b, rows) : rows \in Orders(j, S) }) = 1
<1>. DEFINE n == Cardinality(S)
            A == { DuckAggregate(b, rows) : rows \in Orders(j, S) }
            Best(r) == r \in S /\ \A s \in S : Leads(b, j.table[r].val, j.table[s].val)
<1>1. n \in Nat \ {0}
  BY FS_CardinalityType, FS_EmptySet DEF Valued
<1>2. ASSUME NEW rows \in Orders(j, S)
      PROVE  \E r : Best(r) /\ DuckAggregate(b, rows) = j.table[r].val
  <2>1. PICK f \in [1 .. n -> S] : /\ rows = [ i \in 1 .. n |-> j.table[f[i]] ]
                                   /\ \A r \in S : \E i \in 1 .. n : f[i] = r
    BY OrdersOf
  <2>. HIDE DEF n
  <2>2. Numbers(rows, n) /\ \A i \in 1 .. n : rows[i].val = j.table[f[i]].val
    BY <2>1 DEF Numbers, Valued
  <2>3. PICK q \in 1 .. n : /\ DuckAggregate(b, rows) = rows[q].val
                            /\ \A h \in 1 .. n : Leads(b, rows[q].val, rows[h].val)
    BY <1>1, <2>2, AggregateLeads
  <2>4. Best(f[q])
    <3>. SUFFICES ASSUME NEW s \in S PROVE Leads(b, j.table[f[q]].val, j.table[s].val)
      BY <2>1
    <3>1. PICK i \in 1 .. n : f[i] = s
      BY <2>1
    <3>2. Leads(b, rows[q].val, rows[i].val)
      BY <2>3
    <3>. QED
      BY <2>2, <3>1, <3>2
  <2>. QED
    BY <2>2, <2>3, <2>4
<1>3. ASSUME NEW q, NEW r, Best(q), Best(r) PROVE j.table[q].val = j.table[r].val
  <2>1. /\ q \in S /\ r \in S
        /\ Leads(b, j.table[q].val, j.table[r].val) /\ Leads(b, j.table[r].val, j.table[q].val)
    BY <1>3
  <2>2. Ord(j.table[q].val) \in Int /\ Ord(j.table[r].val) \in Int
    BY <2>1, OrdIsNumber DEF Valued
  <2>3. Ord(j.table[q].val) = Ord(j.table[r].val)
    BY <2>1, <2>2 DEF Leads
  <2>. QED
    BY <2>1, <2>3 DEF Clashes, Valued
<1>4. \E rows : rows \in Orders(j, S)
  <2>. DEFINE f == Sorting(S)
              C(i) == CHOOSE x \in S : Cardinality({ y \in S : y < x }) = i - 1
  <2>1. f = [ i \in 1 .. n |-> C(i) ]
    BY DEF Sorting
  <2>0. S \subseteq Nat /\ IsFiniteSet(S)
    BY DEF Valued
  <2>. HIDE DEF C, n
  <2>3. DOMAIN f = 1 .. n /\ f = [ i \in 1 .. n |-> f[i] ]
    BY <2>1
  <2>2. PICK m \in Nat : /\ DOMAIN f = 1 .. m
                         /\ \A i \in 1 .. m : f[i] \in S
                         /\ \A x \in S : \E i \in 1 .. m : f[i] = x
    <3>1. \E m \in Nat :
             /\ DOMAIN Sorting(S) = 1 .. m
             /\ \A i \in 1 .. m : Sorting(S)[i] \in S
             /\ \A i, k \in 1 .. m : i < k => Sorting(S)[i] < Sorting(S)[k]
             /\ \A x \in S : \E i \in 1 .. m : Sorting(S)[i] = x
      BY <2>0, SortingSorts
    <3>. QED
      BY <3>1
  <2>. HIDE DEF f
  <2>4. f \in [1 .. n -> S] /\ \A x \in S : \E i \in 1 .. n : f[i] = x
    BY <2>2, <2>3
  <2>5. [ i \in 1 .. n |-> j.table[f[i]] ] \in Orders(j, S)
    BY <2>4, OrderedBy DEF n
  <2>. QED
    BY <2>5
<1>. HIDE DEF Best
<1>5. \E v : A = {v}
  <2>1. PICK rows : rows \in Orders(j, S)
    BY <1>4
  <2>2. \A x, y \in A : x = y
    BY <1>2, <1>3
  <2>3. DuckAggregate(b, rows) \in A
    BY <2>1
  <2>. HIDE DEF A
  <2>4. A = {DuckAggregate(b, rows)}
    BY <2>2, <2>3
  <2>. QED
    BY <2>4
<1>. QED
  BY <1>5, FS_Singleton

\* A clash is told by the order: the first of the two is answered.
LEMMA ClashesTell ==
  ASSUME NEW j, NEW q \in Nat, NEW r \in Nat, j.table[q].val \in Int, j.table[r].val \in Int,
         Clashes(j, q, r), NEW b \in Builds, b.fn \in {"min", "max"}
  PROVE  Cardinality({ DuckAggregate(b, rows) : rows \in Orders(j, {q, r}) }) # 1
<1>. DEFINE S == {q, r}
            A == { DuckAggregate(b, rows) : rows \in Orders(j, S) }
<1>1. q # r
  BY DEF Clashes
<1>2. IsFiniteSet(S) /\ Cardinality(S) = 2
  <2>1. IsFiniteSet({q}) /\ Cardinality({q}) = 1 /\ r \notin {q} /\ S = {q} \union {r}
    BY <1>1, FS_Singleton
  <2>. HIDE DEF S
  <2>2. IsFiniteSet({q} \union {r}) /\ Cardinality({q} \union {r}) = 1 + 1
    BY <2>1, FS_AddElement
  <2>. QED
    BY <2>1, <2>2
<1>3. ASSUME NEW f \in [1 .. 2 -> S], f[1] # f[2]
      PROVE  \E rows \in Orders(j, S) : DuckAggregate(b, rows) = j.table[f[1]].val
  <2>. DEFINE rows == [ i \in 1 .. 2 |-> j.table[f[i]] ]
  <2>1. 1 .. 2 = {1, 2}
    OBVIOUS
  <2>2. \A x \in S : \E i \in 1 .. 2 : f[i] = x
    BY <1>3, <2>1
  <2>3. rows \in Orders(j, S)
    <3>. HIDE DEF S
    <3>. QED
      BY <1>2, <2>2, OrderedBy
  <2>4. \A i \in 1 .. 2 : rows[i].val = j.table[f[i]].val /\ f[i] \in {q, r}
    OBVIOUS
  <2>5. DOMAIN rows = 1 .. 2
    OBVIOUS
  <2>. HIDE DEF rows
  <2>6. Numbers(rows, 2)
    BY <2>4, <2>5 DEF Numbers, Clashes
  <2>7. \A i \in 1 .. 2 : Ord(rows[i].val) = Ord(rows[1].val)
    BY <2>1, <2>4 DEF Clashes
  <2>8. DuckAggregate(b, rows) = rows[1].val
    <3>1. 2 \in Nat \ {0}
      OBVIOUS
    <3>. QED
      BY <2>6, <2>7, <3>1, AggregateLeads
  <2>9. rows[1].val = j.table[f[1]].val
    BY <2>1, <2>4
  <2>. QED
    BY <2>3, <2>8, <2>9
<1>4. j.table[q].val \in A /\ j.table[r].val \in A
  <2>. DEFINE f == [ i \in 1 .. 2 |-> IF i = 1 THEN q ELSE r ]
              g == [ i \in 1 .. 2 |-> IF i = 1 THEN r ELSE q ]
  <2>1. f \in [1 .. 2 -> S] /\ f[1] = q /\ f[2] = r /\ g \in [1 .. 2 -> S] /\ g[1] = r /\ g[2] = q
    OBVIOUS
  <2>. HIDE DEF f, g, S
  <2>2. \E rows \in Orders(j, S) : DuckAggregate(b, rows) = j.table[q].val
    BY <1>1, <1>3, <2>1
  <2>3. \E rows \in Orders(j, S) : DuckAggregate(b, rows) = j.table[r].val
    BY <1>1, <1>3, <2>1
  <2>. QED
    BY <2>2, <2>3
<1>5. A \subseteq { j.table[x].val : x \in S }
  <2>. SUFFICES ASSUME NEW rows \in Orders(j, S)
                PROVE  DuckAggregate(b, rows) \in { j.table[x].val : x \in S }
    OBVIOUS
  <2>1. PICK f \in [1 .. 2 -> S] : /\ rows = [ i \in 1 .. 2 |-> j.table[f[i]] ]
                                   /\ \A x \in S : \E i \in 1 .. 2 : f[i] = x
    <3>. HIDE DEF S
    <3>1. PICK f \in [1 .. Cardinality(S) -> S] :
            /\ rows = [ i \in 1 .. Cardinality(S) |-> j.table[f[i]] ]
            /\ \A x \in S : \E i \in 1 .. Cardinality(S) : f[i] = x
      BY OrdersOf
    <3>. QED
      BY <1>2, <3>1
  <2>2. DOMAIN rows = 1 .. 2 /\ \A i \in 1 .. 2 : rows[i].val = j.table[f[i]].val /\ f[i] \in S
    BY <2>1
  <2>3. Numbers(rows, 2)
    BY <2>2 DEF Numbers, Clashes
  <2>4. PICK i \in 1 .. 2 : DuckAggregate(b, rows) = rows[i].val
    <3>1. 2 \in Nat \ {0}
      OBVIOUS
    <3>. QED
      BY <2>3, <3>1, AggregateLeads
  <2>. HIDE DEF S
  <2>. QED
    BY <2>2, <2>4
<1>6. IsFiniteSet(A)
  <2>1. { j.table[x].val : x \in S } = {j.table[q].val} \union {j.table[r].val}
    BY DEF S
  <2>2. IsFiniteSet({j.table[q].val} \union {j.table[r].val})
    <3>. DEFINE x == j.table[q].val
                y == j.table[r].val
    <3>1. IsFiniteSet({x})
      BY FS_Singleton
    <3>. HIDE DEF x, y
    <3>2. IsFiniteSet({x} \union {y})
      BY <3>1, FS_AddElement
    <3>. QED
      BY <3>2 DEF x, y
  <2>. HIDE DEF A
  <2>. QED
    BY <1>5, <2>1, <2>2, FS_Subset
<1>. HIDE DEF A
<1>7. Cardinality(A) = 1 => \E x : A = {x}
  BY <1>6, FS_Singleton
<1>. QED
  BY <1>4, <1>7 DEF Clashes, A

-----------------------------------------------------------------------------
(* Scans: the rows of a table read one by one.                             *)

\* A join's table as PlansAssumption has it.
BuildFits(j) == /\ j.build \in Builds /\ (j.build.how = "rows" => j.build.limit \in Nat)
                /\ \A r \in DOMAIN j.table : j.table[r].val \in Int \union {Null}

\* The builds of a query's joins, and the rows of their sources, fit.
LEMMA BuildsFit ==
  ASSUME plan \in Plans, NEW k \in 1 .. Len(Joins)
  PROVE  BuildFits(Joins[k])
<1>1. /\ Joins[k].build \in Builds /\ (Joins[k].build.how = "rows" => Joins[k].build.limit \in Nat)
      /\ Joins[k].table \in Seq(SourceRows)
  BY PlansAssumption DEF Joins
<1>2. ASSUME NEW r \in DOMAIN Joins[k].table PROVE Joins[k].table[r].val \in Int \union {Null}
  <2>. DEFINE t == Joins[k].table
  <2>1. t \in Seq(SourceRows)
    BY <1>1
  <2>. HIDE DEF t
  <2>2. DOMAIN t = 1 .. Len(t)
    BY <2>1, LenProperties
  <2>3. r \in 1 .. Len(t)
    BY <1>2, <2>2 DEF t
  <2>4. t[r] \in SourceRows
    BY <2>1, <2>3, ElementOfSeq
  <2>. QED
    BY <2>4 DEF SourceRows, t
<1>. QED
  BY <1>1, <1>2 DEF BuildFits

\* The groups of a scan that is read to its end.
ScanRead(j) == /\ JoinFits(j) /\ BuildFits(j) /\ j.build.how = "rows"
               /\ DOMAIN groups = Matchable(j)
               /\ \A r \in Matchable(j) : groups[r] = j.table[r]

\* The rows of row q's key.
Mates(j, q) == RowsOf(j, CanonKey(j.table[q].key))

\* scan_limit and scan_ties, of the rows of one key.
LEMMA ScanRefuses ==
  ASSUME NEW j, ScanRead(j)
  PROVE  ScanRefused(j) <=>
           \E q \in Matchable(j) : \/ Cardinality(Mates(j, q)) > j.build.limit
                                   \/ ~ j.build.ties /\ \E r \in Mates(j, q) : Clashes(j, q, r)
<1>. DEFINE Same(q) == { r \in DOMAIN groups : CanonKey(groups[r].key) = CanonKey(groups[q].key) }
            Clash(q, r) == /\ groups[q].val # Null /\ groups[r].val # Null
                           /\ Ord(groups[q].val) = Ord(groups[r].val) /\ groups[q].val # groups[r].val
<1>1. \A r \in Matchable(j) : groups[r].key = j.table[r].key /\ groups[r].val = j.table[r].val
  BY DEF ScanRead
<1>2. \A q \in Matchable(j) : Same(q) = Mates(j, q)
  <2>. TAKE q \in Matchable(j)
  <2>1. \A r \in Matchable(j) : CanonKey(groups[r].key) = CanonKey(j.table[r].key)
    BY <1>1
  <2>2. DOMAIN groups = Matchable(j)
    BY DEF ScanRead
  <2>. QED
    BY <2>1, <2>2 DEF Mates, RowsOf
<1>3. \A q, r \in Matchable(j) : Clash(q, r) <=> Clashes(j, q, r)
  BY <1>1 DEF Clashes
<1>4. ScanRefused(j) <=> \E q \in DOMAIN groups : \/ Cardinality(Same(q)) > j.build.limit
                                                  \/ ~ j.build.ties /\ \E r \in Same(q) : Clash(q, r)
  BY DEF ScanRefused, ScanRead
<1>5. DOMAIN groups = Matchable(j) /\ \A q \in Matchable(j) : Mates(j, q) \subseteq Matchable(j)
  BY DEF ScanRead, Mates, RowsOf
<1>. HIDE DEF Same, Clash
<1>6. \A q \in Matchable(j) : (\E r \in Same(q) : Clash(q, r)) <=> \E r \in Mates(j, q) : Clashes(j, q, r)
  BY <1>2, <1>3, <1>5
<1>. QED
  BY <1>2, <1>4, <1>5, <1>6

\* The rows of a key, finitely many of the table's.
LEMMA RowsOfAKey ==
  ASSUME NEW j, JoinFits(j), NEW key
  PROVE  RowsOf(j, key) \subseteq Nat \ {0} /\ RowsOf(j, key) \subseteq DOMAIN j.table /\ IsFiniteSet(RowsOf(j, key))
<1>1. RowsOf(j, key) \in SUBSET (1 .. Len(j.table)) /\ Len(j.table) \in Nat /\ DOMAIN j.table = 1 .. Len(j.table)
  BY DEF RowsOf, Matchable, JoinFits
<1>2. IsFiniteSet(1 .. Len(j.table))
  BY <1>1, FS_Interval
<1>. QED
  BY <1>1, <1>2, FS_Subset

\* A build stays one when its function becomes min or max.
LEMMA OtherFn ==
  ASSUME NEW b \in Builds, NEW fn \in {"min", "max"}
  PROVE  [b EXCEPT !.fn = fn] \in Builds /\ [b EXCEPT !.fn = fn].fn \in {"min", "max"}
BY DEF Builds, Fns

\* A scan that is not refused answers the same in any order.
LEMMA ScansAreFree ==
  ASSUME NEW j, ScanRead(j), ~ ScanRefused(j)
  PROVE  ScanIsOrderFree(j)
<1>1. JoinFits(j) /\ BuildFits(j) /\ j.build.limit \in Nat /\ j.build \in Builds
  BY DEF ScanRead, BuildFits
<1>2. ASSUME NEW q \in Matchable(j)
      PROVE  /\ ~ (Cardinality(Mates(j, q)) > j.build.limit)
             /\ j.build.ties \/ \A r \in Mates(j, q) : ~ Clashes(j, q, r)
  BY ScanRefuses
<1>. SUFFICES ASSUME NEW key \in GroupKeys(j)
              PROVE  /\ Cardinality(RowsOf(j, key)) <= j.build.limit
                     /\ j.build.ties \/ AnyOrder(j, key)
  BY DEF ScanIsOrderFree
<1>3. \A q \in RowsOf(j, key) : q \in Matchable(j) /\ Mates(j, q) = RowsOf(j, key)
  BY DEF RowsOf, Mates
<1>4. RowsOf(j, key) \subseteq Nat /\ RowsOf(j, key) \subseteq DOMAIN j.table /\ IsFiniteSet(RowsOf(j, key))
  BY <1>1, RowsOfAKey
<1>5. Cardinality(RowsOf(j, key)) <= j.build.limit
  <2>1. CASE RowsOf(j, key) = {}
    <3>1. Cardinality(RowsOf(j, key)) = 0
      BY <2>1, FS_EmptySet
    <3>. QED
      BY <1>1, <3>1
  <2>2. CASE RowsOf(j, key) # {}
    <3>1. PICK q : q \in RowsOf(j, key)
      BY <2>2
    <3>2. ~ (Cardinality(RowsOf(j, key)) > j.build.limit)
      BY <1>2, <1>3, <3>1
    <3>3. Cardinality(RowsOf(j, key)) \in Nat
      BY <1>4, FS_CardinalityType
    <3>. QED
      BY <1>1, <3>2, <3>3
  <2>. QED
    BY <2>1, <2>2
<1>6. ASSUME ~ j.build.ties PROVE AnyOrder(j, key)
  <2>. SUFFICES ASSUME NEW S \in SUBSET { r \in RowsOf(j, key) : j.table[r].val # Null }, S # {},
                       NEW fn \in {"min", "max"}
                PROVE  Cardinality({ DuckAggregate([j.build EXCEPT !.fn = fn], rows) : rows \in Orders(j, S) }) = 1
    BY DEF AnyOrder
  <2>. DEFINE b == [j.build EXCEPT !.fn = fn]
  <2>1. S \subseteq Nat /\ S \in SUBSET RowsOf(j, key) /\ \A r \in S : j.table[r].val # Null
    BY <1>4
  <2>2. Valued(j, S)
    <3>1. IsFiniteSet(S)
      BY <1>4, <2>1, FS_Subset
    <3>2. \A r \in S : j.table[r].val \in Int
      BY <1>1, <1>4, <2>1 DEF BuildFits
    <3>. QED
      BY <2>1, <3>1, <3>2 DEF Valued
  <2>3. \A q, r \in S : ~ Clashes(j, q, r)
    BY <1>2, <1>3, <1>6, <2>1
  <2>4. b \in Builds /\ b.fn \in {"min", "max"}
    BY <1>1, OtherFn
  <2>. HIDE DEF b
  <2>5. Cardinality({ DuckAggregate(b, rows) : rows \in Orders(j, S) }) = 1
    BY <2>2, <2>3, <2>4, ExtremesAgree
  <2>. QED
    BY <2>5 DEF b
<1>. QED
  BY <1>5, <1>6

\* One that is refused has a key whose answer may depend on the order, or that has
\* too many rows.
LEMMA ScansAreRefusedForCause ==
  ASSUME NEW j, ScanRead(j), ScanRefused(j)
  PROVE  \E key \in GroupKeys(j) : Unanswerable(j, key)
<1>1. JoinFits(j) /\ BuildFits(j) /\ j.build \in Builds /\ j.build.how = "rows"
  BY DEF ScanRead, BuildFits
<1>2. PICK q \in Matchable(j) : \/ Cardinality(Mates(j, q)) > j.build.limit
                                \/ ~ j.build.ties /\ \E r \in Mates(j, q) : Clashes(j, q, r)
  BY ScanRefuses
<1>. DEFINE key == CanonKey(j.table[q].key)
<1>3. key \in GroupKeys(j) /\ q \in RowsOf(j, key) /\ Mates(j, q) = RowsOf(j, key)
  BY DEF GroupKeys, RowsOf, Mates
<1>4. RowsOf(j, key) \subseteq Nat /\ RowsOf(j, key) \subseteq DOMAIN j.table
  BY <1>1, RowsOfAKey
<1>. HIDE DEF key
<1>5. CASE Cardinality(RowsOf(j, key)) > j.build.limit
  BY <1>1, <1>3, <1>5 DEF Unanswerable
<1>6. CASE \E r \in RowsOf(j, key) : Clashes(j, q, r)
  <2>1. PICK r \in RowsOf(j, key) : Clashes(j, q, r)
    BY <1>6
  <2>. DEFINE S == {q, r}
              b == [j.build EXCEPT !.fn = "min"]
  <2>2. S \in SUBSET { s \in RowsOf(j, key) : j.table[s].val # Null } /\ S # {}
    BY <1>3, <2>1 DEF Clashes
  <2>3. q \in Nat /\ r \in Nat /\ j.table[q].val \in Int /\ j.table[r].val \in Int
    BY <1>1, <1>3, <1>4, <2>1 DEF BuildFits, Clashes
  <2>4. b \in Builds /\ b.fn \in {"min", "max"}
    BY <1>1, OtherFn
  <2>5. Cardinality({ DuckAggregate(b, rows) : rows \in Orders(j, S) }) # 1
    <3>. HIDE DEF b
    <3>. QED
      BY <2>1, <2>3, <2>4, ClashesTell
  <2>. HIDE DEF S
  <2>6. ~ AnyOrder(j, key)
    BY <2>2, <2>5 DEF AnyOrder
  <2>. QED
    BY <1>1, <1>3, <2>6 DEF Unanswerable
<1>. QED
  BY <1>2, <1>3, <1>5, <1>6

\* InAnyOrder has every element of a finite set, as many as there are.
LEMMA InAnyOrderIsOnto ==
  ASSUME NEW S, IsFiniteSet(S)
  PROVE  /\ InAnyOrder(S) \in [1 .. Cardinality(S) -> S] /\ Cardinality(S) \in Nat
         /\ \A x \in S : \E i \in 1 .. Cardinality(S) : InAnyOrder(S)[i] = x
<1>. DEFINE n == Cardinality(S)
            f == InAnyOrder(S)
<1>1. n \in Nat /\ ExistsBijection(1 .. n, S)
  BY FS_CardinalityType
<1>2. PICK g \in [1 .. n -> S] : \A i, k \in 1 .. n : i # k => g[i] # g[k]
  BY <1>1 DEF ExistsBijection, Bijection, Injection, IsInjective
<1>3. \E h \in [1 .. n -> S] : \A i, k \in DOMAIN h : i # k => h[i] # h[k]
  BY <1>2
<1>4. f \in [1 .. n -> S] /\ \A i, k \in DOMAIN f : i # k => f[i] # f[k]
  BY <1>3 DEF InAnyOrder
<1>. HIDE DEF f
<1>5. f \in Injection(1 .. n, S)
  BY <1>4 DEF Injection, IsInjective
<1>6. IsFiniteSet(1 .. n) /\ Cardinality(1 .. n) = n
  BY <1>1, FS_Interval
<1>7. f \in Surjection(1 .. n, S)
  BY <1>5, <1>6, FS_Injection
<1>. QED
  BY <1>1, <1>4, <1>7 DEF Surjection, f

\* The table made of its groups has all of them, each once.
LEMMA TablesAreMadeWhole ==
  ASSUME NEW j, JoinFits(j), GroupsOK(j, groups, Len(j.table) + 1)
  PROVE  TableIsWhole(j, TableOf(j))
<1>. DEFINE t == TableOf(j)
<1>1. { r \in Matchable(j) : r < Len(j.table) + 1 } = Matchable(j)
  BY DEF Matchable, JoinFits
<1>2. CASE Plain(j.build.how)
  <2>. DEFINE rs == Sorting(Matchable(j))
              n == Cardinality(Matchable(j))
              C(i) == CHOOSE x \in Matchable(j) : Cardinality({ y \in Matchable(j) : y < x }) = i - 1
  <2>1. DOMAIN groups = Matchable(j)
    BY <1>1, <1>2 DEF GroupsOK
  <2>2. Matchable(j) \subseteq Nat /\ IsFiniteSet(Matchable(j))
    <3>1. Matchable(j) \in SUBSET (1 .. Len(j.table)) /\ Len(j.table) \in Nat
      BY DEF Matchable, JoinFits
    <3>2. IsFiniteSet(1 .. Len(j.table))
      BY <3>1, FS_Interval
    <3>. QED
      BY <3>1, <3>2, FS_Subset
  <2>3. rs = [ i \in 1 .. n |-> C(i) ] /\ n \in Nat
    BY <2>2, FS_CardinalityType DEF Sorting
  <2>4. \E m \in Nat :
           /\ DOMAIN Sorting(Matchable(j)) = 1 .. m
           /\ \A i \in 1 .. m : Sorting(Matchable(j))[i] \in Matchable(j)
           /\ \A i, k \in 1 .. m : i < k => Sorting(Matchable(j))[i] < Sorting(Matchable(j))[k]
           /\ \A x \in Matchable(j) : \E i \in 1 .. m : Sorting(Matchable(j))[i] = x
    BY <2>2, SortingSorts
  <2>. HIDE DEF C, n
  <2>5. DOMAIN rs = 1 .. n
    BY <2>3
  <2>6. t = [ i \in DOMAIN rs |-> [key |-> groups[rs[i]].key, val |-> groups[rs[i]].val, row |-> rs[i]] ]
    BY <1>2, <2>1 DEF TableOf
  <2>. HIDE DEF t, rs
  <2>7. /\ \A i \in 1 .. n : rs[i] \in Matchable(j)
        /\ \A x \in Matchable(j) : \E i \in 1 .. n : rs[i] = x
    BY <2>4, <2>5 DEF rs
  <2>8. DOMAIN t = 1 .. n /\ Len(t) = n /\ \A i \in 1 .. n : t[i].row = rs[i]
    BY <2>3, <2>5, <2>6
  <2>9. { t[i].row : i \in DOMAIN t } = Matchable(j)
    BY <2>7, <2>8
  <2>. QED
    BY <1>2, <2>8, <2>9 DEF TableIsWhole, t, n
<1>3. CASE ~ Plain(j.build.how)
  <2>. DEFINE D == GroupKeys(j)
              ks == InAnyOrder(D)
              n == Cardinality(D)
              B(i) == IF j.build.how = "aggs" THEN BoundAnswer(j.build, groups[ks[i]]) ELSE 0
              G(i) == GroupAnswer(j, ks[i])
  <2>1. DOMAIN groups = D /\ IsFiniteSet(D)
    BY <1>1, <1>3 DEF GroupsOK, KeysBefore, GroupKeys
  <2>2. t = [ i \in DOMAIN ks |-> [key |-> ks[i], val |-> G(i), row |-> i, bound |-> B(i)] ]
    BY <1>3, <2>1 DEF TableOf
  <2>. HIDE DEF D
  <2>3. ks \in [1 .. n -> D] /\ n \in Nat /\ \A x \in D : \E i \in 1 .. n : ks[i] = x
    BY <2>1, InAnyOrderIsOnto
  <2>. HIDE DEF t, ks, G, B, n
  <2>4. DOMAIN t = 1 .. n /\ Len(t) = n /\ \A i \in 1 .. n : t[i].key = ks[i]
    BY <2>2, <2>3
  <2>5. { t[i].key : i \in DOMAIN t } = D
    BY <2>3, <2>4
  <2>. QED
    BY <1>3, <2>4, <2>5 DEF TableIsWhole, t, n, D
<1>. QED
  BY <1>2, <1>3

-----------------------------------------------------------------------------
(* The tables that are built, and those that are refused.                  *)

\* The tables built so far.
WholeOK == \A k \in 1 .. Len(tables) : TableIsWhole(Joins[k], tables[k]) /\ ScanIsOrderFree(Joins[k])

\* What a build is refused for; and that a table of rows was.
Cause(j) == \/ \E r \in DOMAIN j.table : j.table[r].keep /\ KeyFate(j.cmps, j.table[r].key) = "unreadable"
            \/ \E r \in Matchable(j) : NullRefused(j, j.table[r])
            \/ \E key \in GroupKeys(j) : Unanswerable(j, key)
CauseOK == verdict = "refused" /\ Plain(J.build.how) => Cause(J)

\* Finishing a table adds one that is whole, or refuses one for a cause.
LEMMA FinishKeepsWhole ==
  ASSUME BuildInv, WholeOK, FinishTable
  PROVE  WholeOK' /\ CauseOK'
<1>1. /\ plan' = plan /\ plan \in Plans /\ Joins' = Joins /\ verdict = "building"
      /\ Len(tables) < Len(Joins) /\ tables \in Seq(Range(tables))
      /\ at > Len(J.table) /\ at \in Nat \ {0} /\ GroupsOK(J, groups, at)
  BY DEF FinishTable, Building, BuildInv, Joins
<1>2. Len(Joins) \in Nat /\ Len(tables) \in Nat /\ Len(tables) + 1 \in 1 .. Len(Joins)
  <2>1. Len(tables) \in Nat /\ Len(Joins) \in Nat
    BY <1>1, PlansFit, LenProperties
  <2>. QED
    BY <1>1, <2>1
<1>3. JoinFits(J) /\ BuildFits(J) /\ J = Joins[Len(tables) + 1]
  BY <1>1, <1>2, PlansFit, BuildsFit DEF J
<1>4. GroupsOK(J, groups, Len(J.table) + 1)
  <2>1. Matchable(J) \subseteq 1 .. Len(J.table) /\ Len(J.table) \in Nat
    BY <1>3 DEF Matchable, JoinFits
  <2>2. { r \in Matchable(J) : r < at } = { r \in Matchable(J) : r < Len(J.table) + 1 }
    BY <1>1, <2>1
  <2>. QED
    BY <1>1, <2>2 DEF GroupsOK, KeysBefore
<1>5. J.build.how = "rows" => ScanRead(J)
  <2>1. { r \in Matchable(J) : r < Len(J.table) + 1 } = Matchable(J)
    BY <1>3 DEF Matchable, JoinFits
  <2>. QED
    BY <1>3, <1>4, <2>1 DEF ScanRead, GroupsOK, Plain
<1>6. CASE TableRefused(J)
  <2>1. tables' = tables /\ J' = J
    BY <1>1, <1>6 DEF FinishTable, J
  <2>2. Plain(J.build.how) => J.build.how = "rows" /\ ScanRefused(J)
    BY <1>6 DEF TableRefused, ScanRefused
  <2>3. Plain(J.build.how) => Cause(J)
    BY <1>5, <2>2, ScansAreRefusedForCause DEF Cause
  <2>4. CauseOK'
    <3>1. Cause(J)' <=> Cause(J)
      BY <2>1 DEF Cause
    <3>. QED
      BY <2>1, <2>3, <3>1 DEF CauseOK
  <2>. QED
    BY <1>1, <2>1, <2>4 DEF WholeOK
<1>7. CASE ~ TableRefused(J)
  <2>1. /\ tables' = Append(tables, TableOf(J))
        /\ verdict' = IF Len(tables) + 1 = Len(Joins) THEN "built" ELSE "building"
    BY <1>7 DEF FinishTable
  <2>2. /\ Len(tables') = Len(tables) + 1
        /\ \A k \in 1 .. Len(tables) : tables'[k] = tables[k]
        /\ tables'[Len(tables) + 1] = TableOf(J)
    BY <1>1, <2>1, AppendedSequence
  <2>3. TableIsWhole(J, TableOf(J))
    BY <1>3, <1>4, TablesAreMadeWhole
  <2>4. ScanIsOrderFree(J)
    <3>1. CASE J.build.how = "rows"
      <4>1. ~ ScanRefused(J)
        BY <1>7, <3>1 DEF TableRefused, Plain
      <4>. QED
        BY <1>5, <3>1, <4>1, ScansAreFree
    <3>2. CASE J.build.how # "rows"
      BY <3>2 DEF ScanIsOrderFree
    <3>. QED
      BY <3>1, <3>2
  <2>5. \A k \in 1 .. Len(tables) + 1 : TableIsWhole(Joins[k], tables'[k]) /\ ScanIsOrderFree(Joins[k])
    BY <1>2, <1>3, <2>2, <2>3, <2>4 DEF WholeOK
  <2>. QED
    BY <1>1, <2>1, <2>2, <2>5 DEF WholeOK, CauseOK
<1>. QED
  BY <1>6, <1>7

\* So does every other step.
LEMMA WholeOKKept ==
  ASSUME RowInv, WholeOK, CauseOK, [Next]_vars
  PROVE  WholeOK' /\ CauseOK'
<1>1. BuildInv
  BY DEF RowInv, StaticOK
<1>2. CASE FinishTable
  BY <1>1, <1>2, FinishKeepsWhole
<1>3. CASE ReadRow
  <2>1. plan' = plan /\ tables' = tables /\ Joins' = Joins /\ J' = J
    BY <1>3 DEF ReadRow, J, Joins
  <2>2. WholeOK'
    BY <2>1 DEF WholeOK
  <2>3. ASSUME verdict' = "refused" PROVE Cause(J)
    <3>1. verdict = "building" /\ at <= Len(J.table) /\ SourceRow.keep
          /\ \/ KeyFate(J.cmps, SourceRow.key) = "unreadable"
             \/ KeyFate(J.cmps, SourceRow.key) = "kept" /\ NullRefused(J, SourceRow)
      BY <1>3, <2>3 DEF ReadRow, Building
    <3>2. at \in DOMAIN J.table
      <4>1. Len(tables) < Len(Joins) /\ at \in Nat \ {0} /\ plan \in Plans
        BY <1>1, <1>3 DEF ReadRow, Building, BuildInv
      <4>2. Len(tables) \in Nat /\ Len(Joins) \in Nat
        BY <1>1, <4>1, PlansFit, LenProperties DEF BuildInv
      <4>3. JoinFits(J)
        BY <4>1, <4>2, PlansFit DEF J
      <4>. QED
        BY <3>1, <4>1, <4>3 DEF JoinFits
    <3>. QED
      BY <3>1, <3>2 DEF Cause, SourceRow, Matchable
  <2>4. CauseOK'
    <3>1. Cause(J)' <=> Cause(J)
      BY <2>1 DEF Cause
    <3>. QED
      BY <2>1, <2>3, <3>1 DEF CauseOK
  <2>. QED
    BY <2>2, <2>4
<1>4. CASE UNCHANGED <<plan, tables, verdict>>
  <2>1. Joins' = Joins /\ J' = J
    BY <1>4 DEF J, Joins
  <2>2. Cause(J)' <=> Cause(J)
    BY <2>1 DEF Cause
  <2>. QED
    BY <1>4, <2>1, <2>2 DEF WholeOK, CauseOK
<1>5. FinishTable \/ ReadRow \/ UNCHANGED <<plan, tables, verdict>>
  <2>1. CASE Build
    BY <2>1 DEF Build, BuildNext
  <2>2. CASE Prepare
    BY <2>2 DEF Prepare, buildVars
  <2>3. CASE \/ Serve \/ Entry \/ Header \/ Body \/ After \/ Done
             \/ FoldHeader \/ FoldBody \/ ProbeMap \/ EmitRow \/ DropRow
    BY <2>3 DEF Serve, Entry, Header, HeaderTest, Body, After, Done, Continue, Open, FoldHeader,
                FoldBody, ProbeMap, EmitRow, DropRow, Leave, buildVars
  <2>4. CASE UNCHANGED vars
    BY <2>4 DEF vars
  <2>. QED
    BY <2>1, <2>2, <2>3, <2>4 DEF Next, RowNext
<1>. QED
  BY <1>2, <1>3, <1>4, <1>5

\* Before the first table both hold.
LEMMA WholeStarts ==
  ASSUME Init
  PROVE  WholeOK /\ CauseOK
<1>1. tables = <<>> /\ verdict = "building" /\ Len(tables) = 0
  BY DEF Init, BuildInit
<1>. QED
  BY <1>1 DEF WholeOK, CauseOK

\* Of the table just finished.
LEMMA LastIsWhole ==
  ASSUME RowInv, WholeOK
  PROVE  TablesAreWhole /\ ScansAreOrderFree
<1>1. ASSUME Finished PROVE Len(tables) \in 1 .. Len(tables)
  <2>1. tables \in Seq(Range(tables))
    BY DEF RowInv, StaticOK, BuildInv
  <2>2. Len(tables) \in Nat /\ Len(tables) # 0
    BY <1>1, <2>1, EmptySeq, LenProperties DEF Finished
  <2>. QED
    BY <2>2
<1>. QED
  BY <1>1 DEF WholeOK, TablesAreWhole, ScansAreOrderFree, LastJoin, LastTable

\* A table that is built has every row of its source that some request can match, or
\* one row for every group, and nothing twice: for every table, filter and key of
\* materialize_map and materialize_aggs, however many cells the key has.
THEOREM TablesAreAlwaysWhole == Spec => []TablesAreWhole
<1>1. Init => RowInv /\ WholeOK /\ CauseOK
  BY RowStarts, WholeStarts
<1>2. RowInv /\ WholeOK /\ CauseOK /\ [Next]_vars => (RowInv /\ WholeOK /\ CauseOK)'
  BY RowInvKept, WholeOKKept
<1>3. RowInv /\ WholeOK /\ CauseOK => TablesAreWhole
  BY LastIsWhole
<1>. QED
  BY <1>1, <1>2, <1>3, PTL DEF Spec

\* What scan_limit and scan_ties let through answers the same whatever the order DuckDB
\* reads the table in: every min and max of any of a key's rows, over DISTINCT values or
\* all, is one value, although a value may have two spellings.
THEOREM ScansAreAlwaysOrderFree == Spec => []ScansAreOrderFree
<1>1. Init => RowInv /\ WholeOK /\ CauseOK
  BY RowStarts, WholeStarts
<1>2. RowInv /\ WholeOK /\ CauseOK /\ [Next]_vars => (RowInv /\ WholeOK /\ CauseOK)'
  BY RowInvKept, WholeOKKept
<1>3. RowInv /\ WholeOK /\ CauseOK => ScansAreOrderFree
  BY LastIsWhole
<1>. QED
  BY <1>1, <1>2, <1>3, PTL DEF Spec

\* And what they refuse has a cause: a key that cannot be read, a NULL where the table is
\* declared to hold none, a key of more rows than the limit, or two rows of a key that a min would answer differently in two orders.
THEOREM TablesOfRowsAreRefusedForCause == Spec => [](Plain(J.build.how) => BuildsRefuseForCause)
<1>1. Init => RowInv /\ WholeOK /\ CauseOK
  BY RowStarts, WholeStarts
<1>2. RowInv /\ WholeOK /\ CauseOK /\ [Next]_vars => (RowInv /\ WholeOK /\ CauseOK)'
  BY RowInvKept, WholeOKKept
<1>3. RowInv /\ WholeOK /\ CauseOK => (Plain(J.build.how) => BuildsRefuseForCause)
  BY DEF CauseOK, BuildsRefuseForCause, Cause
<1>. QED
  BY <1>1, <1>2, <1>3, PTL DEF Spec

-----------------------------------------------------------------------------
(* Sums.                                                                   *)

\* What bounds every number bounds the sums of as many: the sums of numbers
\* no larger are no larger.
LEMMA SumsCompare ==
  ASSUME NEW n \in Nat, NEW d \in [1 .. n -> Int], NEW e \in [1 .. n -> Int],
         \A i \in 1 .. n : Magnitude(d[i]) <= e[i],
         NEW s, Sums(n, d, s), NEW t, Sums(n, e, t)
  PROVE  \A i \in 0 .. n : Magnitude(s[i]) <= t[i]
<1>. DEFINE Bad == { i \in 0 .. n : ~ (Magnitude(s[i]) <= t[i]) }
<1>1. SUFFICES ASSUME Bad # {} PROVE FALSE
  OBVIOUS
<1>2. PICK m \in Bad : \A k \in Bad : m <= k
  <2>1. Bad \subseteq Nat
    OBVIOUS
  <2>. HIDE DEF Bad
  <2>. QED
    BY <1>1, <2>1, LeastNatural
<1>3. m # 0
  BY <1>2 DEF Sums, Magnitude
<1>4. m \in 1 .. n /\ m - 1 \in 0 .. n /\ m - 1 \notin Bad
  BY <1>2, <1>3
<1>5. Magnitude(s[m - 1]) <= t[m - 1] /\ Magnitude(d[m]) <= e[m]
  BY <1>4
<1>6. /\ s[m - 1] \in Int /\ t[m - 1] \in Int /\ d[m] \in Int /\ e[m] \in Int
      /\ s[m] = s[m - 1] + d[m] /\ t[m] = t[m - 1] + e[m]
  BY <1>4 DEF Sums
<1>7. Magnitude(s[m - 1] + d[m]) <= t[m - 1] + e[m]
  BY <1>5, <1>6 DEF Magnitude
<1>. QED
  BY <1>2, <1>6, <1>7

-----------------------------------------------------------------------------
(* What an aggregate has read.                                             *)

V(j, r) == j.table[r].val
Known(j, R) == { r \in R : V(j, r) # Null }

\* The rows of R whose values count: the first of each class when DISTINCT.
ReadOf(j, R) == { r \in Known(j, R) : j.build.distinct =>
                    \A q \in Known(j, R) : q < r => Ord(V(j, q)) # Ord(V(j, r)) }

\* Rows of a join's table.
RowsIn(j, R) == /\ R \subseteq 1 .. Len(j.table) /\ Len(j.table) \in Nat
                /\ \A r \in R : V(j, r) \in Int \union {Null}

\* The rows a group has, and those its aggregate reads, are finitely many numbers.
LEMMA FiniteRows ==
  ASSUME NEW j, NEW R, RowsIn(j, R)
  PROVE  /\ IsFiniteSet(R) /\ IsFiniteSet(ReadOf(j, R)) /\ Cardinality(R) \in Nat
         /\ Cardinality(ReadOf(j, R)) \in Nat /\ ReadOf(j, R) \subseteq R /\ R \subseteq Nat
         /\ \A r \in ReadOf(j, R) : V(j, r) \in Int /\ V(j, r) # Null /\ Ord(V(j, r)) \in Int
<1>1. R \in SUBSET (1 .. Len(j.table)) /\ IsFiniteSet(1 .. Len(j.table))
  BY FS_Interval DEF RowsIn
<1>2. ReadOf(j, R) \in SUBSET R
  BY DEF ReadOf, Known
<1>3. IsFiniteSet(R) /\ IsFiniteSet(ReadOf(j, R))
  BY <1>1, <1>2, FS_Subset
<1>4. \A r \in ReadOf(j, R) : V(j, r) \in Int /\ V(j, r) # Null
  BY DEF ReadOf, Known, RowsIn
<1>5. \A r \in ReadOf(j, R) : Ord(V(j, r)) \in Int
  BY <1>4, OrdIsNumber
<1>. QED
  BY <1>1, <1>2, <1>3, <1>4, <1>5, FS_CardinalityType

\* The first of a class counts.
LEMMA ClassesAreRead ==
  ASSUME NEW j, NEW R, RowsIn(j, R), NEW r \in Known(j, R)
  PROVE  \E q \in ReadOf(j, R) : Ord(V(j, q)) = Ord(V(j, r)) /\ q <= r
<1>. DEFINE Same == { q \in Known(j, R) : Ord(V(j, q)) = Ord(V(j, r)) }
<1>0. Known(j, R) \subseteq Nat
  BY FiniteRows DEF Known
<1>1. Same \subseteq Nat /\ r \in Same /\ r \in Nat
  BY <1>0
<1>2. PICK g \in Same : \A q \in Same : g <= q
  <2>. HIDE DEF Same
  <2>. QED
    BY <1>1, LeastNatural
<1>3. \A q \in Known(j, R) : q < g => Ord(V(j, q)) # Ord(V(j, g))
  <2>. SUFFICES ASSUME NEW q \in Known(j, R), q < g, Ord(V(j, q)) = Ord(V(j, g)) PROVE FALSE
    OBVIOUS
  <2>1. q \in Same
    BY <1>2
  <2>2. g <= q /\ g \in Nat /\ q \in Nat
    BY <1>1, <1>2, <2>1
  <2>. QED
    BY <2>2
<1>4. g \in ReadOf(j, R)
  BY <1>2, <1>3 DEF ReadOf
<1>. QED
  BY <1>1, <1>2, <1>4

\* A row past those read is read if its value is known and, when DISTINCT, its
\* class is new.
LEMMA ReadGrows ==
  ASSUME NEW j, NEW R, RowsIn(j, R), NEW r \in Nat, r \notin R, \A q \in R : q < r,
         V(j, r) \in Int \union {Null}
  PROVE  ReadOf(j, R \union {r}) =
           IF \/ V(j, r) = Null
              \/ j.build.distinct /\ Ord(V(j, r)) \in { Ord(V(j, q)) : q \in ReadOf(j, R) }
           THEN ReadOf(j, R) ELSE ReadOf(j, R) \union {r}
<1>. DEFINE S == R \union {r}
<1>0. R \subseteq Nat
  BY FiniteRows
<1>1. CASE V(j, r) = Null
  <2>1. Known(j, S) = Known(j, R)
    BY <1>1 DEF Known
  <2>. QED
    BY <1>1, <2>1 DEF ReadOf
<1>2. CASE V(j, r) # Null
  <2>1. Known(j, S) = Known(j, R) \union {r}
    BY <1>2 DEF Known
  <2>2. \A q \in Known(j, R) : q \in Nat /\ q < r /\ ~ (r < q)
    BY <1>0 DEF Known
  <2>3. CASE ~ j.build.distinct
    BY <1>2, <2>1, <2>3 DEF ReadOf
  <2>4. CASE j.build.distinct
    <3>1. \A q \in Known(j, R) : q \in ReadOf(j, S) <=> q \in ReadOf(j, R)
      BY <2>1, <2>2, <2>4 DEF ReadOf
    <3>2. r \in ReadOf(j, S) <=> \A q \in Known(j, R) : Ord(V(j, q)) # Ord(V(j, r))
      BY <2>1, <2>2, <2>4 DEF ReadOf
    <3>3. (\E q \in Known(j, R) : Ord(V(j, q)) = Ord(V(j, r)))
             <=> Ord(V(j, r)) \in { Ord(V(j, q)) : q \in ReadOf(j, R) }
      <4>1. ReadOf(j, R) \subseteq Known(j, R)
        BY DEF ReadOf
      <4>. QED
        BY <4>1, ClassesAreRead
    <3>4. ReadOf(j, S) \subseteq Known(j, R) \union {r} /\ ReadOf(j, R) \subseteq Known(j, R) /\ r \notin Known(j, R)
      BY <2>1 DEF ReadOf, Known
    <3>. QED
      BY <1>2, <2>4, <3>1, <3>2, <3>3, <3>4
  <2>. QED
    BY <2>3, <2>4
<1>. QED
  BY <1>1, <1>2

-----------------------------------------------------------------------------
(* What an aggregate's state says of the rows it has read.                 *)

Floats == {"fsum", "favg"}
AndFns == {"bool_and", "bit_and"}
OrFns  == {"bool_or", "bit_or"}

\* A join grouped with an aggregate whose answer is exact.
ExactAggs(j) == j.build.how = "aggs" /\ j.build.fn \notin Floats
AggFits(j) == JoinFits(j) /\ BuildFits(j) /\ ExactAggs(j) /\ FitsAggregate(j)

Accs == [n : Nat, cur : Int \union {Null}, tie : BOOLEAN, sum : Int, size : Int, abs : {NoSum},
         seen : SUBSET Int, odd : {FALSE}]

Values(j, A) == [r \in 1 .. Len(j.table) |-> IF r \in A THEN V(j, r) ELSE 0]
Sizes0(j, A) == [r \in 1 .. Len(j.table) |-> IF r \in A THEN Magnitude(V(j, r)) ELSE 0]
OnesOf(j, A) == { r \in A : V(j, r) = 1 }

Counted(j, acc, R) ==
  /\ j.build.fn = "count_star" => acc.n = Cardinality(R)
  /\ j.build.fn \in {"count", "sum", "avg"} => acc.n = Cardinality(ReadOf(j, R))
  /\ j.build.fn # "count_star" /\ j.build.distinct => acc.seen = { Ord(V(j, r)) : r \in ReadOf(j, R) }
Summed(j, acc, A) ==
  j.build.fn \in {"sum", "avg"} => /\ acc.sum = SumOf(Len(j.table), Values(j, A))
                                   /\ acc.size = SumOf(Len(j.table), Sizes0(j, A))
Leading(j, acc, A) ==
  j.build.fn \in {"min", "max"} =>
    /\ acc.cur = Null => A = {} /\ ~ acc.tie
    /\ acc.cur # Null => /\ \E r \in A : V(j, r) = acc.cur
                         /\ \A r \in A : Leads(j.build, acc.cur, V(j, r))
                         /\ acc.tie <=> \E r \in A : Ord(V(j, r)) = Ord(acc.cur) /\ V(j, r) # acc.cur
Bits(j, acc, A) ==
  /\ j.build.fn \in BitFns => (acc.cur = Null <=> A = {})
  /\ j.build.fn \in AndFns /\ A # {} => acc.cur = IF A = OnesOf(j, A) THEN 1 ELSE 0
  /\ j.build.fn \in OrFns /\ A # {} => acc.cur = IF OnesOf(j, A) # {} THEN 1 ELSE 0
  /\ j.build.fn = "bit_xor" /\ A # {} => acc.cur = Cardinality(OnesOf(j, A)) % 2
AccSays(j, acc, R) ==
  /\ acc \in Accs
  /\ Counted(j, acc, R) /\ Summed(j, acc, ReadOf(j, R))
  /\ Leading(j, acc, ReadOf(j, R)) /\ Bits(j, acc, ReadOf(j, R))

\* A new state says that nothing was read.
LEMMA NothingSaid ==
  ASSUME NEW j, AggFits(j)
  PROVE  AccSays(j, NoAcc, {})
<1>1. NoAcc \in Accs /\ NoAcc.n = 0 /\ NoAcc.cur = Null /\ ~ NoAcc.tie /\ NoAcc.sum = 0 /\ NoAcc.size = 0 /\ NoAcc.seen = {}
  BY DEF NoAcc, Accs
<1>2. ReadOf(j, {}) = {} /\ Cardinality({}) = 0
  BY FS_EmptySet DEF ReadOf, Known
<1>. DEFINE n == Len(j.table)
            z == [r \in 1 .. n |-> 0]
            s == [i \in 0 .. n |-> 0]
<1>3. n \in Nat
  BY DEF AggFits, JoinFits
<1>. HIDE DEF n
<1>4. Sums(n, z, s) /\ z \in [1 .. n -> Int] /\ s[n] = 0
  BY <1>3 DEF Sums
<1>. HIDE DEF z, s
<1>5. SumOf(n, z) = 0
  BY <1>3, <1>4, SumIs
<1>6. Values(j, {}) = z /\ Sizes0(j, {}) = z
  BY DEF Values, Sizes0, z, n
<1>7. Counted(j, NoAcc, {}) /\ Summed(j, NoAcc, {})
  BY <1>1, <1>2, <1>5, <1>6 DEF Counted, Summed, n
<1>8. Leading(j, NoAcc, {}) /\ Bits(j, NoAcc, {})
  BY <1>1 DEF Leading, Bits
<1>. QED
  BY <1>1, <1>2, <1>7, <1>8 DEF AccSays

\* What the binder lets an aggregate read, row by row.
LEMMA AggregateReads ==
  ASSUME NEW j, AggFits(j), NEW r \in 1 .. Len(j.table)
  PROVE  /\ V(j, r) \in Int \union {Null} /\ j.build \in Builds /\ Len(j.table) \in Nat
         /\ j.build.fn \in {"min", "max"} \union AndFns \union OrFns => ~ j.build.distinct
         /\ j.build.fn \in {"sum", "avg"} \union BitFns /\ V(j, r) # Null => Ord(V(j, r)) = V(j, r)
         /\ j.build.fn \in BitFns /\ V(j, r) # Null => V(j, r) \in {0, 1}
         /\ j.build.ties => j.build.traps = {}
<1>1. DOMAIN j.table = 1 .. Len(j.table) /\ Len(j.table) \in Nat /\ BuildFits(j) /\ FitsAggregate(j)
  BY DEF AggFits, JoinFits
<1>. DEFINE known == { j.table[q].val : q \in DOMAIN j.table } \ {Null}
<1>2. V(j, r) # Null => V(j, r) \in known
  BY <1>1 DEF V
<1>3. /\ j.build.distinct => j.build.fn \notin {"min", "max", "bool_and", "bool_or", "bit_and", "bit_or"}
      /\ j.build.fn \in {"sum", "avg"} \union BitFns => \A v \in known : Ord(v) = v
      /\ j.build.fn \in BitFns => known \subseteq {0, 1}
      /\ j.build.ties => j.build.traps = {}
  BY <1>1 DEF FitsAggregate
<1>. HIDE DEF known
<1>4. j.build \in Builds /\ V(j, r) \in Int \union {Null}
  BY <1>1 DEF BuildFits, V
<1>. QED
  BY <1>1, <1>2, <1>3, <1>4 DEF AndFns, OrFns

-----------------------------------------------------------------------------
(* The fields of an aggregate's state.                                     *)

Acc(old, n, led, tie, sum, size, seen) ==
  [n |-> n, cur |-> led, tie |-> tie, sum |-> sum, size |-> size, abs |-> old.abs, seen |-> seen, odd |-> old.odd]
Same(acc) == Acc(acc, acc.n, acc.cur, acc.tie, acc.sum, acc.size, acc.seen)

\* The fields of a state with six of them replaced.
LEMMA AccFields ==
  ASSUME NEW old, NEW n, NEW led, NEW tie, NEW sum, NEW size, NEW seen
  PROVE  LET new == Acc(old, n, led, tie, sum, size, seen)
         IN /\ new.n = n /\ new.cur = led /\ new.tie = tie /\ new.sum = sum /\ new.size = size /\ new.seen = seen
            /\ Same(new) = new
<1>1. Acc(old, n, led, tie, sum, size, seen).abs = old.abs /\ Acc(old, n, led, tie, sum, size, seen).odd = old.odd
  BY DEF Acc
<1>2. LET new == Acc(old, n, led, tie, sum, size, seen)
      IN new.n = n /\ new.cur = led /\ new.tie = tie /\ new.sum = sum /\ new.size = size /\ new.seen = seen
  BY DEF Acc
<1>. QED
  BY <1>1, <1>2 DEF Same, Acc

\* It is a state again.
LEMMA AccFits ==
  ASSUME NEW old \in Accs, NEW n \in Nat, NEW led \in Int \union {Null}, NEW tie \in BOOLEAN, NEW sum \in Int,
         NEW size \in Int, NEW seen \in SUBSET Int
  PROVE  Acc(old, n, led, tie, sum, size, seen) \in Accs
BY DEF Acc, Accs

\* A state is the record of its own fields.
LEMMA AccsAreSame ==
  ASSUME NEW acc \in Accs
  PROVE  /\ Same(acc) = acc /\ acc.n \in Nat /\ acc.cur \in Int \union {Null} /\ acc.tie \in BOOLEAN
         /\ acc.sum \in Int /\ acc.size \in Int /\ acc.seen \in SUBSET Int
<1>1. acc = [n |-> acc.n, cur |-> acc.cur, tie |-> acc.tie, sum |-> acc.sum, size |-> acc.size,
             abs |-> acc.abs, seen |-> acc.seen, odd |-> acc.odd]
  BY DEF Accs
<1>2. /\ acc.n \in Nat /\ acc.cur \in Int \union {Null} /\ acc.tie \in BOOLEAN
      /\ acc.sum \in Int /\ acc.size \in Int /\ acc.seen \in SUBSET Int
  BY DEF Accs
<1>. QED
  BY <1>1, <1>2 DEF Same, Acc

\* One field changes.
LEMMA FieldChanges ==
  ASSUME NEW acc, Same(acc) = acc, NEW k
  PROVE  /\ [acc EXCEPT !.n = k] = Acc(acc, k, acc.cur, acc.tie, acc.sum, acc.size, acc.seen)
         /\ [acc EXCEPT !.seen = k] = Acc(acc, acc.n, acc.cur, acc.tie, acc.sum, acc.size, k)
         /\ [acc EXCEPT !.cur = k] = Acc(acc, acc.n, k, acc.tie, acc.sum, acc.size, acc.seen)
         /\ [acc EXCEPT !.tie = k] = Acc(acc, acc.n, acc.cur, k, acc.sum, acc.size, acc.seen)
         /\ [acc EXCEPT !.sum = k] = Acc(acc, acc.n, acc.cur, acc.tie, k, acc.size, acc.seen)
         /\ [acc EXCEPT !.size = k] = Acc(acc, acc.n, acc.cur, acc.tie, acc.sum, k, acc.seen)
<1>2. acc = [n |-> acc.n, cur |-> acc.cur, tie |-> acc.tie, sum |-> acc.sum, size |-> acc.size,
             abs |-> acc.abs, seen |-> acc.seen, odd |-> acc.odd]
  BY DEF Same, Acc
<1>3. [acc EXCEPT !.n = k] = Acc(acc, k, acc.cur, acc.tie, acc.sum, acc.size, acc.seen)
  BY <1>2 DEF Acc
<1>4. [acc EXCEPT !.seen = k] = Acc(acc, acc.n, acc.cur, acc.tie, acc.sum, acc.size, k)
  BY <1>2 DEF Acc
<1>5. [acc EXCEPT !.cur = k] = Acc(acc, acc.n, k, acc.tie, acc.sum, acc.size, acc.seen)
  BY <1>2 DEF Acc
<1>6. [acc EXCEPT !.tie = k] = Acc(acc, acc.n, acc.cur, k, acc.sum, acc.size, acc.seen)
  BY <1>2 DEF Acc
<1>7. [acc EXCEPT !.sum = k] = Acc(acc, acc.n, acc.cur, acc.tie, k, acc.size, acc.seen)
  BY <1>2 DEF Acc
<1>8. [acc EXCEPT !.size = k] = Acc(acc, acc.n, acc.cur, acc.tie, acc.sum, k, acc.seen)
  BY <1>2 DEF Acc
<1>. QED
  BY <1>3, <1>4, <1>5, <1>6, <1>7, <1>8

\* A number is added: to a sum.
Totals(acc, v, m) == [acc EXCEPT !.n = @ + 1, !.sum = @ + v, !.size = @ + m]

\* Counting and adding a value changes three fields.
LEMMA Totalled ==
  ASSUME NEW acc \in Accs, NEW v \in Int, NEW m \in Int
  PROVE  LET new == Totals(acc, v, m) IN
         /\ new \in Accs /\ new.n = acc.n + 1 /\ new.seen = acc.seen
         /\ new.sum = acc.sum + v /\ new.size = acc.size + m
<1>. DEFINE new == Totals(acc, v, m)
            a == [acc EXCEPT !.n = acc.n + 1]
            b == [a EXCEPT !.sum = acc.sum + v]
<1>1. new = [b EXCEPT !.size = acc.size + m]
  BY DEF Totals
<1>2. Same(acc) = acc /\ acc.n \in Nat /\ acc.cur \in Int \union {Null} /\ acc.tie \in BOOLEAN
         /\ acc.sum \in Int /\ acc.size \in Int /\ acc.seen \in SUBSET Int
  BY AccsAreSame
<1>3. a = Acc(acc, acc.n + 1, acc.cur, acc.tie, acc.sum, acc.size, acc.seen)
  BY <1>2, FieldChanges
<1>. HIDE DEF new, a, b
<1>0. acc.n + 1 \in Nat /\ acc.sum + v \in Int /\ acc.size + m \in Int
  BY <1>2
<1>4. /\ Same(a) = a /\ a.n = acc.n + 1 /\ a.cur = acc.cur /\ a.tie = acc.tie /\ a.sum = acc.sum /\ a.size = acc.size
      /\ a.seen = acc.seen /\ a \in Accs
  <2>1. a \in Accs
    BY <1>0, <1>2, <1>3, AccFits
  <2>. QED
    BY <1>3, <2>1, AccFields
<1>5. b = Acc(a, acc.n + 1, acc.cur, acc.tie, acc.sum + v, acc.size, acc.seen)
  <2>1. b = Acc(a, a.n, a.cur, a.tie, acc.sum + v, a.size, a.seen)
    BY <1>4, FieldChanges DEF b
  <2>. QED
    BY <1>4, <2>1
<1>6. /\ Same(b) = b /\ b.n = acc.n + 1 /\ b.cur = acc.cur /\ b.tie = acc.tie /\ b.sum = acc.sum + v
      /\ b.size = acc.size /\ b.seen = acc.seen /\ b \in Accs
  <2>1. b \in Accs
    BY <1>0, <1>2, <1>4, <1>5, AccFits
  <2>. QED
    BY <1>5, <2>1, AccFields
<1>7. new = Acc(b, acc.n + 1, acc.cur, acc.tie, acc.sum + v, acc.size + m, acc.seen)
  <2>1. new = Acc(b, b.n, b.cur, b.tie, b.sum, acc.size + m, b.seen)
    BY <1>1, <1>6, FieldChanges
  <2>. QED
    BY <1>6, <2>1
<1>8. /\ new.n = acc.n + 1 /\ new.sum = acc.sum + v /\ new.size = acc.size + m /\ new.seen = acc.seen
      /\ new \in Accs
  <2>1. new \in Accs
    <3>. DEFINE n == acc.n + 1
                sum == acc.sum + v
                size == acc.size + m
    <3>1. n \in Nat /\ sum \in Int /\ size \in Int /\ new = Acc(b, n, acc.cur, acc.tie, sum, size, acc.seen)
      BY <1>0, <1>7
    <3>. HIDE DEF n, sum, size
    <3>. QED
      BY <1>2, <1>6, <3>1, AccFits
  <2>. QED
    BY <1>7, <2>1, AccFields
<1>. QED
  BY <1>8 DEF new

\* To a count, and without the states it changes.
LEMMA OneMore ==
  ASSUME NEW acc \in Accs
  PROVE  LET new == [acc EXCEPT !.n = @ + 1]
         IN new \in Accs /\ new.n = acc.n + 1 /\ new.seen = acc.seen
<1>2. Same(acc) = acc /\ acc.n \in Nat /\ acc.cur \in Int \union {Null} /\ acc.tie \in BOOLEAN
         /\ acc.sum \in Int /\ acc.size \in Int /\ acc.seen \in SUBSET Int
  BY AccsAreSame
<1>0. acc.n + 1 \in Nat
  BY <1>2
<1>. DEFINE new == [acc EXCEPT !.n = acc.n + 1]
<1>3. new = Acc(acc, acc.n + 1, acc.cur, acc.tie, acc.sum, acc.size, acc.seen)
  BY <1>2, FieldChanges
<1>. HIDE DEF new
<1>4. new \in Accs
  BY <1>0, <1>2, <1>3, AccFits
<1>5. new.n = acc.n + 1 /\ new.cur = acc.cur /\ new.tie = acc.tie /\ new.seen = acc.seen
  BY <1>3, AccFields
<1>. QED
  BY <1>4, <1>5 DEF new

\* A value takes the lead, with its tie or without one.
LEMMA NewLead ==
  ASSUME NEW acc \in Accs, NEW v \in Int
  PROVE  LET new == [acc EXCEPT !.cur = v]
         IN new \in Accs /\ new.cur = v /\ new.tie = acc.tie /\ new.seen = acc.seen
<1>2. Same(acc) = acc /\ acc.n \in Nat /\ acc.cur \in Int \union {Null} /\ acc.tie \in BOOLEAN
         /\ acc.sum \in Int /\ acc.size \in Int /\ acc.seen \in SUBSET Int
  BY AccsAreSame
<1>3. [acc EXCEPT !.cur = v] = Acc(acc, acc.n, v, acc.tie, acc.sum, acc.size, acc.seen)
  BY <1>2, FieldChanges
<1>. QED
  BY <1>2, <1>3, AccFields, AccFits

\* Noting a tie changes one field.
LEMMA NewTie ==
  ASSUME NEW acc \in Accs, NEW t \in BOOLEAN
  PROVE  LET new == [acc EXCEPT !.tie = t]
         IN new \in Accs /\ new.cur = acc.cur /\ new.tie = t /\ new.seen = acc.seen
<1>2. Same(acc) = acc /\ acc.n \in Nat /\ acc.cur \in Int \union {Null} /\ acc.tie \in BOOLEAN
         /\ acc.sum \in Int /\ acc.size \in Int /\ acc.seen \in SUBSET Int
  BY AccsAreSame
<1>. DEFINE new == [acc EXCEPT !.tie = t]
<1>3. new = Acc(acc, acc.n, acc.cur, t, acc.sum, acc.size, acc.seen)
  BY <1>2, FieldChanges
<1>. HIDE DEF new
<1>4. new \in Accs
  BY <1>2, <1>3, AccFits
<1>5. new.n = acc.n /\ new.cur = acc.cur /\ new.tie = t /\ new.seen = acc.seen
  BY <1>3, AccFields
<1>. QED
  BY <1>4, <1>5 DEF new

\* A better value becomes the leader, and no tie is known of it.
LEMMA NewLeader ==
  ASSUME NEW acc \in Accs, NEW v \in Int
  PROVE  LET new == Better(acc, v)
         IN new \in Accs /\ new.cur = v /\ new.tie = FALSE /\ new.seen = acc.seen
<1>. DEFINE a == [acc EXCEPT !.cur = v]
            new == Better(acc, v)
<1>1. new = [a EXCEPT !.tie = FALSE]
  BY DEF Better
<1>2. a \in Accs /\ a.cur = v /\ a.seen = acc.seen
  BY NewLead
<1>. HIDE DEF a, new
<1>3. new \in Accs /\ new.cur = v /\ new.tie = FALSE /\ new.seen = acc.seen
  BY <1>1, <1>2, NewTie
<1>. QED
  BY <1>3 DEF new

\* Writing back what was seen changes nothing.
LEMMA StillSeen ==
  ASSUME NEW acc \in Accs
  PROVE  [acc EXCEPT !.seen = acc.seen] = acc
<1>1. Same(acc) = acc
  BY AccsAreSame
<1>2. [acc EXCEPT !.seen = acc.seen] = Same(acc)
  BY <1>1, FieldChanges DEF Same
<1>. QED
  BY <1>1, <1>2

\* Adding a row's value.
LEMMA ValueAdded ==
  ASSUME NEW j, AggFits(j), NEW R, RowsIn(j, R), NEW r \in 1 .. Len(j.table), r \notin R,
         \A q \in R : q < r, NEW acc, AccSays(j, acc, R)
  PROVE  AccSays(j, Add(j.build, acc, V(j, r)), R \union {r})
<1>. DEFINE b == j.build
            v == V(j, r)
            A == ReadOf(j, R)
            S == R \union {r}
            n == Len(j.table)
            new == Add(b, acc, v)
<1>1. /\ v \in Int \union {Null} /\ b \in Builds /\ n \in Nat /\ r \in Nat
      /\ b.fn \in {"min", "max"} \union AndFns \union OrFns => ~ b.distinct
      /\ b.fn \in {"sum", "avg"} \union BitFns /\ v # Null => Ord(v) = v
      /\ b.fn \in BitFns /\ v # Null => v \in {0, 1}
      /\ b.fn \in Fns \ Floats /\ b.distinct \in BOOLEAN
  BY AggregateReads DEF AggFits, ExactAggs, Builds
<1>2. /\ IsFiniteSet(R) /\ IsFiniteSet(A) /\ A \subseteq R /\ r \notin A
      /\ \A q \in A : V(j, q) \in Int /\ V(j, q) # Null /\ Ord(V(j, q)) \in Int
      /\ Cardinality(R) \in Nat /\ Cardinality(A) \in Nat
  BY FiniteRows
<1>3. ReadOf(j, S) = IF v = Null \/ (b.distinct /\ Ord(v) \in { Ord(V(j, q)) : q \in A })
                     THEN A ELSE A \union {r}
  BY <1>1, ReadGrows
<1>4. Cardinality(S) = Cardinality(R) + 1 /\ Cardinality(A \union {r}) = Cardinality(A) + 1
  BY <1>2, FS_AddElement
<1>5. acc \in Accs /\ Counted(j, acc, R) /\ Summed(j, acc, A) /\ Leading(j, acc, A) /\ Bits(j, acc, A)
  BY DEF AccSays
<1>6. acc = [n |-> acc.n, cur |-> acc.cur, tie |-> acc.tie, sum |-> acc.sum, size |-> acc.size,
             abs |-> acc.abs, seen |-> acc.seen, odd |-> acc.odd]
  BY <1>5 DEF Accs
<1>. HIDE DEF A, S, n, v
<1>. DEFINE skip == v = Null \/ (b.distinct /\ Ord(v) \in { Ord(V(j, q)) : q \in A })
            acc2 == [acc EXCEPT !.seen = IF b.distinct THEN @ \union {Ord(v)} ELSE @]
<1>0. j.build = b /\ new = Add(b, acc, v) /\ ReadOf(j, R) = A /\ S = R \union {r} /\ Len(j.table) = n
      /\ V(j, r) = v /\ (AccSays(j, new, S) => AccSays(j, Add(j.build, acc, V(j, r)), R \union {r}))
  BY DEF A, S, n, v
<1>. HIDE DEF new, b
<1>7. b.fn # "count_star" /\ b.distinct => acc.seen = { Ord(V(j, q)) : q \in A }
  BY <1>0, <1>5 DEF Counted
<1>8. CASE b.fn # "count_star" /\ skip
  <2>1. new = acc
    BY <1>0, <1>7, <1>8 DEF Add
  <2>2. ReadOf(j, S) = A
    BY <1>3, <1>8
  <2>3. Counted(j, new, S) /\ Summed(j, new, A) /\ Leading(j, new, A) /\ Bits(j, new, A)
    BY <1>0, <1>5, <1>8, <2>1, <2>2 DEF Counted
  <2>. QED
    BY <1>0, <1>5, <2>1, <2>2, <2>3 DEF AccSays
<1>. HIDE DEF acc2
<1>9. CASE b.fn = "count_star"
  <2>1. new = [acc EXCEPT !.n = @ + 1]
    BY <1>0, <1>9 DEF Add
  <2>2. new \in Accs /\ new.n = acc.n + 1
    BY <1>5, <2>1, OneMore
  <2>3. Counted(j, new, S) /\ Summed(j, new, ReadOf(j, S))
    BY <1>0, <1>4, <1>5, <1>9, <2>2 DEF Counted, Summed
  <2>4. Leading(j, new, ReadOf(j, S)) /\ Bits(j, new, ReadOf(j, S))
    BY <1>0, <1>9 DEF Leading, Bits, BitFns, AndFns, OrFns
  <2>. QED
    BY <1>0, <2>2, <2>3, <2>4 DEF AccSays
<1>10. CASE b.fn # "count_star" /\ ~ skip
  <2>. DEFINE B == A \union {r}
  <2>1. new = AddValue(b, acc2, v)
    BY <1>0, <1>7, <1>10 DEF Add, acc2
  <2>2. ReadOf(j, S) = B /\ v \in Int /\ v # Null /\ r \notin A /\ B = A \union {r} /\ r \in B
    BY <1>1, <1>2, <1>3, <1>10
  <2>3. acc2 \in Accs /\ Ord(v) \in Int
    BY <1>5, <2>2, OrdIsNumber DEF Accs, acc2
  <2>4. /\ acc2.n = acc.n /\ acc2.cur = acc.cur /\ acc2.tie = acc.tie /\ acc2.sum = acc.sum /\ acc2.size = acc.size
        /\ acc2.seen = IF b.distinct THEN acc.seen \union {Ord(v)} ELSE acc.seen
    BY <1>5 DEF Accs, acc2
  <2>5. b.distinct => acc2.seen = { Ord(V(j, q)) : q \in B }
    BY <1>0, <1>7, <1>10, <2>2, <2>4
  <2>6. /\ b.fn \in {"count", "sum", "avg"} => acc.n = Cardinality(A)
        /\ Cardinality(B) = Cardinality(A) + 1
    BY <1>0, <1>4, <1>5 DEF Counted
  <2>. HIDE DEF B
  <2>7. AccSays(j, new, S) <=> /\ new \in Accs /\ Counted(j, new, S) /\ Summed(j, new, B)
                               /\ Leading(j, new, B) /\ Bits(j, new, B)
    BY <2>2 DEF AccSays
  <2>8. ASSUME new.seen = acc2.seen, b.fn \in {"count", "sum", "avg"} => new.n = acc2.n + 1
        PROVE  Counted(j, new, S)
    BY <1>0, <1>10, <2>2, <2>4, <2>5, <2>6, <2>8 DEF Counted
  <2>9. CASE b.fn = "count"
    <3>1. new = [acc2 EXCEPT !.n = @ + 1]
      BY <2>1, <2>9 DEF AddValue
    <3>2. new \in Accs /\ new.n = acc2.n + 1 /\ new.seen = acc2.seen
      BY <2>3, <3>1, OneMore
    <3>3. Summed(j, new, B) /\ Leading(j, new, B) /\ Bits(j, new, B)
      BY <1>0, <2>9 DEF Summed, Leading, Bits, BitFns, AndFns, OrFns
    <3>. QED
      BY <1>0, <2>7, <2>8, <2>9, <3>2, <3>3
  <2>10. CASE b.fn \in {"sum", "avg"}
    <3>. DEFINE m == Magnitude(v)
    <3>0. m \in Nat /\ acc2.sum \in Int /\ acc2.size \in Int /\ acc2.n \in Nat
      BY <2>2, <2>3 DEF Magnitude, Accs
    <3>1. new = Totals(acc2, v, m)
      BY <2>1, <2>10 DEF AddValue, Totals
    <3>. HIDE DEF m
    <3>2. /\ new \in Accs /\ new.n = acc2.n + 1 /\ new.seen = acc2.seen
          /\ new.sum = acc2.sum + v /\ new.size = acc2.size + m
      <4>1. m \in Int
        BY <3>0
      <4>. QED
        BY <2>2, <2>3, <3>1, <4>1, Totalled
    <3>3. acc.sum = SumOf(n, Values(j, A)) /\ acc.size = SumOf(n, Sizes0(j, A))
      BY <1>0, <1>5, <2>10 DEF Summed
    <3>4. r \in 1 .. n
      BY DEF n
    <3>5. /\ Values(j, A) \in [1 .. n -> Int] /\ Values(j, B) \in [1 .. n -> Int]
          /\ Sizes0(j, A) \in [1 .. n -> Int] /\ Sizes0(j, B) \in [1 .. n -> Int]
          /\ Values(j, B)[r] = Values(j, A)[r] + v /\ Sizes0(j, B)[r] = Sizes0(j, A)[r] + m
          /\ \A q \in 1 .. n : q # r => Values(j, B)[q] = Values(j, A)[q] /\ Sizes0(j, B)[q] = Sizes0(j, A)[q]
      <4>1. \A q \in A : Magnitude(V(j, q)) \in Int
        BY <1>2 DEF Magnitude
      <4>2. \A q \in 1 .. n : q \in B <=> q \in A \/ q = r
        BY <2>2
      <4>3. m = Magnitude(V(j, r))
        BY <1>0 DEF m
      <4>. QED
        BY <1>0, <1>2, <2>2, <3>0, <3>4, <4>1, <4>2, <4>3 DEF Values, Sizes0
    <3>6. SumOf(n, Values(j, B)) = SumOf(n, Values(j, A)) + v /\ SumOf(n, Sizes0(j, B)) = SumOf(n, Sizes0(j, A)) + m
      <4>1. m \in Int /\ n \in Nat /\ v \in Int
        BY <1>1, <2>2, <3>0
      <4>2. SumOf(n, Values(j, B)) = SumOf(n, Values(j, A)) + v
        <5>. DEFINE d == Values(j, A)
                    e == Values(j, B)
        <5>1. d \in [1 .. n -> Int] /\ e \in [1 .. n -> Int] /\ e[r] = d[r] + v /\ \A q \in 1 .. n : q # r => e[q] = d[q]
          BY <3>5
        <5>. HIDE DEF d, e
        <5>2. SumOf(n, e) = SumOf(n, d) + v
          BY <3>4, <4>1, <5>1, SumGrows
        <5>. QED
          BY <5>2 DEF d, e
      <4>3. SumOf(n, Sizes0(j, B)) = SumOf(n, Sizes0(j, A)) + m
        <5>. DEFINE d == Sizes0(j, A)
                    e == Sizes0(j, B)
        <5>1. d \in [1 .. n -> Int] /\ e \in [1 .. n -> Int] /\ e[r] = d[r] + m /\ \A q \in 1 .. n : q # r => e[q] = d[q]
          BY <3>5
        <5>. HIDE DEF d, e
        <5>2. SumOf(n, e) = SumOf(n, d) + m
          BY <3>4, <4>1, <5>1, SumGrows
        <5>. QED
          BY <5>2 DEF d, e
      <4>. QED
        BY <4>2, <4>3
    <3>7. Summed(j, new, B)
      BY <1>0, <2>4, <3>2, <3>3, <3>6 DEF Summed
    <3>8. Leading(j, new, B) /\ Bits(j, new, B)
      BY <1>0, <2>10 DEF Leading, Bits, BitFns, AndFns, OrFns
    <3>. QED
      BY <1>0, <2>7, <2>8, <3>2, <3>7, <3>8
  <2>11. CASE b.fn \in {"min", "max"}
    <3>1. Leading(j, acc, A) /\ ~ b.distinct /\ Ord(v) \in Int /\ acc \in Accs
      BY <1>1, <1>5, <2>3, <2>11
    <3>2. acc2 = acc
      <4>1. acc2 = [acc EXCEPT !.seen = acc.seen]
        BY <3>1 DEF acc2
      <4>. QED
        BY <3>1, <4>1, StillSeen
    <3>3. new = AddExtreme(b, acc, v)
      BY <2>1, <2>11, <3>2 DEF AddValue
    <3>4. AccSays(j, new, S) <=> new \in Accs /\ Leading(j, new, B)
      BY <1>0, <2>7, <2>11, <3>1 DEF Counted, Summed, Bits, BitFns, AndFns, OrFns
    <3>5. /\ acc.cur \in Int \union {Null} /\ acc.tie \in BOOLEAN
          /\ acc.cur \in Int => Ord(acc.cur) \in Int
      BY <3>1, OrdIsNumber, AccsAreSame
    <3>6. /\ acc.cur = Null => A = {} /\ acc.tie = FALSE
          /\ acc.cur # Null => /\ \E q \in A : V(j, q) = acc.cur
                               /\ \A q \in A : Leads(b, acc.cur, V(j, q))
                               /\ acc.tie <=> \E q \in A : Ord(V(j, q)) = Ord(acc.cur) /\ V(j, q) # acc.cur
      BY <1>0, <2>11, <3>1 DEF Leading
    <3>7. ASSUME new.cur # Null => /\ \E q \in B : V(j, q) = new.cur
                                   /\ \A q \in B : Leads(b, new.cur, V(j, q))
                                   /\ new.tie <=> \E q \in B : Ord(V(j, q)) = Ord(new.cur) /\ V(j, q) # new.cur,
                 new.cur # Null, new \in Accs
          PROVE  AccSays(j, new, S)
      BY <1>0, <3>4, <3>7 DEF Leading
    <3>. DEFINE ahead == IF b.fn = "min" THEN Ord(v) < Ord(acc.cur) ELSE Ord(v) > Ord(acc.cur)
    <3>8. CASE acc.cur = Null
      <4>1. new = [acc EXCEPT !.cur = v]
        BY <3>3, <3>8 DEF AddExtreme
      <4>2. new \in Accs /\ new.cur = v /\ new.tie = FALSE
        BY <2>2, <3>1, <3>6, <3>8, <4>1, NewLead
      <4>3. \A q \in B : q = r
        BY <2>2, <3>6, <3>8
      <4>. QED
        BY <1>0, <2>2, <3>1, <3>7, <4>2, <4>3 DEF Leads
    <3>9. CASE acc.cur # Null /\ ahead
      <4>1. new = Better(acc, v)
        BY <3>3, <3>9 DEF AddExtreme
      <4>2. new \in Accs /\ new.cur = v /\ new.tie = FALSE
        BY <2>2, <3>1, <4>1, NewLeader
      <4>3. ASSUME NEW q \in A PROVE Leads(b, v, V(j, q)) /\ Ord(V(j, q)) # Ord(v)
        <5>1. Ord(V(j, q)) \in Int /\ Leads(b, acc.cur, V(j, q)) /\ Ord(acc.cur) \in Int
          BY <1>2, <3>5, <3>6, <3>9
        <5>. QED
          BY <3>1, <3>9, <5>1 DEF Leads
      <4>. QED
        BY <1>0, <2>2, <3>1, <3>7, <4>2, <4>3 DEF Leads
    <3>10. CASE acc.cur # Null /\ ~ ahead
      <4>. DEFINE t == acc.tie \/ (Ord(v) = Ord(acc.cur) /\ v # acc.cur)
      <4>1. new = [acc EXCEPT !.tie = t]
        BY <3>3, <3>10 DEF AddExtreme
      <4>2. t \in BOOLEAN /\ (t <=> acc.tie \/ (Ord(v) = Ord(acc.cur) /\ v # acc.cur))
        BY <3>5
      <4>. HIDE DEF t
      <4>3. new \in Accs /\ new.cur = acc.cur /\ new.tie = t
        BY <3>1, <4>1, <4>2, NewTie
      <4>4. Leads(b, acc.cur, v)
        BY <3>1, <3>5, <3>10 DEF Leads
      <4>. QED
        BY <1>0, <2>2, <3>6, <3>7, <3>10, <4>2, <4>3, <4>4
    <3>. QED
      BY <1>0, <3>8, <3>9, <3>10
  <2>12. CASE b.fn \in BitFns
    <3>1. new = AddBit(b, acc2, v) /\ v \in {0, 1} /\ b.fn \notin {"count_star", "count", "sum", "avg", "min", "max"}
      BY <1>1, <2>1, <2>2, <2>12 DEF AddValue, BitFns
    <3>2. AccSays(j, new, S) <=> new \in Accs /\ Bits(j, new, B) /\ (b.distinct => new.seen = acc2.seen)
      BY <1>0, <2>5, <2>7, <3>1, <2>2 DEF Counted, Summed, Leading
    <3>. DEFINE x == IF acc.cur = Null THEN v
                     ELSE CASE b.fn \in {"bool_and", "bit_and"} -> acc.cur * v
                            [] b.fn \in {"bool_or", "bit_or"} -> IF acc.cur + v > 0 THEN 1 ELSE 0
                            [] b.fn = "bit_xor" -> (acc.cur + v) % 2
    <3>3. new = [acc2 EXCEPT !.cur = x]
      BY <2>4, <3>1 DEF AddBit
    <3>4. 0 # Null /\ 1 # Null
      BY RawAssumption
    <3>5. /\ acc.cur = Null <=> A = {}
          /\ b.fn \in AndFns /\ A # {} => acc.cur = IF A = OnesOf(j, A) THEN 1 ELSE 0
          /\ b.fn \in OrFns /\ A # {} => acc.cur = IF OnesOf(j, A) # {} THEN 1 ELSE 0
          /\ b.fn = "bit_xor" /\ A # {} => acc.cur = Cardinality(OnesOf(j, A)) % 2
      BY <1>0, <1>5, <2>12 DEF Bits
    <3>6. /\ OnesOf(j, B) = IF v = 1 THEN OnesOf(j, A) \union {r} ELSE OnesOf(j, A)
          /\ OnesOf(j, A) \subseteq A /\ r \notin OnesOf(j, A) /\ B # {}
      BY <1>0, <2>2 DEF OnesOf
    <3>7. /\ Cardinality(OnesOf(j, A)) \in Nat
          /\ Cardinality(OnesOf(j, B)) = IF v = 1 THEN Cardinality(OnesOf(j, A)) + 1 ELSE Cardinality(OnesOf(j, A))
      BY <1>2, <3>6, FS_Subset, FS_AddElement, FS_CardinalityType
    <3>8. A = {} => Cardinality(OnesOf(j, A)) = 0
      BY <3>6, FS_EmptySet
    <3>9. x \in {0, 1} /\ Bits(j, [cur |-> x], B)
      <4>1. CASE b.fn \in AndFns
        <5>1. x = IF acc.cur = Null THEN v ELSE acc.cur * v
          BY <4>1 DEF AndFns
        <5>. HIDE DEF x
        <5>2. B = OnesOf(j, B) <=> A = OnesOf(j, A) /\ v = 1
          BY <2>2, <3>6
        <5>3. x = IF B = OnesOf(j, B) THEN 1 ELSE 0
          <6>1. CASE A = {}
            BY <3>1, <3>5, <3>6, <5>1, <5>2, <6>1
          <6>2. CASE A # {}
            BY <3>1, <3>4, <3>5, <4>1, <5>1, <5>2, <6>2
          <6>. QED
            BY <6>1, <6>2
        <5>. QED
          BY <1>0, <3>4, <3>6, <4>1, <5>3 DEF Bits, AndFns, OrFns
      <4>2. CASE b.fn \in OrFns
        <5>1. x = IF acc.cur = Null THEN v ELSE IF acc.cur + v > 0 THEN 1 ELSE 0
          BY <4>2 DEF OrFns
        <5>. HIDE DEF x
        <5>2. OnesOf(j, B) # {} <=> OnesOf(j, A) # {} \/ v = 1
          BY <2>2, <3>6
        <5>3. x = IF OnesOf(j, B) # {} THEN 1 ELSE 0
          <6>1. CASE A = {}
            BY <3>1, <3>5, <3>6, <5>1, <5>2, <6>1
          <6>2. CASE A # {}
            BY <3>1, <3>4, <3>5, <4>2, <5>1, <5>2, <6>2
          <6>. QED
            BY <6>1, <6>2
        <5>. QED
          BY <1>0, <3>4, <3>6, <4>2, <5>3 DEF Bits, AndFns, OrFns
      <4>3. CASE b.fn = "bit_xor"
        <5>1. x = IF acc.cur = Null THEN v ELSE (acc.cur + v) % 2
          BY <4>3
        <5>. HIDE DEF x
        <5>. DEFINE k == Cardinality(OnesOf(j, A))
                    l == Cardinality(OnesOf(j, B))
        <5>2. k \in Nat /\ (l = IF v = 1 THEN k + 1 ELSE k) /\ (A = {} => k = 0) /\ (A # {} => acc.cur = k % 2)
          BY <3>5, <3>7, <3>8, <4>3
        <5>. HIDE DEF k, l
        <5>3. x = l % 2
          <6>1. CASE A = {}
            BY <3>1, <3>5, <5>1, <5>2, <6>1
          <6>2. CASE A # {} /\ v = 0
            BY <3>4, <3>5, <5>1, <5>2, <6>2
          <6>3. CASE A # {} /\ v = 1
            BY <3>4, <3>5, <5>1, <5>2, <6>3
          <6>. QED
            BY <3>1, <6>1, <6>2, <6>3
        <5>4. l % 2 \in {0, 1}
          BY <5>2
        <5>. QED
          BY <1>0, <3>4, <3>6, <4>3, <5>3, <5>4 DEF Bits, AndFns, OrFns, l
      <4>. QED
        BY <2>12, <4>1, <4>2, <4>3 DEF BitFns, AndFns, OrFns
    <3>. HIDE DEF x
    <3>10. new \in Accs /\ new.cur = x /\ new.seen = acc2.seen
      BY <2>3, <3>3, <3>9, NewLead
    <3>11. Bits(j, new, B)
      BY <3>9, <3>10 DEF Bits
    <3>. QED
      BY <1>0, <3>2, <3>10, <3>11
  <2>13. b.fn \in {"count", "sum", "avg", "min", "max"} \union BitFns
    BY <1>1, <1>10 DEF Fns, Floats, BitFns
  <2>. QED
    BY <2>9, <2>10, <2>11, <2>12, <2>13
<1>. QED
  BY <1>0, <1>8, <1>9, <1>10

-----------------------------------------------------------------------------
(* What the groups of a table half built say.                              *)

ReadBefore(j, key, n) == { r \in RowsOf(j, key) : r < n }
GroupsSay(j, gs, n) == AggFits(j) => \A key \in DOMAIN gs : AccSays(j, gs[key], ReadBefore(j, key, n))

\* The rows of a key already read are rows of the table.
LEMMA RowsBefore ==
  ASSUME NEW j, AggFits(j), NEW key, NEW n
  PROVE  /\ RowsIn(j, ReadBefore(j, key, n)) /\ RowsIn(j, RowsOf(j, key)) /\ RowsOf(j, key) \subseteq 1 .. Len(j.table)
         /\ ReadBefore(j, key, n) \subseteq RowsOf(j, key)
<1>1. JoinFits(j) /\ BuildFits(j) /\ DOMAIN j.table = 1 .. Len(j.table) /\ Len(j.table) \in Nat
  BY DEF AggFits, JoinFits
<1>2. RowsOf(j, key) \subseteq 1 .. Len(j.table)
  BY <1>1, RowsOfAKey
<1>. QED
  BY <1>1, <1>2 DEF RowsIn, ReadBefore, BuildFits, V

\* A row that joins its group is read by it, and by no other.
LEMMA ReadBeforeAdds ==
  ASSUME NEW j, JoinFits(j), NEW r \in Matchable(j), NEW q
  PROVE  LET key == CanonKey(j.table[r].key)
         IN /\ r \notin ReadBefore(j, q, r) /\ \A i \in ReadBefore(j, q, r) : i < r
            /\ ReadBefore(j, q, r + 1) = IF q = key THEN ReadBefore(j, q, r) \union {r}
                                         ELSE ReadBefore(j, q, r)
<1>. DEFINE key == CanonKey(j.table[r].key)
<1>1. r \in Nat /\ Matchable(j) \subseteq Nat
  BY DEF Matchable, JoinFits
<1>2. RowsOf(j, q) \subseteq Nat /\ (r \in RowsOf(j, q) <=> q = key)
  BY <1>1 DEF RowsOf
<1>3. \A i \in RowsOf(j, q) : i < r + 1 <=> i < r \/ i = r
  BY <1>1, <1>2
<1>. HIDE DEF key
<1>4. r \notin ReadBefore(j, q, r) /\ \A i \in ReadBefore(j, q, r) : i < r
  BY <1>1 DEF ReadBefore
<1>5. ReadBefore(j, q, r + 1) = IF q = key THEN ReadBefore(j, q, r) \union {r} ELSE ReadBefore(j, q, r)
  BY <1>1, <1>2, <1>3 DEF ReadBefore
<1>. QED
  BY <1>4, <1>5 DEF key

\* One that the filter or its key drops is read by none.
LEMMA ReadBeforeKeeps ==
  ASSUME NEW j, JoinFits(j), NEW r \in DOMAIN j.table, r \notin Matchable(j), NEW q
  PROVE  ReadBefore(j, q, r + 1) = ReadBefore(j, q, r)
<1>1. r \in Nat /\ RowsOf(j, q) \subseteq Nat /\ r \notin RowsOf(j, q)
  BY DEF Matchable, JoinFits, RowsOf
<1>2. \A i \in RowsOf(j, q) : i < r + 1 <=> i < r
  BY <1>1
<1>. QED
  BY <1>2 DEF ReadBefore

\* A row that joins a group is one more row its state says was read.
LEMMA JoiningSays ==
  ASSUME NEW j, JoinFits(j), NEW r \in DOMAIN j.table, GroupsOK(j, groups, r), GroupsSay(j, groups, r),
         j.table[r].keep, KeyFate(j.cmps, j.table[r].key) = "kept"
  PROVE  GroupsSay(j, Joining(j, j.table[r], r), r + 1)
<1>. SUFFICES ASSUME AggFits(j),
                     NEW k \in DOMAIN Joining(j, j.table[r], r)
              PROVE  AccSays(j, Joining(j, j.table[r], r)[k], ReadBefore(j, k, r + 1))
  BY DEF GroupsSay
<1>. DEFINE key == CanonKey(j.table[r].key)
            g == IF key \in DOMAIN groups THEN groups[key] ELSE NoAcc
<1>1. r \in Nat /\ r \in 1 .. Len(j.table) /\ Matchable(j) \subseteq Nat /\ r \in Matchable(j) /\ r \in RowsOf(j, key)
  BY DEF Matchable, JoinFits, RowsOf
<1>2. j.build.how = "aggs" /\ ~ Plain(j.build.how) /\ V(j, r) = j.table[r].val
  BY DEF AggFits, ExactAggs, Plain, V
<1>3. Joining(j, j.table[r], r) = [ q \in DOMAIN groups \union {key} |-> IF q = key THEN Add(j.build, g, V(j, r)) ELSE groups[q] ]
  BY <1>2 DEF Joining, Fresh
<1>4. \A q : ReadBefore(j, q, r + 1) = IF q = key THEN ReadBefore(j, q, r) \union {r} ELSE ReadBefore(j, q, r)
  BY <1>1, ReadBeforeAdds
<1>5. DOMAIN groups = KeysBefore(j, r) /\ \A q \in DOMAIN groups : AccSays(j, groups[q], ReadBefore(j, q, r))
  BY <1>2 DEF GroupsOK, GroupsSay
<1>6. AccSays(j, g, ReadBefore(j, key, r))
  <2>1. CASE key \in DOMAIN groups
    BY <1>5, <2>1
  <2>2. CASE key \notin DOMAIN groups
    <3>1. ReadBefore(j, key, r) = {}
      BY <1>5, <2>2 DEF KeysBefore, ReadBefore, RowsOf
    <3>. QED
      BY <2>2, <3>1, NothingSaid
  <2>. QED
    BY <2>1, <2>2
<1>. HIDE DEF g
<1>7. CASE k = key
  <2>1. r \notin ReadBefore(j, key, r) /\ \A q \in ReadBefore(j, key, r) : q < r
    BY <1>1 DEF ReadBefore
  <2>2. RowsIn(j, ReadBefore(j, key, r))
    BY RowsBefore
  <2>. HIDE DEF key
  <2>3. AccSays(j, Add(j.build, g, V(j, r)), ReadBefore(j, key, r) \union {r})
    BY <1>1, <1>6, <2>1, <2>2, ValueAdded
  <2>. QED
    BY <1>3, <1>4, <1>7, <2>3
<1>8. CASE k # key
  <2>. HIDE DEF key
  <2>. QED
    BY <1>3, <1>4, <1>5, <1>8
<1>. QED
  BY <1>7, <1>8

\* A row that joins none changes what no state says.
LEMMA DroppingSays ==
  ASSUME NEW j, JoinFits(j), NEW r \in DOMAIN j.table, GroupsSay(j, groups, r),
         ~ j.table[r].keep \/ KeyFate(j.cmps, j.table[r].key) # "kept"
  PROVE  GroupsSay(j, groups, r + 1)
<1>1. r \notin Matchable(j)
  BY DEF Matchable
<1>2. ASSUME NEW q PROVE ReadBefore(j, q, r + 1) = ReadBefore(j, q, r)
  BY <1>1, ReadBeforeKeeps
<1>. QED
  BY <1>2 DEF GroupsSay

\* The groups of a table not begun say that nothing was read.
LEMMA StartedSays ==
  ASSUME NEW j, JoinFits(j)
  PROVE  GroupsSay(j, Started(j), 1)
<1>. SUFFICES ASSUME AggFits(j), NEW key \in DOMAIN Started(j)
              PROVE  AccSays(j, Started(j)[key], ReadBefore(j, key, 1))
  BY DEF GroupsSay
<1>1. j.build.how = "aggs"
  BY DEF AggFits, ExactAggs
<1>2. Started(j)[key] = NoAcc
  BY <1>1 DEF Started, Fresh
<1>3. RowsOf(j, key) \subseteq Nat \ {0}
  BY RowsOfAKey
<1>4. ReadBefore(j, key, 1) = {}
  BY <1>3 DEF ReadBefore
<1>. QED
  BY <1>2, <1>4, NothingSaid

-----------------------------------------------------------------------------
(* What DuckDB reads, in the order it has the rows in.                     *)

\* The rows of an order, each once.
LEMMA OrdersNumber ==
  ASSUME NEW j, NEW R, IsFiniteSet(R), NEW rows \in Orders(j, R)
  PROVE  \E f : /\ Numbered(Cardinality(R), f, R) /\ DOMAIN rows = 1 .. Cardinality(R) /\ Len(rows) = Cardinality(R)
                /\ \A i \in 1 .. Cardinality(R) : rows[i] = j.table[f[i]]
<1>. DEFINE n == Cardinality(R)
<1>1. n \in Nat /\ IsFiniteSet(1 .. n) /\ Cardinality(1 .. n) = n
  BY FS_CardinalityType, FS_Interval
<1>2. PICK f \in [1 .. n -> R] : /\ rows = [ i \in 1 .. n |-> j.table[f[i]] ]
                                 /\ \A r \in R : \E i \in 1 .. n : f[i] = r
  BY OrdersOf
<1>3. f \in Surjection(1 .. n, R)
  BY <1>2 DEF Surjection
<1>4. f \in Injection(1 .. n, R)
  BY <1>1, <1>3, FS_Surjection
<1>. HIDE DEF n
<1>5. Numbered(n, f, R)
  BY <1>1, <1>2, <1>4 DEF Numbered, Injection, IsInjective
<1>6. DOMAIN rows = 1 .. n /\ Len(rows) = n /\ \A i \in 1 .. n : rows[i] = j.table[f[i]]
  BY <1>1, <1>2
<1>. QED
  BY <1>5, <1>6 DEF n

\* The values read are those of the rows read in table order, up to the spelling
\* of a class when DISTINCT, in an order of theirs.
LEMMA ReadInOrder ==
  ASSUME NEW j, j.build.distinct \in BOOLEAN, NEW R, RowsIn(j, R), NEW rows \in Orders(j, R)
  PROVE  \E m, g : /\ Numbered(m, g, ReadOf(j, R))
                   /\ ValuesRead(j.build, rows) \in [1 .. m -> Int]
                   /\ \A i \in 1 .. m :
                        /\ Ord(ValuesRead(j.build, rows)[i]) = Ord(V(j, g[i]))
                        /\ ~ j.build.distinct => ValuesRead(j.build, rows)[i] = V(j, g[i])
                        /\ \E r \in R : ValuesRead(j.build, rows)[i] = V(j, r) /\ V(j, r) # Null
<1>. DEFINE n == Cardinality(R)
<1>0. IsFiniteSet(R) /\ n \in Nat /\ (\A r \in ReadOf(j, R) : V(j, r) \in Int) /\ ReadOf(j, R) \subseteq R
      /\ R \subseteq Nat
  BY FiniteRows
<1>1. PICK f : /\ Numbered(n, f, R) /\ DOMAIN rows = 1 .. n
               /\ \A i \in 1 .. n : rows[i] = j.table[f[i]]
  BY <1>0, OrdersNumber
<1>. HIDE DEF n
<1>. DEFINE W(i) == V(j, f[i])
            known == { i \in 1 .. n : W(i) # Null }
            T == { i \in known : j.build.distinct => \A h \in known : h < i => Ord(W(h)) # Ord(W(i)) }
            ix == Sorting(T)
            vs == [i \in DOMAIN ix |-> W(ix[i])]
<1>2. f \in [1 .. n -> R] /\ (\A a, b \in 1 .. n : f[a] = f[b] => a = b) /\ \A r \in R : \E i \in 1 .. n : f[i] = r
  BY <1>1 DEF Numbered
<1>3. T \subseteq 1 .. n /\ T \subseteq Nat /\ IsFiniteSet(T) /\ T \subseteq known
  <2>1. T \in SUBSET (1 .. n) /\ IsFiniteSet(1 .. n)
    BY <1>0, FS_Interval
  <2>2. IsFiniteSet(T)
    <3>. HIDE DEF T
    <3>. QED
      BY <2>1, FS_Subset
  <2>. QED
    BY <2>1, <2>2
<1>4. \A i \in 1 .. n : W(i) \in Int \union {Null} /\ (W(i) # Null => Ord(W(i)) \in Int)
  BY <1>2, OrdIsNumber DEF RowsIn
<1>5. ASSUME NEW i \in known PROVE \E t \in T : Ord(W(t)) = Ord(W(i)) /\ t <= i
  <2>. DEFINE Mates0 == { q \in known : Ord(W(q)) = Ord(W(i)) }
  <2>1. Mates0 \subseteq Nat /\ i \in Mates0
    BY <1>0, <1>5
  <2>. HIDE DEF Mates0
  <2>2. PICK q \in Mates0 : \A p \in Mates0 : q <= p
    BY <2>1, LeastNatural
  <2>. USE DEF Mates0
  <2>3. q \in known /\ Ord(W(q)) = Ord(W(i)) /\ q <= i
    BY <2>1, <2>2
  <2>4. \A h \in known : h < q => Ord(W(h)) # Ord(W(q))
    <3>. SUFFICES ASSUME NEW h \in known, h < q, Ord(W(h)) = Ord(W(q)) PROVE FALSE
      OBVIOUS
    <3>1. h \in Mates0
      BY <2>3
    <3>2. q <= h /\ h \in Nat /\ q \in Nat
      BY <2>1, <2>2, <3>1
    <3>. QED
      BY <3>2
  <2>. QED
    BY <2>3, <2>4
<1>6. \A q, p \in T : j.build.distinct /\ Ord(W(q)) = Ord(W(p)) => q = p
  <2>. SUFFICES ASSUME NEW q \in T, NEW p \in T, j.build.distinct, Ord(W(q)) = Ord(W(p)) PROVE q = p
    OBVIOUS
  <2>1. ~ (q < p) /\ ~ (p < q) /\ q \in Nat /\ p \in Nat
    BY <1>3
  <2>. QED
    BY <2>1
<1>7. ~ j.build.distinct => T = known
  OBVIOUS
<1>8. ValuesRead(j.build, rows) = vs
  <2>1. \A i \in 1 .. n : rows[i].val = W(i)
    BY <1>1 DEF V
  <2>2. { i \in DOMAIN rows : rows[i].val # Null } = known
    BY <1>1, <2>1
  <2>3. { i \in known : j.build.distinct => \A h \in known : h < i => Ord(rows[h].val) # Ord(rows[i].val) } = T
    BY <2>1
  <2>4. ValuesRead(j.build, rows) = [i \in DOMAIN ix |-> rows[ix[i]].val]
    BY <2>2, <2>3 DEF ValuesRead
  <2>5. \A i \in DOMAIN ix : ix[i] \in 1 .. n
    <3>. HIDE DEF T
    <3>1. \E m \in Nat : DOMAIN ix = 1 .. m /\ \A i \in 1 .. m : ix[i] \in T
      BY <1>3, SortingSorts
    <3>. QED
      BY <1>3, <3>1
  <2>. HIDE DEF ix
  <2>. QED
    BY <2>1, <2>4, <2>5
<1>9. PICK m \in Nat : /\ DOMAIN ix = 1 .. m
                       /\ \A i \in 1 .. m : ix[i] \in T
                       /\ \A i, k \in 1 .. m : i < k => ix[i] < ix[k]
                       /\ \A x \in T : \E i \in 1 .. m : ix[i] = x
  <2>. HIDE DEF T
  <2>. QED
    BY <1>3, SortingSorts
<1>. HIDE DEF T, ix
<1>10. \A a, b \in 1 .. m : ix[a] = ix[b] => a = b
  <2>1. \A a \in 1 .. m : ix[a] \in Nat
    BY <1>3, <1>9
  <2>. QED
    BY <1>9, <2>1
<1>11. \A i \in 1 .. m : vs[i] = W(ix[i]) /\ ix[i] \in known /\ f[ix[i]] \in R /\ W(ix[i]) # Null /\ ix[i] \in 1 .. n
  BY <1>2, <1>3, <1>9
<1>12. DOMAIN vs = 1 .. m
  BY <1>9
<1>. HIDE DEF vs
<1>13. vs \in [1 .. m -> Int]
  <2>1. vs = [i \in 1 .. m |-> vs[i]]
    BY <1>9 DEF vs
  <2>2. \A i \in 1 .. m : vs[i] \in Int
    BY <1>4, <1>11
  <2>. QED
    BY <2>1, <2>2
<1>14. \A i \in 1 .. m : \E r \in R : vs[i] = V(j, r) /\ V(j, r) # Null
  BY <1>11
<1>15. SUFFICES \E g : /\ Numbered(m, g, ReadOf(j, R))
                       /\ \A i \in 1 .. m : /\ Ord(vs[i]) = Ord(V(j, g[i]))
                                            /\ ~ j.build.distinct => vs[i] = V(j, g[i])
  BY <1>8, <1>13, <1>14
<1>16. CASE ~ j.build.distinct
  <2>. DEFINE g == [i \in 1 .. m |-> f[ix[i]]]
  <2>1. ReadOf(j, R) = Known(j, R)
    BY <1>16 DEF ReadOf
  <2>2. g \in [1 .. m -> ReadOf(j, R)]
    BY <1>11, <2>1 DEF Known
  <2>3. \A a, b \in 1 .. m : g[a] = g[b] => a = b
    BY <1>2, <1>10, <1>11
  <2>4. ASSUME NEW r \in ReadOf(j, R) PROVE \E i \in 1 .. m : g[i] = r
    <3>1. PICK h \in 1 .. n : f[h] = r
      BY <1>2, <2>1 DEF Known
    <3>2. h \in known
      BY <2>1, <3>1 DEF Known
    <3>3. PICK i \in 1 .. m : ix[i] = h
      BY <1>7, <1>9, <1>16, <3>2
    <3>. QED
      BY <3>1, <3>3
  <2>5. \A i \in 1 .. m : vs[i] = V(j, g[i])
    BY <1>11
  <2>. HIDE DEF g
  <2>. QED
    BY <2>2, <2>3, <2>4, <2>5 DEF Numbered
<1>17. CASE j.build.distinct
  <2>. DEFINE Rep(i) == CHOOSE q \in ReadOf(j, R) : Ord(V(j, q)) = Ord(vs[i])
              g == [i \in 1 .. m |-> Rep(i)]
  <2>1. ASSUME NEW i \in 1 .. m PROVE \E q \in ReadOf(j, R) : Ord(V(j, q)) = Ord(vs[i])
    <3>1. f[ix[i]] \in Known(j, R) /\ vs[i] = V(j, f[ix[i]])
      BY <1>11 DEF Known
    <3>. QED
      BY <3>1, ClassesAreRead
  <2>2. \A i \in 1 .. m : Rep(i) \in ReadOf(j, R) /\ Ord(V(j, Rep(i))) = Ord(vs[i])
    <3>. TAKE i \in 1 .. m
    <3>. QED
      BY <2>1
  <2>3. g \in [1 .. m -> ReadOf(j, R)] /\ \A i \in 1 .. m : Ord(V(j, g[i])) = Ord(vs[i])
    <3>. HIDE DEF Rep
    <3>. QED
      BY <2>2
  <2>. HIDE DEF g, Rep
  <2>4. \A a, b \in 1 .. m : g[a] = g[b] => a = b
    BY <1>6, <1>9, <1>10, <1>11, <1>17, <2>3
  <2>5. ASSUME NEW r \in ReadOf(j, R) PROVE \E i \in 1 .. m : g[i] = r
    <3>1. r \in R /\ V(j, r) # Null
      BY DEF ReadOf, Known
    <3>2. PICK h \in 1 .. n : f[h] = r
      BY <1>2, <3>1
    <3>3. PICK t \in T : Ord(W(t)) = Ord(W(h))
      BY <1>5, <3>1, <3>2
    <3>4. PICK i \in 1 .. m : ix[i] = t
      BY <1>9
    <3>5. Ord(V(j, g[i])) = Ord(V(j, r)) /\ g[i] \in ReadOf(j, R)
      BY <1>11, <2>3, <3>2, <3>3, <3>4
    <3>6. g[i] \in Known(j, R) /\ r \in Known(j, R) /\ g[i] \in Nat /\ r \in Nat
      BY <1>0, <3>5 DEF ReadOf
    <3>7. ~ (g[i] < r) /\ ~ (r < g[i])
      BY <1>17, <3>5, <3>6 DEF ReadOf
    <3>. QED
      BY <3>6, <3>7
  <2>. QED
    BY <1>17, <2>3, <2>4, <2>5 DEF Numbered
<1>. QED
  BY <1>16, <1>17

-----------------------------------------------------------------------------
(* Running sums, in any order.                                             *)

\* The running sums of a sequence, as Running computes them.
LEMMA RunningSums ==
  ASSUME NEW m \in Nat, NEW vs \in [1 .. m -> Int]
  PROVE  Sums(m, vs, Running(vs, FALSE))
<1>. DEFINE S == CHOOSE f : f = [i \in 0 .. m |-> IF i = 0 THEN 0 ELSE f[i - 1] + vs[i]]
<1>1. Len(vs) = m
  OBVIOUS
<1>2. Running(vs, FALSE) = S
  BY <1>1 DEF Running
<1>3. PICK s : Sums(m, vs, s)
  BY SumsExist
<1>4. s = [i \in 0 .. m |-> IF i = 0 THEN 0 ELSE s[i - 1] + vs[i]]
  BY <1>3 DEF Sums
<1>5. S = [i \in 0 .. m |-> IF i = 0 THEN 0 ELSE S[i - 1] + vs[i]]
  BY <1>4
<1>. HIDE DEF S
<1>. DEFINE Bad == { i \in 0 .. m : S[i] # s[i] }
<1>6. Bad = {}
  <2>. SUFFICES ASSUME Bad # {} PROVE FALSE
    OBVIOUS
  <2>1. PICK k \in Bad : \A b \in Bad : k <= b
    <3>1. Bad \subseteq Nat
      OBVIOUS
    <3>. HIDE DEF Bad
    <3>. QED
      BY <3>1, LeastNatural
  <2>2. k # 0
    BY <1>3, <1>5, <2>1 DEF Sums
  <2>3. k \in 1 .. m /\ k - 1 \in 0 .. m /\ k - 1 \notin Bad
    BY <2>1, <2>2
  <2>4. S[k - 1] = s[k - 1] /\ S[k] = S[k - 1] + vs[k] /\ s[k] = s[k - 1] + vs[k]
    BY <1>3, <1>5, <2>3 DEF Sums
  <2>. QED
    BY <2>1, <2>4
<1>7. \A i \in 0 .. m : S[i] = s[i]
  BY <1>6
<1>8. S = s
  BY <1>3, <1>5, <1>7 DEF Sums
<1>. QED
  BY <1>2, <1>3, <1>8

-----------------------------------------------------------------------------
(* An exact aggregate is what DuckDB answers.                              *)

\* A power of two: the subsets of so many elements.
LEMMA PowersOfTwo ==
  ASSUME NEW e \in Nat
  PROVE  2 ^ e \in Nat \ {0}
<1>. DEFINE S == 1 .. e
<1>1. IsFiniteSet(S) /\ Cardinality(S) = e
  BY FS_Interval
<1>. HIDE DEF S
<1>2. IsFiniteSet(SUBSET S) /\ Cardinality(SUBSET S) = 2 ^ Cardinality(S)
  BY <1>1, FS_SUBSET
<1>3. SUBSET S # {}
  OBVIOUS
<1>. DEFINE P == SUBSET S
<1>4. IsFiniteSet(P) /\ P # {} /\ Cardinality(P) = 2 ^ e
  BY <1>1, <1>2, <1>3
<1>. HIDE DEF P
<1>5. Cardinality(P) \in Nat /\ Cardinality(P) # 0
  BY <1>4, FS_CardinalityType, FS_EmptySet
<1>. QED
  BY <1>4, <1>5

\* A rounded quotient is a number.
LEMMA RoundedIsNumber ==
  ASSUME NEW a \in Int, NEW b \in Nat \ {0}
  PROVE  Rounded(a, b) \in Int
<1>. DEFINE m == Magnitude(a)
            Fits(e) == m < b * 2 ^ (e + Precision)
            es == { e \in 0 .. MaxExp : Fits(e) }
            e == CHOOSE e \in es : \A f \in es : e <= f
            unit == b * 2 ^ e
            down == m \div unit
            up == \/ 2 * (m % unit) > unit
                  \/ 2 * (m % unit) = unit /\ down % 2 = 1
            r == (IF up THEN down + 1 ELSE down) * 2 ^ e
            big == es = {} \/ r > MaxFloat
<1>1. Rounded(a, b) = IF a < 0 THEN -(IF big THEN Infinite ELSE r) ELSE IF big THEN Infinite ELSE r
  BY DEF Rounded
<1>2. Infinite \in Int
  <2>1. 2 ^ Precision \in Int /\ 2 ^ MaxExp \in Int
    BY FormatAssumption
  <2>. DEFINE p == 2 ^ Precision
              q == 2 ^ MaxExp
  <2>2. p \in Int /\ q \in Int /\ MaxFloat = (p - 1) * q
    BY <2>1 DEF MaxFloat
  <2>. HIDE DEF p, q
  <2>3. MaxFloat \in Int
    BY <2>2
  <2>. QED
    BY <2>3 DEF Infinite
<1>3. ASSUME es # {} PROVE r \in Int
  <2>1. es \subseteq Nat
    BY FormatAssumption
  <2>2. e \in es
    <3>. HIDE DEF es
    <3>1. \E x \in es : \A f \in es : x <= f
      BY <1>3, <2>1, LeastNatural
    <3>. QED
      BY <3>1
  <2>3. e \in Nat
    BY <2>1, <2>2
  <2>. HIDE DEF e
  <2>. DEFINE p == 2 ^ e
  <2>4. p \in Nat \ {0}
    BY <2>3, PowersOfTwo
  <2>5. m \in Int /\ unit = b * p
    BY DEF Magnitude
  <2>. HIDE DEF p, m
  <2>6. unit \in Nat \ {0}
    BY <2>4, <2>5
  <2>. HIDE DEF unit
  <2>7. down \in Int
    BY <2>5, <2>6
  <2>. HIDE DEF down, up
  <2>. QED
    BY <2>4, <2>7 DEF p
<1>. HIDE DEF r, es
<1>. QED
  BY <1>1, <1>2, <1>3

\* A numbering counts the members of a part as often as there are.
LEMMA CountedAlike ==
  ASSUME NEW m, NEW g, NEW A, Numbered(m, g, A), NEW B, B \subseteq A
  PROVE  Cardinality({ i \in 1 .. m : g[i] \in B }) = Cardinality(B)
BY PlacesOf

\* A sum that is not refused is in range all along, in every order.
LEMMA SumsAgree ==
  ASSUME NEW j, AggFits(j), NEW A, A \subseteq 1 .. Len(j.table), \A r \in A : V(j, r) \in Int,
         NEW m \in Nat \ {0}, NEW g, Numbered(m, g, A),
         NEW vs \in [1 .. m -> Int], \A i \in 1 .. m : vs[i] = V(j, g[i]),
         j.build.fn \in {"sum", "avg"},
         SumOf(Len(j.table), Sizes0(j, A)) <= (IF j.build.fn = "avg" THEN MaxAvg ELSE MaxSum)
  PROVE  /\ SumOf(Len(j.table), Values(j, A)) \in Int
         /\ DuckSum(j.build, vs) = IF j.build.fn = "avg" THEN Rounded(SumOf(Len(j.table), Values(j, A)), m)
                                   ELSE SumOf(Len(j.table), Values(j, A))
<1>. DEFINE n == Len(j.table)
            D == Values(j, A)
            Z == Sizes0(j, A)
            e == [i \in 1 .. m |-> Magnitude(vs[i])]
            s == Running(vs, FALSE)
            max == IF j.build.fn = "avg" THEN MaxAvg ELSE MaxSum
<1>1. n \in Nat /\ Len(vs) = m /\ max \in Nat
  BY BuildAssumption DEF AggFits, JoinFits
<1>2. \A x \in Int : Magnitude(x) \in Int /\ Magnitude(x) >= 0
  BY DEF Magnitude
<1>3. /\ D \in [1 .. n -> Int] /\ \A r \in 1 .. n : r \notin A => D[r] = 0
      /\ Z \in [1 .. n -> Int] /\ \A r \in 1 .. n : r \notin A => Z[r] = 0
      /\ \A r \in A : D[r] = V(j, r) /\ Z[r] = Magnitude(V(j, r))
  <2>1. D = [r \in 1 .. n |-> IF r \in A THEN V(j, r) ELSE 0]
    BY DEF Values
  <2>2. Z = [r \in 1 .. n |-> IF r \in A THEN Magnitude(V(j, r)) ELSE 0]
    BY DEF Sizes0
  <2>3. A \subseteq 1 .. n /\ \A r \in A : Magnitude(V(j, r)) \in Int
    BY <1>2
  <2>. HIDE DEF D, Z, n
  <2>4. D \in [1 .. n -> Int] /\ Z \in [1 .. n -> Int]
    BY <2>1, <2>2, <2>3
  <2>. QED
    BY <2>1, <2>2, <2>3, <2>4
<1>4. g \in [1 .. m -> A]
  BY DEF Numbered
<1>5. e \in [1 .. m -> Int] /\ \A i \in 1 .. m : e[i] = Z[g[i]] /\ vs[i] = D[g[i]] /\ e[i] >= 0 /\ Magnitude(vs[i]) <= e[i]
  <2>. HIDE DEF D, Z, n
  <2>1. \A i \in 1 .. m : Magnitude(vs[i]) \in Int /\ Magnitude(vs[i]) >= 0 /\ g[i] \in A /\ vs[i] = V(j, g[i])
    BY <1>2, <1>4
  <2>2. e \in [1 .. m -> Int]
    BY <2>1
  <2>3. \A i \in 1 .. m : e[i] = Magnitude(vs[i])
    OBVIOUS
  <2>. HIDE DEF e
  <2>. QED
    <3>. SUFFICES ASSUME NEW i \in 1 .. m
                  PROVE  e[i] = Z[g[i]] /\ vs[i] = D[g[i]] /\ e[i] >= 0 /\ Magnitude(vs[i]) <= e[i]
      BY <2>2
    <3>. DEFINE x == Magnitude(vs[i])
    <3>1. x \in Int /\ x >= 0 /\ e[i] = x /\ vs[i] = V(j, g[i]) /\ g[i] \in A
      BY <2>1, <2>3
    <3>2. Z[g[i]] = x /\ D[g[i]] = vs[i]
      BY <1>3, <3>1
    <3>. HIDE DEF x
    <3>3. e[i] >= 0 /\ x <= e[i]
      BY <3>1
    <3>. QED
      BY <3>1, <3>2, <3>3 DEF x
<1>. HIDE DEF n, D, Z, e
<1>6. Sums(m, vs, s)
  BY RunningSums
<1>7. PICK t : Sums(m, e, t)
  BY <1>5, SumsExist
<1>. HIDE DEF s
<1>8. s[m] = SumOf(n, D)
  <2>1. A \subseteq 1 .. n
    BY DEF n
  <2>. QED
    <3>1. \A i \in 1 .. m : vs[i] = D[g[i]]
      BY <1>5
    <3>2. Arranges(n, D, A, m, g, vs)
      BY <1>3, <2>1, <3>1 DEF Arranges
    <3>. QED
      BY <1>1, <1>6, <3>2, SumsInAnyOrder
<1>9. t[m] = SumOf(n, Z)
  <2>1. A \subseteq 1 .. n
    BY DEF n
  <2>. QED
    <3>1. e \in [1 .. m -> Int] /\ \A i \in 1 .. m : e[i] = Z[g[i]]
      BY <1>5
    <3>2. Arranges(n, Z, A, m, g, e)
      BY <1>3, <2>1, <3>1 DEF Arranges
    <3>3. n \in Nat /\ Sums(m, e, t)
      BY <1>1, <1>7
    <3>. QED
      BY <3>2, <3>3, SumsInAnyOrder
<1>10. \A i \in 0 .. m : Magnitude(s[i]) <= t[i]
  BY <1>5, <1>6, <1>7, SumsCompare
<1>11. \A i \in 0 .. m : t[i] <= t[m]
  BY <1>5, <1>7, SumsRise
<1>12. t[m] <= max
  BY <1>9 DEF n, Z
<1>. HIDE DEF max
<1>13. \A i \in 0 .. m : s[i] \in -max - 1 .. max
  <2>. TAKE i \in 0 .. m
  <2>1. s[i] \in Int /\ t[i] \in Int /\ t[m] \in Int /\ Magnitude(s[i]) <= t[i] /\ t[i] <= t[m]
    BY <1>6, <1>7, <1>10, <1>11 DEF Sums
  <2>2. Magnitude(s[i]) <= max
    BY <1>1, <1>12, <2>1 DEF Magnitude
  <2>. QED
    BY <1>1, <2>1, <2>2 DEF Magnitude
<1>14. DOMAIN s = 0 .. m /\ s[m] \in Int
  BY <1>6 DEF Sums
<1>15. DuckSum(j.build, vs) = IF j.build.fn = "avg" THEN Rounded(s[m], m) ELSE s[m]
  <2>. DEFINE float == j.build.fn \in {"fsum", "favg"}
              over == IF float THEN \E i \in DOMAIN s : ~ Finite(s[i])
                      ELSE \E i \in DOMAIN s : s[i] \notin -max - 1 .. max
  <2>0. float = FALSE
    OBVIOUS
  <2>1. ~ float /\ Running(vs, float) = s
    <3>. HIDE DEF float
    <3>. QED
      BY <2>0 DEF s
  <2>2. ~ over
    BY <1>13, <1>14, <2>1
  <2>. HIDE DEF over, float
  <2>3. DuckSum(j.build, vs) = CASE over -> Trap
                                 [] ~ over /\ j.build.fn \in {"avg", "favg"} -> Rounded(s[m], m)
                                 [] OTHER -> s[m]
    BY <1>1, <2>1 DEF DuckSum, over, float, max
  <2>. QED
    BY <2>2, <2>3
<1>. QED
  BY <1>8, <1>14, <1>15 DEF n, D

\* An aggregate that is not refused is what DuckDB answers, in whatever order it
\* reads the group, up to the spelling of an extreme that only comparisons read.
LEMMA AnswersAgree ==
  ASSUME NEW j, AggFits(j), NEW R, RowsIn(j, R), NEW acc, AccSays(j, acc, R), ~ Refused(j.build, acc),
         NEW rows \in Orders(j, R)
  PROVE  LET x == DuckAggregate(j.build, rows)
             y == AnswerOf(j.build, acc)
         IN /\ x \in Int \union {Null} /\ y \in Int \union {Null}
            /\ \/ x = y
               \/ j.build.ties /\ x # Null /\ y # Null /\ Ord(x) = Ord(y)
<1>. DEFINE b == j.build
            A == ReadOf(j, R)
            vs == ValuesRead(b, rows)
            x == DuckAggregate(b, rows)
            y == AnswerOf(b, acc)
            n == Len(j.table)
<1>1. /\ b \in Builds /\ b.fn \in Fns \ Floats /\ b.distinct \in BOOLEAN /\ n \in Nat
      /\ \A r \in R : /\ b.fn \in {"min", "max"} \union AndFns \union OrFns => ~ b.distinct
                      /\ b.fn \in {"sum", "avg"} \union BitFns /\ V(j, r) # Null => Ord(V(j, r)) = V(j, r)
                      /\ b.fn \in BitFns /\ V(j, r) # Null => V(j, r) \in {0, 1}
  <2>1. b \in Builds /\ b.fn \in Fns \ Floats /\ b.distinct \in BOOLEAN /\ n \in Nat
    BY DEF AggFits, BuildFits, ExactAggs, Builds, JoinFits
  <2>2. R \subseteq 1 .. Len(j.table)
    BY DEF RowsIn
  <2>. QED
    BY <2>1, <2>2, AggregateReads
<1>2. /\ IsFiniteSet(R) /\ IsFiniteSet(A) /\ A \subseteq R
      /\ \A q \in A : V(j, q) \in Int /\ V(j, q) # Null /\ Ord(V(j, q)) \in Int
      /\ Cardinality(R) \in Nat /\ Cardinality(A) \in Nat
  BY FiniteRows
<1>3. acc \in Accs /\ Counted(j, acc, R) /\ Summed(j, acc, A) /\ Leading(j, acc, A) /\ Bits(j, acc, A)
  BY DEF AccSays
<1>4. acc.cur \in Int \union {Null} /\ acc.n \in Nat /\ acc.sum \in Int
  BY <1>3, AccsAreSame
<1>5. PICK m, g : /\ Numbered(m, g, A) /\ vs \in [1 .. m -> Int]
                  /\ \A i \in 1 .. m : /\ Ord(vs[i]) = Ord(V(j, g[i]))
                                       /\ ~ b.distinct => vs[i] = V(j, g[i])
                                       /\ \E r \in R : vs[i] = V(j, r) /\ V(j, r) # Null
  BY <1>1, ReadInOrder
<1>6. m \in Nat /\ Cardinality(A) = m /\ Len(vs) = m /\ Len(rows) = Cardinality(R) /\ g \in [1 .. m -> A]
  <2>1. Cardinality(A) = m
    BY <1>5, NumberedCounts
  <2>2. Len(rows) = Cardinality(R)
    BY <1>2, OrdersNumber
  <2>. HIDE DEF vs
  <2>3. m \in Nat /\ g \in [1 .. m -> A]
    BY <1>5 DEF Numbered
  <2>. QED
    BY <1>5, <2>1, <2>2, <2>3
<1>7. \A i \in 1 .. m : vs[i] # Null
  BY <1>5
<1>8. b.fn \in {"sum", "avg"} \union BitFns => \A i \in 1 .. m : vs[i] = V(j, g[i])
  BY <1>1, <1>2, <1>5, <1>6
<1>9. x = CASE b.fn = "count_star" -> Len(rows)
            [] b.fn = "count" -> Len(vs)
            [] b.fn \notin {"count_star", "count"} /\ vs = <<>> -> Null
            [] OTHER ->
                 CASE b.fn \in {"min", "max"} -> Extreme(b, vs)
                   [] b.fn \in {"bool_and", "bit_and"} -> IF Ones(vs) = Len(vs) THEN 1 ELSE 0
                   [] b.fn \in {"bool_or", "bit_or"} -> IF Ones(vs) > 0 THEN 1 ELSE 0
                   [] b.fn = "bit_xor" -> Ones(vs) % 2
                   [] OTHER -> DuckSum(b, vs)
  BY DEF DuckAggregate
<1>10. y = CASE b.fn \in {"count_star", "count"} -> acc.n
             [] b.fn \in {"sum", "fsum"} -> IF acc.n = 0 THEN Null ELSE acc.sum
             [] b.fn \in {"avg", "favg"} -> IF acc.n = 0 THEN Null ELSE Rounded(acc.sum, acc.n)
             [] OTHER -> acc.cur
  BY DEF AnswerOf
<1>11. 0 # Null /\ 1 # Null /\ (vs = <<>> <=> m = 0) /\ (A = {} <=> m = 0)
  <2>1. 0 # Null /\ 1 # Null
    BY RawAssumption
  <2>2. A = {} <=> m = 0
    BY <1>2, <1>6, FS_EmptySet
  <2>3. DOMAIN vs = 1 .. m
    BY <1>5
  <2>4. vs = <<>> <=> m = 0
    <3>. HIDE DEF vs
    <3>1. m = 0 => vs = <<>>
      BY <1>5, <1>6
    <3>2. vs = <<>> => m = 0
      BY <1>6
    <3>. QED
      BY <3>1, <3>2
  <2>. QED
    BY <2>1, <2>2, <2>4
<1>12. Counted(j, acc, R) => /\ b.fn = "count_star" => acc.n = Cardinality(R)
                             /\ b.fn \in {"count", "sum", "avg"} => acc.n = m
  BY <1>6 DEF Counted
<1>. HIDE DEF x, y, vs, A, n
<1>13. CASE b.fn \in {"count_star", "count"}
  BY <1>2, <1>3, <1>4, <1>6, <1>9, <1>10, <1>12, <1>13 DEF x, y
<1>14. CASE b.fn \in {"sum", "avg"}
  <2>1. CASE m = 0
    <3>1. x = Null /\ y = Null
      BY <1>3, <1>9, <1>10, <1>11, <1>12, <1>14, <2>1
    <3>. QED
      BY <3>1 DEF x, y
  <2>2. CASE m # 0
    <3>1. acc.n = m /\ m \in Nat \ {0} /\ acc.sum = SumOf(Len(j.table), Values(j, A))
          /\ acc.size = SumOf(Len(j.table), Sizes0(j, A))
      BY <1>3, <1>6, <1>12, <1>14, <2>2 DEF Summed
    <3>2. acc.size <= IF b.fn = "avg" THEN MaxAvg ELSE MaxSum
      <4>1. acc.size \in Int /\ MaxAvg \in Int /\ MaxSum \in Int
        BY <1>3, AccsAreSame, BuildAssumption
      <4>. QED
        BY <1>14, <4>1 DEF Refused
    <3>3. A \subseteq 1 .. Len(j.table) /\ \A r \in A : V(j, r) \in Int
      BY <1>2 DEF RowsIn
    <3>4. DuckSum(b, vs) = IF b.fn = "avg" THEN Rounded(SumOf(Len(j.table), Values(j, A)), m)
                           ELSE SumOf(Len(j.table), Values(j, A))
      <4>1. \A i \in 1 .. m : vs[i] = V(j, g[i])
        BY <1>8, <1>14
      <4>. QED
        <5>1. Numbered(m, g, A) /\ vs \in [1 .. m -> Int] /\ m \in Nat \ {0} /\ j.build.fn \in {"sum", "avg"}
          BY <1>5, <1>14, <3>1
        <5>2. SumOf(Len(j.table), Sizes0(j, A)) <= (IF j.build.fn = "avg" THEN MaxAvg ELSE MaxSum)
          BY <3>1, <3>2
        <5>. QED
          BY <3>3, <4>1, <5>1, <5>2, SumsAgree
    <3>5. x = DuckSum(b, vs)
      BY <1>9, <1>11, <1>14, <2>2
    <3>6. y = IF b.fn = "avg" THEN Rounded(acc.sum, m) ELSE acc.sum
      BY <1>10, <1>14, <3>1
    <3>7. Rounded(acc.sum, m) \in Int
      BY <1>4, <3>1, RoundedIsNumber
    <3>8. x = y /\ y \in Int
      BY <1>4, <3>1, <3>4, <3>5, <3>6, <3>7
    <3>. QED
      BY <3>8 DEF x, y
  <2>. QED
    BY <2>1, <2>2
<1>15. CASE b.fn \in {"min", "max"}
  <2>0. y = acc.cur
    BY <1>10, <1>15
  <2>1. CASE m = 0
    <3>1. x = Null /\ y = Null
      BY <1>3, <1>9, <1>11, <1>15, <2>0, <2>1 DEF Leading
    <3>. QED
      BY <3>1 DEF x, y
  <2>2. CASE m # 0
    <3>1. PICK p \in A : V(j, p) = acc.cur
      BY <1>3, <1>11, <1>15, <2>2 DEF Leading
    <3>2. /\ acc.cur \in Int /\ acc.cur # Null /\ Ord(acc.cur) \in Int
          /\ \A r \in A : Leads(b, acc.cur, V(j, r))
          /\ ~ acc.tie => \A r \in A : Ord(V(j, r)) = Ord(acc.cur) => V(j, r) = acc.cur
      BY <1>2, <1>3, <1>15, <3>1 DEF Leading
    <3>3. x = Extreme(b, vs)
      BY <1>9, <1>11, <1>15, <2>2
    <3>4. PICK i \in 1 .. m : Extreme(b, vs) = vs[i] /\ \A h \in 1 .. m : Leads(b, vs[i], vs[h])
      BY <1>5, <1>6, <2>2, ExtremeLeads
    <3>5. PICK k \in 1 .. m : g[k] = p
      BY <1>5 DEF Numbered
    <3>6. g[i] \in A /\ vs[i] = V(j, g[i]) /\ vs[k] = acc.cur
      <4>1. ~ b.distinct
        BY <1>1, <1>2, <1>15, <3>1
      <4>. QED
        BY <1>5, <1>6, <3>1, <3>5, <4>1
    <3>7. Leads(b, vs[i], acc.cur) /\ Leads(b, acc.cur, vs[i]) /\ Ord(vs[i]) \in Int
      BY <1>2, <3>2, <3>4, <3>6
    <3>8. Ord(vs[i]) = Ord(acc.cur)
      BY <3>2, <3>7 DEF Leads
    <3>9. vs[i] \in Int /\ vs[i] # Null
      BY <1>2, <3>6
    <3>10. acc.tie => b.ties
      BY <1>15 DEF Refused
    <3>11. vs[i] = acc.cur \/ b.ties
      BY <3>2, <3>6, <3>8, <3>10
    <3>12. x = vs[i]
      BY <3>3, <3>4
    <3>. QED
      BY <2>0, <3>2, <3>8, <3>9, <3>11, <3>12 DEF x, y
  <2>. QED
    BY <2>1, <2>2
<1>16. CASE b.fn \in BitFns
  <2>0. y = acc.cur
    BY <1>10, <1>16 DEF BitFns
  <2>1. CASE m = 0
    <3>1. x = Null /\ y = Null
      BY <1>3, <1>9, <1>11, <1>16, <2>0, <2>1 DEF Bits, BitFns
    <3>. QED
      BY <3>1 DEF x, y
  <2>2. CASE m # 0
    <3>. DEFINE O == OnesOf(j, A)
    <3>1. O \subseteq A /\ IsFiniteSet(O) /\ Cardinality(O) \in Nat /\ (Cardinality(O) = m <=> A = O)
          /\ (Cardinality(O) > 0 <=> O # {})
      <4>1. O \subseteq A
        BY DEF OnesOf
      <4>. HIDE DEF O
      <4>2. IsFiniteSet(O) /\ Cardinality(O) \in Nat /\ (Cardinality(O) = Cardinality(A) => A = O)
        BY <1>2, <4>1, FS_Subset, FS_CardinalityType
      <4>3. Cardinality(O) = 0 <=> O = {}
        BY <4>2, FS_EmptySet
      <4>. QED
        BY <1>6, <4>1, <4>2, <4>3
    <3>2. Ones(vs) = Cardinality(O)
      <4>1. DOMAIN vs = 1 .. m
        BY <1>5
      <4>2. \A i \in 1 .. m : vs[i] = 1 <=> g[i] \in O
        BY <1>6, <1>8, <1>16 DEF OnesOf
      <4>3. { i \in DOMAIN vs : vs[i] = 1 } = { i \in 1 .. m : g[i] \in O }
        BY <4>1, <4>2
      <4>. HIDE DEF O
      <4>4. Cardinality({ i \in 1 .. m : g[i] \in O }) = Cardinality(O)
        BY <1>5, <3>1, CountedAlike
      <4>. QED
        BY <4>3, <4>4 DEF Ones
    <3>3. /\ b.fn \in AndFns => acc.cur = IF A = O THEN 1 ELSE 0
          /\ b.fn \in OrFns => acc.cur = IF O # {} THEN 1 ELSE 0
          /\ b.fn = "bit_xor" => acc.cur = Cardinality(O) % 2
      BY <1>3, <1>11, <2>2 DEF Bits
    <3>. HIDE DEF O
    <3>4. CASE b.fn \in AndFns
      <4>1. x = IF Ones(vs) = Len(vs) THEN 1 ELSE 0
        BY <1>9, <1>11, <2>2, <3>4 DEF AndFns
      <4>2. x = y /\ x \in Int
        BY <1>6, <2>0, <3>1, <3>2, <3>3, <3>4, <4>1
      <4>. QED
        BY <4>2 DEF x, y
    <3>5. CASE b.fn \in OrFns
      <4>1. x = IF Ones(vs) > 0 THEN 1 ELSE 0
        BY <1>9, <1>11, <2>2, <3>5 DEF OrFns
      <4>2. x = y /\ x \in Int
        BY <2>0, <3>1, <3>2, <3>3, <3>5, <4>1
      <4>. QED
        BY <4>2 DEF x, y
    <3>6. CASE b.fn = "bit_xor"
      <4>1. x = Ones(vs) % 2
        BY <1>9, <1>11, <2>2, <3>6
      <4>2. x = y /\ x \in Int
        BY <2>0, <3>1, <3>2, <3>3, <3>6, <4>1
      <4>. QED
        BY <4>2 DEF x, y
    <3>. QED
      BY <1>16, <3>4, <3>5, <3>6 DEF BitFns, AndFns, OrFns
  <2>. QED
    BY <2>1, <2>2
<1>17. b.fn \in {"count_star", "count"} \union {"sum", "avg"} \union {"min", "max"} \union BitFns
  BY <1>1 DEF Fns, Floats, BitFns
<1>. QED
  BY <1>13, <1>14, <1>15, <1>16, <1>17

\* So the group's answer, through the item, is what DuckDB answers.
LEMMA AggregatesAgree ==
  ASSUME NEW j, AggFits(j), NEW key, NEW acc, AccSays(j, acc, RowsOf(j, key)),
         ~ Refused(j.build, acc), Item(j.build, AnswerOf(j.build, acc)) # Trap,
         NEW group, group.val = Item(j.build, AnswerOf(j.build, acc)),
         NEW x \in DuckAnswers(j, key)
  PROVE  Agrees(j.build, group, x)
<1>. DEFINE b == j.build
            R == RowsOf(j, key)
            y == AnswerOf(b, acc)
<1>1. PICK rows \in Orders(j, R) : x = DuckAnswer(j, rows)
  BY DEF DuckAnswers
<1>. DEFINE v == DuckAggregate(b, rows)
<1>2. RowsIn(j, R)
  BY RowsBefore
<1>. HIDE DEF R
<1>3. /\ v \in Int \union {Null} /\ y \in Int \union {Null}
      /\ v = y \/ (b.ties /\ v # Null /\ y # Null /\ Ord(v) = Ord(y))
  BY <1>1, <1>2, AnswersAgree DEF R
<1>4. b \in Builds /\ b.how = "aggs" /\ b.fn \notin Floats /\ (b.ties => b.traps = {})
  BY DEF AggFits, BuildFits, ExactAggs, FitsAggregate
<1>5. Trap \notin Int \union {Null}
  BY BuildAssumption
<1>. HIDE DEF v, y
<1>6. x = Item(b, v)
  BY <1>1, <1>3, <1>4, <1>5 DEF DuckAnswer, v
<1>7. group.val = Item(b, y) /\ group.val # Trap
  BY DEF y
<1>8. CASE v = y
  BY <1>4, <1>6, <1>7, <1>8 DEF Agrees, DoubleSum, Floats
<1>9. CASE v # y
  <2>1. b.traps = {} /\ b.ties /\ v \in Int /\ y \in Int /\ v # Null /\ y # Null /\ Ord(v) = Ord(y)
    BY <1>3, <1>4, <1>9
  <2>2. x = (IF b.flat THEN 0 ELSE v) /\ group.val = IF b.flat THEN 0 ELSE y
    BY <1>6, <1>7, <2>1 DEF Item
  <2>3. x # Trap /\ x # Null /\ group.val # Null /\ Ord(x) = Ord(group.val)
    <3>1. 0 # Null /\ 0 # Trap /\ v # Trap
      BY <1>5, <2>1, RawAssumption
    <3>. QED
      BY <2>1, <2>2, <3>1
  <2>4. b.fn \notin {"fsum", "favg"} /\ Null \notin {x, group.val}
    BY <1>4, <2>3 DEF Floats
  <2>5. Agrees(b, group, x) <=> x # Trap /\ Ord(x) = Ord(group.val)
    BY <1>4, <2>1, <2>4 DEF Agrees, DoubleSum
  <2>. QED
    BY <2>3, <2>5
<1>. QED
  BY <1>8, <1>9

-----------------------------------------------------------------------------
(* The rows of a group in the order of its ORDER BY.                       *)

\* What a row is sorted by is a number or NULL; so is its item, if it does not trap.
SortNumber(b, row) == SortKey(b, row) \in Int \union {Null}
Sortable(b, rows, n) == b \in Builds /\ n \in Nat /\ DOMAIN rows = 1 .. n /\ \A i \in 1 .. n : SortNumber(b, rows[i])

\* Rows that an ORDER BY ties are in one place of it.
LEMMA AheadIsWeak ==
  ASSUME NEW b \in Builds, NEW x, NEW y, NEW z, SortNumber(b, x), SortNumber(b, y), SortNumber(b, z)
  PROVE  /\ ~ Ahead(b, x, x)
         /\ Ahead(b, x, y) => ~ Ahead(b, y, x)
         /\ Ahead(b, x, y) /\ ~ Ahead(b, x, z) => Ahead(b, z, y)
<1>. DEFINE u == SortKey(b, x)
            v == SortKey(b, y)
            w == SortKey(b, z)
<1>1. /\ u \in Int \union {Null} /\ v \in Int \union {Null} /\ w \in Int \union {Null}
      /\ b.desc \in BOOLEAN /\ b.nulls_first \in BOOLEAN
  BY DEF SortNumber, Builds
<1>2. \A k \in Int : Ord(k) \in Int
  BY OrdIsNumber
<1>. HIDE DEF u, v, w
<1>3. \A p, q \in {u, v, w} : SortsFirst(b, p, q) <=>
        \/ p = Null /\ q # Null /\ b.nulls_first
        \/ p # Null /\ q = Null /\ ~ b.nulls_first
        \/ p # Null /\ q # Null /\ (IF b.desc THEN Ord(p) > Ord(q) ELSE Ord(p) < Ord(q))
  BY <1>1 DEF SortsFirst
<1>4. /\ Ahead(b, x, x) = SortsFirst(b, u, u) /\ Ahead(b, x, y) = SortsFirst(b, u, v)
      /\ Ahead(b, y, x) = SortsFirst(b, v, u) /\ Ahead(b, x, z) = SortsFirst(b, u, w)
      /\ Ahead(b, z, y) = SortsFirst(b, w, v)
  BY DEF Ahead, u, v, w
<1>5. /\ u # Null => Ord(u) \in Int
      /\ v # Null => Ord(v) \in Int
      /\ w # Null => Ord(w) \in Int
  BY <1>1, <1>2
<1>6. ~ SortsFirst(b, u, u)
  BY <1>1, <1>3, <1>5
<1>7. SortsFirst(b, u, v) => ~ SortsFirst(b, v, u)
  BY <1>1, <1>3, <1>5
<1>8. SortsFirst(b, u, v) /\ ~ SortsFirst(b, u, w) => SortsFirst(b, w, v)
  BY <1>1, <1>3, <1>5
<1>. QED
  BY <1>4, <1>6, <1>7, <1>8

\* The stable sort: what goes before a row.
Goes(b, rows, q, r) == Ahead(b, rows[q], rows[r]) \/ (Tied(b, rows[q], rows[r]) /\ q < r)
Firsts(b, rows, r) == { q \in DOMAIN rows : Goes(b, rows, q, r) }

\* To go before is a strict total order of the rows' numbers.
LEMMA GoesIsTotal ==
  ASSUME NEW b, NEW rows, NEW n, Sortable(b, rows, n), NEW q \in 1 .. n, NEW r \in 1 .. n, q # r
  PROVE  /\ ~ Goes(b, rows, q, q)
         /\ Goes(b, rows, q, r) \/ Goes(b, rows, r, q)
         /\ \A p \in 1 .. n : Goes(b, rows, p, q) /\ Goes(b, rows, q, r) => Goes(b, rows, p, r)
<1>1. b \in Builds /\ n \in Nat /\ \A i \in 1 .. n : SortNumber(b, rows[i])
  BY DEF Sortable
<1>2. \A i, k, h \in 1 .. n : /\ ~ Ahead(b, rows[i], rows[i])
                              /\ Ahead(b, rows[i], rows[k]) => ~ Ahead(b, rows[k], rows[i])
                              /\ Ahead(b, rows[i], rows[k]) /\ ~ Ahead(b, rows[i], rows[h])
                                   => Ahead(b, rows[h], rows[k])
  <2>. TAKE i, k, h \in 1 .. n
  <2>1. SortNumber(b, rows[i]) /\ SortNumber(b, rows[k]) /\ SortNumber(b, rows[h])
    BY <1>1
  <2>. QED
    BY <1>1, <2>1, AheadIsWeak
<1>3. ~ Goes(b, rows, q, q)
  BY <1>1, <1>2 DEF Goes
<1>4. Goes(b, rows, q, r) \/ Goes(b, rows, r, q)
  BY <1>1 DEF Goes, Tied
<1>5. ASSUME NEW p \in 1 .. n, Goes(b, rows, p, q), Goes(b, rows, q, r) PROVE Goes(b, rows, p, r)
  <2>1. Ahead(b, rows[p], rows[q]) \/ (Tied(b, rows[p], rows[q]) /\ p < q)
    BY <1>5 DEF Goes
  <2>2. Ahead(b, rows[q], rows[r]) \/ (Tied(b, rows[q], rows[r]) /\ q < r)
    BY <1>5 DEF Goes
  <2>3. p < q /\ q < r => p < r
    BY <1>1
  <2>4. CASE Ahead(b, rows[p], rows[r])
    BY <2>4 DEF Goes
  <2>5. CASE ~ Ahead(b, rows[p], rows[r])
    <3>1. ~ Ahead(b, rows[p], rows[q])
      <4>1. Ahead(b, rows[p], rows[q]) => Ahead(b, rows[r], rows[q])
        BY <1>2, <2>5
      <4>. QED
        BY <1>2, <2>2, <4>1 DEF Tied
    <3>2. Tied(b, rows[p], rows[q]) /\ p < q
      BY <2>1, <3>1
    <3>3. ~ Ahead(b, rows[q], rows[r])
      <4>1. Ahead(b, rows[q], rows[r]) /\ ~ Ahead(b, rows[q], rows[p]) => Ahead(b, rows[p], rows[r])
        BY <1>2
      <4>. QED
        BY <2>5, <3>2, <4>1 DEF Tied
    <3>4. Tied(b, rows[q], rows[r]) /\ q < r
      BY <2>2, <3>3
    <3>5. ~ Ahead(b, rows[r], rows[p])
      <4>1. Ahead(b, rows[r], rows[p]) /\ ~ Ahead(b, rows[r], rows[q]) => Ahead(b, rows[q], rows[p])
        BY <1>2
      <4>. QED
        BY <3>2, <3>4, <4>1 DEF Tied
    <3>. QED
      BY <2>3, <2>5, <3>2, <3>4, <3>5 DEF Goes, Tied
  <2>. QED
    BY <2>4, <2>5
<1>. QED
  BY <1>3, <1>4, <1>5

\* What goes before a row are less than all, and as many before no other.
LEMMA FirstsCount ==
  ASSUME NEW b, NEW rows, NEW n, Sortable(b, rows, n), NEW r \in 1 .. n
  PROVE  /\ IsFiniteSet(Firsts(b, rows, r)) /\ Cardinality(Firsts(b, rows, r)) \in Nat
         /\ Cardinality(Firsts(b, rows, r)) + 1 \in 1 .. n
<1>. DEFINE F(q) == Firsts(b, rows, q)
<1>1. n \in Nat /\ DOMAIN rows = 1 .. n /\ IsFiniteSet(1 .. n) /\ Cardinality(1 .. n) = n
  BY FS_Interval DEF Sortable
<1>2. F(r) \subseteq (1 .. n) \ {r}
  <2>1. ~ Goes(b, rows, r, r)
    <3>1. SortNumber(b, rows[r]) /\ b \in Builds
      BY DEF Sortable
    <3>2. ~ Ahead(b, rows[r], rows[r])
      BY <3>1, AheadIsWeak
    <3>. QED
      BY <1>1, <3>2 DEF Goes
  <2>. QED
    BY <1>1, <2>1 DEF Firsts
<1>3. IsFiniteSet((1 .. n) \ {r}) /\ Cardinality((1 .. n) \ {r}) = n - 1
  BY <1>1, FS_RemoveElement
<1>. HIDE DEF F
<1>4. IsFiniteSet(F(r)) /\ Cardinality(F(r)) <= n - 1 /\ Cardinality(F(r)) \in Nat
  BY <1>2, <1>3, FS_Subset, FS_CardinalityType
<1>. QED
  BY <1>1, <1>4 DEF F

\* So no two rows have the same number of rows before them.
LEMMA FirstsDiffer ==
  ASSUME NEW b, NEW rows, NEW n, Sortable(b, rows, n), NEW q \in 1 .. n, NEW r \in 1 .. n, q # r
  PROVE  Cardinality(Firsts(b, rows, q)) # Cardinality(Firsts(b, rows, r))
<1>. DEFINE F(x) == Firsts(b, rows, x)
<1>1. n \in Nat /\ DOMAIN rows = 1 .. n
  BY DEF Sortable
<1>2. \A x \in 1 .. n : IsFiniteSet(F(x)) /\ Cardinality(F(x)) \in Nat
  BY FirstsCount
<1>3. ASSUME NEW x \in 1 .. n, NEW y \in 1 .. n, x # y, Goes(b, rows, x, y)
      PROVE  Cardinality(F(x)) < Cardinality(F(y))
  <2>1. F(x) \subseteq F(y) /\ x \in F(y) /\ x \notin F(x)
    <3>1. /\ ~ Goes(b, rows, x, x)
          /\ \A p \in 1 .. n : Goes(b, rows, p, x) /\ Goes(b, rows, x, y) => Goes(b, rows, p, y)
      BY <1>3, GoesIsTotal
    <3>. QED
      BY <1>1, <1>3, <3>1 DEF Firsts
  <2>. HIDE DEF F
  <2>2. IsFiniteSet(F(x)) /\ IsFiniteSet(F(y)) /\ Cardinality(F(x)) \in Nat /\ Cardinality(F(y)) \in Nat
    BY <1>2
  <2>3. Cardinality(F(x) \union {x}) = Cardinality(F(x)) + 1 /\ F(x) \union {x} \subseteq F(y)
    BY <2>1, <2>2, FS_AddElement
  <2>4. Cardinality(F(x) \union {x}) <= Cardinality(F(y))
    BY <2>2, <2>3, FS_Subset
  <2>. QED
    BY <2>2, <2>3, <2>4
<1>4. Goes(b, rows, q, r) \/ Goes(b, rows, r, q)
  BY GoesIsTotal
<1>. HIDE DEF F
<1>5. Cardinality(F(q)) < Cardinality(F(r)) \/ Cardinality(F(r)) < Cardinality(F(q))
  BY <1>3, <1>4
<1>6. Cardinality(F(q)) \in Nat /\ Cardinality(F(r)) \in Nat
  BY <1>2
<1>. QED
  BY <1>5, <1>6 DEF F

\* Each place of the order has its row.
LEMMA PlacesAreTaken ==
  ASSUME NEW b, NEW rows, NEW n, Sortable(b, rows, n), NEW m \in 1 .. n
  PROVE  \E r \in 1 .. n : /\ Ordered(b, rows)[m] = rows[r]
                           /\ IsFiniteSet(Firsts(b, rows, r)) /\ Cardinality(Firsts(b, rows, r)) = m - 1
<1>. DEFINE F(r) == Firsts(b, rows, r)
            g == [r \in 1 .. n |-> Cardinality(F(r)) + 1]
<1>1. n \in Nat /\ DOMAIN rows = 1 .. n /\ IsFiniteSet(1 .. n) /\ Cardinality(1 .. n) = n
  BY FS_Interval DEF Sortable
<1>2. \A r \in 1 .. n : IsFiniteSet(F(r)) /\ Cardinality(F(r)) \in Nat /\ Cardinality(F(r)) + 1 \in 1 .. n
  BY FirstsCount
<1>3. \A q, r \in 1 .. n : q # r => Cardinality(F(q)) # Cardinality(F(r))
  BY FirstsDiffer
<1>. HIDE DEF F
<1>4. g \in [1 .. n -> 1 .. n]
  BY <1>2
<1>5. ASSUME NEW q \in 1 .. n, NEW r \in 1 .. n, q # r PROVE g[q] # g[r]
  <2>1. Cardinality(F(q)) # Cardinality(F(r)) /\ Cardinality(F(q)) \in Nat /\ Cardinality(F(r)) \in Nat
    BY <1>2, <1>3, <1>5
  <2>. QED
    BY <2>1
<1>6. g \in Injection(1 .. n, 1 .. n)
  BY <1>4, <1>5 DEF Injection, IsInjective
<1>7. g \in Surjection(1 .. n, 1 .. n)
  BY <1>1, <1>6, FS_Injection
<1>8. PICK r \in 1 .. n : g[r] = m
  BY <1>7 DEF Surjection
<1>. DEFINE Rank(q) == Cardinality({ p \in DOMAIN rows : Ahead(b, rows[p], rows[q])
                                        \/ (Tied(b, rows[p], rows[q]) /\ p < q) })
            R == CHOOSE q \in DOMAIN rows : Rank(q) = m - 1
<1>9. \A q : Rank(q) = Cardinality(F(q))
  BY DEF F, Firsts, Goes
<1>10. Ordered(b, rows)[m] = rows[R]
  BY <1>1 DEF Ordered
<1>. HIDE DEF Rank
<1>11. Rank(r) = m - 1
  BY <1>2, <1>8, <1>9
<1>12. R \in DOMAIN rows /\ Rank(R) = m - 1
  BY <1>1, <1>11
<1>. HIDE DEF R
<1>. QED
  BY <1>1, <1>2, <1>9, <1>10, <1>12 DEF F

\* Two arrangements of the rows of one table.
Arrays(b, n, t, R, f, rows) == /\ Numbered(n, f, R) /\ Sortable(b, rows, n)
                               /\ \A i \in 1 .. n : rows[i] = t[f[i]]

\* In two arrangements, the row of one place is not ahead of the other's.
LEMMA PlacesAreTied ==
  ASSUME NEW b, NEW n, NEW t, NEW R, NEW f, NEW g, NEW rows, NEW rows2,
         Arrays(b, n, t, R, f, rows), Arrays(b, n, t, R, g, rows2),
         NEW r \in 1 .. n, NEW s \in 1 .. n,
         Cardinality(Firsts(b, rows, r)) = Cardinality(Firsts(b, rows2, s))
  PROVE  ~ Ahead(b, rows[r], rows2[s])
<1>. SUFFICES ASSUME Ahead(b, rows[r], rows2[s]) PROVE FALSE
  OBVIOUS
<1>. DEFINE A == { a \in R : Ahead(b, t[a], rows2[s]) }
            P == { i \in 1 .. n : f[i] \in A }
            Q == { i \in 1 .. n : g[i] \in A }
            F == Firsts(b, rows, r)
            G == Firsts(b, rows2, s)
<1>1. /\ Numbered(n, f, R) /\ Numbered(n, g, R) /\ n \in Nat /\ b \in Builds
      /\ f \in [1 .. n -> R] /\ g \in [1 .. n -> R]
      /\ DOMAIN rows = 1 .. n /\ DOMAIN rows2 = 1 .. n
      /\ \A i \in 1 .. n : /\ SortNumber(b, rows[i]) /\ SortNumber(b, rows2[i])
                           /\ rows[i] = t[f[i]] /\ rows2[i] = t[g[i]]
  BY DEF Arrays, Sortable, Numbered
<1>0. ASSUME NEW B, B \subseteq R
      PROVE  LET P0 == { i \in 1 .. n : f[i] \in B }
                 Q0 == { i \in 1 .. n : g[i] \in B }
             IN IsFiniteSet(P0) /\ IsFiniteSet(Q0) /\ Cardinality(P0) = Cardinality(Q0)
  <2>. HIDE DEF A, P, Q, F, G
  <2>1. LET P0 == { i \in 1 .. n : f[i] \in B } IN IsFiniteSet(P0) /\ Cardinality(P0) = Cardinality(B)
    BY <1>0, <1>1, PlacesOf
  <2>2. LET Q0 == { i \in 1 .. n : g[i] \in B } IN IsFiniteSet(Q0) /\ Cardinality(Q0) = Cardinality(B)
    BY <1>0, <1>1, PlacesOf
  <2>. QED
    BY <2>1, <2>2
<1>2. IsFiniteSet(P) /\ IsFiniteSet(Q) /\ Cardinality(P) = Cardinality(Q)
  <2>1. A \subseteq R
    OBVIOUS
  <2>. HIDE DEF A
  <2>. QED
    BY <1>0, <2>1
<1>3. F \union {r} \subseteq P
  <2>1. ASSUME NEW q \in 1 .. n, ~ Ahead(b, rows[r], rows[q]) PROVE q \in P
    <3>1. SortNumber(b, rows[r]) /\ SortNumber(b, rows[q]) /\ SortNumber(b, rows2[s])
      BY <1>1
    <3>2. Ahead(b, rows[q], rows2[s])
      BY <1>1, <2>1, <3>1, AheadIsWeak
    <3>. QED
      BY <1>1, <3>2
  <2>2. ~ Ahead(b, rows[r], rows[r])
    <3>1. SortNumber(b, rows[r])
      BY <1>1
    <3>. QED
      BY <1>1, <3>1, AheadIsWeak
  <2>3. ASSUME NEW q \in F PROVE q \in 1 .. n /\ ~ Ahead(b, rows[r], rows[q])
    <3>1. q \in 1 .. n /\ (Ahead(b, rows[q], rows[r]) \/ Tied(b, rows[q], rows[r]))
      BY <1>1 DEF Firsts, Goes
    <3>2. SortNumber(b, rows[q]) /\ SortNumber(b, rows[r])
      BY <1>1, <3>1
    <3>3. Ahead(b, rows[q], rows[r]) => ~ Ahead(b, rows[r], rows[q])
      BY <1>1, <3>2, AheadIsWeak
    <3>. QED
      BY <3>1, <3>3 DEF Tied
  <2>. HIDE DEF P, F
  <2>. QED
    BY <2>1, <2>2, <2>3
<1>4. Q \subseteq G
  BY <1>1 DEF Firsts, Goes
<1>5. r \notin F
  <2>1. SortNumber(b, rows[r])
    BY <1>1
  <2>2. ~ Ahead(b, rows[r], rows[r])
    BY <1>1, <2>1, AheadIsWeak
  <2>. QED
    BY <1>1, <2>2 DEF Firsts, Goes
<1>6. IsFiniteSet(G) /\ G \subseteq 1 .. n
  <2>1. G \subseteq 1 .. n /\ IsFiniteSet(1 .. n)
    BY <1>1, FS_Interval DEF Firsts
  <2>. HIDE DEF G
  <2>. QED
    BY <2>1, FS_Subset
<1>. HIDE DEF A, P, Q, F, G
<1>7. Cardinality(Q) <= Cardinality(G) /\ Cardinality(G) \in Nat /\ Cardinality(Q) \in Nat
  BY <1>2, <1>4, <1>6, FS_Subset, FS_CardinalityType
<1>8. IsFiniteSet(F) /\ Cardinality(F) \in Nat
  <2>1. F \subseteq P
    BY <1>3
  <2>. QED
    BY <1>2, <2>1, FS_Subset, FS_CardinalityType
<1>9. Cardinality(F \union {r}) = Cardinality(F) + 1 /\ Cardinality(F \union {r}) <= Cardinality(P)
  BY <1>2, <1>3, <1>5, <1>8, FS_Subset, FS_AddElement
<1>10. Cardinality(F) = Cardinality(G)
  BY DEF F, G
<1>. QED
  BY <1>2, <1>7, <1>8, <1>9, <1>10

-----------------------------------------------------------------------------
(* The item of one row of a group.                                         *)

\* A join grouped for the item of one row, as order_draft and the tables have it.
ItemFits(j) == /\ j.build.how = "item" /\ JoinFits(j) /\ BuildFits(j) /\ FitsOrder(j)
               /\ \A r \in DOMAIN j.table : j.table[r].ord \in Int \union {Null}

\* The rows that are kept, as a request's query numbers them.
LastKept(j, n) == CASE j.build.limit < 0 -> n
                    [] j.build.limit >= 0 /\ j.cmps # <<>> /\ j.build.offset + j.build.limit > MaxLong ->
                         j.build.offset + j.build.limit - 2 * (MaxLong + 1)
                    [] OTHER -> j.build.offset + j.build.limit
KeptNumbers(j, n) == { i \in 1 .. n : j.build.offset < i /\ i <= LastKept(j, n) }

\* A build that keeps one row of a group at most keeps the one DuckDB does.
LEMMA OneRowIsKept ==
  ASSUME NEW j, FitsOrder(j), NEW n \in Nat, ~ (KeptCount(j, n) > 1)
  PROVE  IF KeptCount(j, n) = 0 THEN KeptNumbers(j, n) = {}
         ELSE j.build.offset + 1 \in 1 .. n /\ KeptNumbers(j, n) = {j.build.offset + 1}
<1>. DEFINE l == j.build.limit
            o == j.build.offset
            rest == IF n > o THEN n - o ELSE 0
            keyed == j.cmps # <<>>
            last == LastKept(j, n)
<1>1. l \in Int /\ -1 <= l /\ l <= MaxLong /\ o \in Nat /\ MaxLong \in Nat /\ rest \in Nat
  BY BuildAssumption DEF FitsOrder
<1>2. Wraps(j) <=> keyed /\ l >= 0 /\ o + l > MaxLong
  BY DEF Wraps
<1>3. KeptCount(j, n) = (IF Wraps(j) THEN 0 ELSE IF l >= 0 /\ l < rest THEN l ELSE rest)
  BY DEF KeptCount
<1>4. last = (IF l < 0 THEN n ELSE IF Wraps(j) THEN o + l - 2 * (MaxLong + 1) ELSE o + l)
  BY <1>1, <1>2 DEF LastKept
<1>5. KeptNumbers(j, n) = { i \in 1 .. n : o < i /\ i <= last }
  BY DEF KeptNumbers
<1>. HIDE DEF l, o, last, keyed
<1>6. CASE Wraps(j)
  <2>1. last < o
    BY <1>1, <1>2, <1>4, <1>6
  <2>2. last \in Int
    BY <1>1, <1>4
  <2>. QED
    BY <1>1, <1>3, <1>5, <1>6, <2>1, <2>2
<1>7. CASE ~ Wraps(j) /\ l >= 0 /\ l < rest
  <2>1. KeptCount(j, n) = l /\ last = o + l /\ (l = 0 \/ l = 1)
    BY <1>1, <1>3, <1>4, <1>7
  <2>2. l = 1 => o + 1 \in 1 .. n
    BY <1>1, <1>7
  <2>. QED
    BY <1>1, <1>5, <2>1, <2>2 DEF o
<1>8. CASE ~ Wraps(j) /\ ~ (l >= 0 /\ l < rest)
  <2>1. KeptCount(j, n) = rest /\ (rest = 0 \/ rest = 1)
    BY <1>1, <1>3, <1>8
  <2>2. last \in Int /\ \A i \in 1 .. n : o < i => i <= last
    BY <1>1, <1>4, <1>8
  <2>3. rest = 0 => n <= o
    BY <1>1
  <2>4. rest = 1 => n = o + 1
    BY <1>1
  <2>. HIDE DEF rest
  <2>5. KeptNumbers(j, n) = { i \in 1 .. n : o < i }
    BY <1>5, <2>2
  <2>6. rest = 0 => { i \in 1 .. n : o < i } = {}
    BY <1>1, <2>3
  <2>7. rest = 1 => { i \in 1 .. n : o < i } = {o + 1} /\ o + 1 \in 1 .. n
    BY <1>1, <2>4
  <2>. QED
    BY <2>1, <2>5, <2>6, <2>7 DEF o
<1>. QED
  BY <1>6, <1>7, <1>8

\* The rows of a group in two orders, if no item of them traps.
LEMMA RowsAreArrays ==
  ASSUME NEW j, ItemFits(j), NEW R, R \subseteq DOMAIN j.table, IsFiniteSet(R),
         \A r \in R : Item(j.build, j.table[r].val) # Trap, NEW rows \in Orders(j, R)
  PROVE  /\ Len(rows) = Cardinality(R) /\ Cardinality(R) \in Nat
         /\ \E f : Arrays(j.build, Cardinality(R), j.table, R, f, rows)
<1>. DEFINE n == Cardinality(R)
            b == j.build
<1>1. PICK f : /\ Numbered(n, f, R) /\ DOMAIN rows = 1 .. n /\ Len(rows) = n
               /\ \A i \in 1 .. n : rows[i] = j.table[f[i]]
  BY OrdersNumber
<1>2. n \in Nat /\ f \in [1 .. n -> R]
  BY <1>1 DEF Numbered
<1>3. b \in Builds /\ 0 \in Int
  BY DEF ItemFits, BuildFits
<1>4. ASSUME NEW r \in R PROVE SortNumber(b, j.table[r])
  <2>1. j.table[r].val \in Int \union {Null} /\ j.table[r].ord \in Int \union {Null}
        /\ Item(b, j.table[r].val) # Trap
    BY DEF ItemFits, BuildFits
  <2>2. Item(b, j.table[r].val) \in {Trap, 0, j.table[r].val}
    BY DEF Item
  <2>. QED
    BY <1>3, <2>1, <2>2 DEF SortNumber, SortKey
<1>. HIDE DEF n, b
<1>5. \A i \in 1 .. n : SortNumber(b, rows[i])
  BY <1>1, <1>2, <1>4
<1>6. Sortable(b, rows, n)
  BY <1>1, <1>2, <1>3, <1>5 DEF Sortable
<1>7. Arrays(b, n, j.table, R, f, rows)
  BY <1>1, <1>6 DEF Arrays
<1>. QED
  BY <1>1, <1>2, <1>7 DEF n, b

\* A group's item is DuckDB's in each of its orders: a row of one place is tied with
\* that of the same place in another order, and rows tied with it have its item.
LEMMA ItemsAgree ==
  ASSUME NEW j, ItemFits(j), NEW R, R \subseteq DOMAIN j.table, IsFiniteSet(R),
         NEW kept \in Orders(j, R), ~ RowsRefused(j, kept), NEW rows \in Orders(j, R)
  PROVE  DuckItem(j, rows) = LET k == KeptRow(j, kept)
                             IN IF k = <<>> THEN Null ELSE Item(j.build, k[1].val)
<1>. DEFINE n == Cardinality(R)
            b == j.build
            o == j.build.offset
<1>1. FitsOrder(j) /\ b \in Builds
  BY DEF ItemFits, BuildFits
<1>2. ASSUME NEW s \in Orders(j, R)
      PROVE  /\ DOMAIN s = 1 .. n /\ Len(s) = n /\ n \in Nat
             /\ \A i \in 1 .. n : \E r \in R : s[i] = j.table[r]
             /\ \A r \in R : \E i \in 1 .. n : s[i] = j.table[r]
  <2>1. PICK f : /\ Numbered(n, f, R) /\ DOMAIN s = 1 .. n /\ Len(s) = n
                 /\ \A i \in 1 .. n : s[i] = j.table[f[i]]
    BY OrdersNumber
  <2>. QED
    BY <2>1 DEF Numbered
<1>3. /\ ~ (KeptCount(j, Len(kept)) > 1)
      /\ \A i \in DOMAIN kept : Item(b, kept[i].val) # Trap
      /\ KeptRow(j, kept) # <<>> => \A i \in DOMAIN kept :
           Tied(b, kept[i], KeptRow(j, kept)[1]) => Item(b, kept[i].val) = Item(b, KeptRow(j, kept)[1].val)
  BY DEF RowsRefused
<1>. HIDE DEF n, b, o
<1>13. /\ DOMAIN kept = 1 .. n /\ Len(kept) = n /\ n \in Nat
       /\ \A r \in R : \E i \in 1 .. n : kept[i] = j.table[r]
  BY <1>2
<1>14. /\ DOMAIN rows = 1 .. n /\ Len(rows) = n
       /\ \A i \in 1 .. n : \E r \in R : rows[i] = j.table[r]
  BY <1>2
<1>4. \A r \in R : Item(b, j.table[r].val) # Trap
  <2>. TAKE r \in R
  <2>1. PICK i \in 1 .. n : kept[i] = j.table[r]
    BY <1>13
  <2>. QED
    BY <1>3, <1>13, <2>1
<1>5. PICK f : Arrays(b, n, j.table, R, f, kept)
  BY <1>4, RowsAreArrays DEF n, b
<1>6. PICK g : Arrays(b, n, j.table, R, g, rows)
  BY <1>4, RowsAreArrays DEF n, b
<1>7. DuckItem(j, rows) = LET traps == \E i \in 1 .. n : Item(b, rows[i].val) = Trap
                              k == KeptNumbers(j, n)
                          IN CASE traps \/ Cardinality(k) > 1 -> Trap
                               [] ~ traps /\ k = {} -> Null
                               [] OTHER -> Item(b, Ordered(b, rows)[CHOOSE i \in k : TRUE].val)
  BY <1>14 DEF DuckItem, KeptNumbers, LastKept, b
<1>8. \A i \in 1 .. n : Item(b, rows[i].val) # Trap
  <2>. TAKE i \in 1 .. n
  <2>1. PICK r \in R : rows[i] = j.table[r]
    BY <1>14
  <2>. QED
    BY <1>4, <2>1
<1>9. IF KeptCount(j, n) = 0 THEN KeptNumbers(j, n) = {} ELSE o + 1 \in 1 .. n /\ KeptNumbers(j, n) = {o + 1}
  BY <1>1, <1>3, <1>13, OneRowIsKept DEF o
<1>10. KeptRow(j, kept) = IF KeptCount(j, n) = 0 THEN <<>> ELSE <<Ordered(b, kept)[o + 1]>>
  BY <1>13 DEF KeptRow, b, o
<1>11. CASE KeptCount(j, n) = 0
  <2>1. KeptNumbers(j, n) = {} /\ Cardinality({}) = 0 /\ KeptRow(j, kept) = <<>>
    BY <1>9, <1>10, <1>11, FS_EmptySet
  <2>2. DuckItem(j, rows) = Null
    BY <1>7, <1>8, <2>1
  <2>. QED
    BY <2>1, <2>2
<1>12. CASE KeptCount(j, n) # 0
  <2>1. /\ o + 1 \in 1 .. n /\ KeptNumbers(j, n) = {o + 1} /\ Cardinality({o + 1}) = 1
        /\ (CHOOSE i \in {o + 1} : TRUE) = o + 1
    BY <1>9, <1>12, FS_Singleton
  <2>2. DuckItem(j, rows) = Item(b, Ordered(b, rows)[o + 1].val)
    BY <1>7, <1>8, <2>1
  <2>3. KeptRow(j, kept) # <<>> /\ KeptRow(j, kept)[1] = Ordered(b, kept)[o + 1]
    BY <1>10, <1>12
  <2>9. Sortable(b, kept, n) /\ Sortable(b, rows, n)
    BY <1>5, <1>6 DEF Arrays
  <2>. DEFINE m == o + 1
  <2>10. m \in 1 .. n
    BY <2>1
  <2>11. /\ DuckItem(j, rows) = Item(b, Ordered(b, rows)[m].val)
         /\ KeptRow(j, kept) # <<>> /\ KeptRow(j, kept)[1] = Ordered(b, kept)[m]
    BY <2>2, <2>3
  <2>. HIDE DEF m
  <2>4. PICK r \in 1 .. n : Ordered(b, kept)[m] = kept[r] /\ Cardinality(Firsts(b, kept, r)) = m - 1
    BY <2>9, <2>10, PlacesAreTaken
  <2>5. PICK s \in 1 .. n : Ordered(b, rows)[m] = rows[s] /\ Cardinality(Firsts(b, rows, s)) = m - 1
    BY <2>9, <2>10, PlacesAreTaken
  <2>6. Tied(b, rows[s], kept[r])
    <3>1. ~ Ahead(b, kept[r], rows[s])
      BY <1>5, <1>6, <2>4, <2>5, PlacesAreTied
    <3>2. ~ Ahead(b, rows[s], kept[r])
      BY <1>5, <1>6, <2>4, <2>5, PlacesAreTied
    <3>. QED
      BY <3>1, <3>2 DEF Tied
  <2>7. PICK i \in 1 .. n : kept[i] = rows[s]
    <3>1. PICK q \in R : rows[s] = j.table[q]
      BY <1>14
    <3>. QED
      BY <1>13, <3>1
  <2>8. Item(b, rows[s].val) = Item(b, kept[r].val)
    BY <1>3, <1>13, <2>4, <2>6, <2>7, <2>11
  <2>. QED
    BY <2>4, <2>5, <2>8, <2>11 DEF b
<1>. QED
  BY <1>11, <1>12

-----------------------------------------------------------------------------
(* What the groups of rows say, of a table half built.                     *)

\* A group has its rows in the table's order, one of those DuckDB may read them in.
ItemsSay(j, gs, n) == ItemFits(j) => \A key \in DOMAIN gs : gs[key] \in Orders(j, ReadBefore(j, key, n))

\* A row appended to an order of some rows gives an order of one more.
LEMMA AppendedOrder ==
  ASSUME NEW j, NEW S, IsFiniteSet(S), NEW r, r \notin S, NEW rows \in Orders(j, S)
  PROVE  Append(rows, j.table[r]) \in Orders(j, S \union {r})
<1>. DEFINE n == Cardinality(S)
            T == S \union {r}
            x == j.table[r]
<1>1. PICK f \in [1 .. n -> S] : /\ rows = [ i \in 1 .. n |-> j.table[f[i]] ]
                                 /\ \A q \in S : \E i \in 1 .. n : f[i] = q
  BY OrdersOf
<1>2. n \in Nat /\ Cardinality(T) = n + 1
  BY FS_CardinalityType, FS_AddElement
<1>. DEFINE g == [i \in 1 .. n + 1 |-> IF i = n + 1 THEN r ELSE f[i]]
            both == { rows[i] : i \in 1 .. n } \union {x}
<1>. HIDE DEF n, x
<1>3. g \in [1 .. n + 1 -> T] /\ \A q \in T : \E i \in 1 .. n + 1 : g[i] = q
  <2>1. \A i \in 1 .. n + 1 : i = n + 1 \/ i \in 1 .. n
    BY <1>2
  <2>2. \A i \in 1 .. n : i # n + 1 /\ i \in 1 .. n + 1
    BY <1>2
  <2>3. n + 1 \in 1 .. n + 1
    BY <1>2
  <2>4. g \in [1 .. n + 1 -> T]
    BY <1>1, <2>1
  <2>5. \A i \in 1 .. n : g[i] = f[i]
    BY <2>2
  <2>6. g[n + 1] = r
    BY <2>3
  <2>. HIDE DEF g
  <2>7. ASSUME NEW q \in S PROVE \E i \in 1 .. n + 1 : g[i] = q
    <3>1. PICK i \in 1 .. n : f[i] = q
      BY <1>1
    <3>. QED
      BY <2>2, <2>5, <3>1
  <2>. QED
    BY <2>3, <2>4, <2>6, <2>7
<1>4. rows \in Seq(both) /\ Len(rows) = n /\ x \in both
  BY <1>1, <1>2
<1>. HIDE DEF both
<1>5. Append(rows, x) \in Seq(both) /\ Len(Append(rows, x)) = n + 1 /\ Append(rows, x)[n + 1] = x
      /\ \A i \in 1 .. n : Append(rows, x)[i] = rows[i]
  BY <1>4, AppendProperties
<1>6. Append(rows, x) = [ i \in 1 .. n + 1 |-> j.table[g[i]] ]
  <2>. DEFINE a == Append(rows, x)
  <2>. HIDE DEF a
  <2>1. DOMAIN a = 1 .. n + 1 /\ a = [ i \in 1 .. n + 1 |-> a[i] ]
    BY <1>5, LenProperties DEF a
  <2>2. \A i \in 1 .. n + 1 : a[i] = j.table[g[i]]
    <3>. TAKE i \in 1 .. n + 1
    <3>1. CASE i = n + 1
      BY <1>5, <3>1 DEF a, x
    <3>2. CASE i # n + 1
      <4>1. i \in 1 .. n
        BY <1>2, <3>2
      <4>2. g[i] = f[i]
        BY <3>2
      <4>3. a[i] = rows[i] /\ rows[i] = j.table[f[i]]
        BY <1>1, <1>5, <4>1 DEF a
      <4>. QED
        BY <4>2, <4>3
    <3>. QED
      BY <3>1, <3>2
  <2>. HIDE DEF g
  <2>. QED
    BY <2>1, <2>2 DEF a
<1>. HIDE DEF g, T
<1>7. [ i \in 1 .. Cardinality(T) |-> j.table[g[i]] ] \in Orders(j, T)
  BY <1>2, <1>3, OrderedBy
<1>. QED
  BY <1>2, <1>6, <1>7 DEF T, x

\* No rows have the empty order.
LEMMA EmptyOrder ==
  ASSUME NEW j
  PROVE  <<>> \in Orders(j, {})
<1>1. Cardinality({}) = 0
  BY FS_EmptySet
<1>. DEFINE f == [ i \in 1 .. 0 |-> i ]
<1>2. f \in [1 .. Cardinality({}) -> {}]
  BY <1>1
<1>3. [ i \in 1 .. Cardinality({}) |-> j.table[f[i]] ] \in Orders(j, {})
  BY <1>2, OrderedBy
<1>4. [ i \in 1 .. Cardinality({}) |-> j.table[f[i]] ] = <<>>
  BY <1>1
<1>. QED
  BY <1>3, <1>4

\* A row that joins a group is appended to an order of its rows.
LEMMA JoiningItems ==
  ASSUME NEW j, JoinFits(j), NEW r \in DOMAIN j.table, GroupsOK(j, groups, r), ItemsSay(j, groups, r),
         j.table[r].keep, KeyFate(j.cmps, j.table[r].key) = "kept"
  PROVE  ItemsSay(j, Joining(j, j.table[r], r), r + 1)
<1>. SUFFICES ASSUME ItemFits(j),
                     NEW k \in DOMAIN Joining(j, j.table[r], r)
              PROVE  Joining(j, j.table[r], r)[k] \in Orders(j, ReadBefore(j, k, r + 1))
  BY DEF ItemsSay
<1>. DEFINE key == CanonKey(j.table[r].key)
            g == IF key \in DOMAIN groups THEN groups[key] ELSE <<>>
<1>1. r \in Matchable(j) /\ j.build.how = "item" /\ ~ Plain(j.build.how)
  BY DEF Matchable, ItemFits, Plain
<1>2. Joining(j, j.table[r], r) =
        [ q \in DOMAIN groups \union {key} |-> IF q = key THEN Append(g, j.table[r]) ELSE groups[q] ]
  BY <1>1 DEF Joining, Fresh
<1>3. r \notin ReadBefore(j, key, r)
      /\ \A q : ReadBefore(j, q, r + 1) = IF q = key THEN ReadBefore(j, q, r) \union {r} ELSE ReadBefore(j, q, r)
  BY <1>1, ReadBeforeAdds
<1>4. DOMAIN groups = KeysBefore(j, r) /\ \A q \in DOMAIN groups : groups[q] \in Orders(j, ReadBefore(j, q, r))
  BY <1>1 DEF GroupsOK, ItemsSay
<1>5. g \in Orders(j, ReadBefore(j, key, r))
  <2>1. CASE key \in DOMAIN groups
    BY <1>4, <2>1
  <2>2. CASE key \notin DOMAIN groups
    <3>1. ReadBefore(j, key, r) = {}
      BY <1>4, <2>2 DEF KeysBefore, ReadBefore, RowsOf
    <3>. QED
      BY <2>2, <3>1, EmptyOrder
  <2>. QED
    BY <2>1, <2>2
<1>6. IsFiniteSet(ReadBefore(j, key, r))
  <2>1. ReadBefore(j, key, r) \in SUBSET RowsOf(j, key)
    BY DEF ReadBefore
  <2>2. IsFiniteSet(RowsOf(j, key))
    BY RowsOfAKey
  <2>. QED
    BY <2>1, <2>2, FS_Subset
<1>. HIDE DEF g
<1>7. CASE k = key
  <2>. HIDE DEF key
  <2>1. Append(g, j.table[r]) \in Orders(j, ReadBefore(j, key, r) \union {r})
    BY <1>3, <1>5, <1>6, AppendedOrder
  <2>. QED
    BY <1>2, <1>3, <1>7, <2>1
<1>8. CASE k # key
  <2>. HIDE DEF key
  <2>. QED
    BY <1>2, <1>3, <1>4, <1>8
<1>. QED
  BY <1>7, <1>8

\* A row that joins none leaves the groups' orders.
LEMMA DroppingItems ==
  ASSUME NEW j, JoinFits(j), NEW r \in DOMAIN j.table, ItemsSay(j, groups, r),
         ~ j.table[r].keep \/ KeyFate(j.cmps, j.table[r].key) # "kept"
  PROVE  ItemsSay(j, groups, r + 1)
<1>1. r \notin Matchable(j)
  BY DEF Matchable
<1>2. ASSUME NEW q PROVE ReadBefore(j, q, r + 1) = ReadBefore(j, q, r)
  BY <1>1, ReadBeforeKeeps
<1>. QED
  BY <1>2 DEF ItemsSay

\* The groups of a table not begun have no rows.
LEMMA StartedItems ==
  ASSUME NEW j, JoinFits(j)
  PROVE  ItemsSay(j, Started(j), 1)
<1>. SUFFICES ASSUME ItemFits(j), NEW key \in DOMAIN Started(j)
              PROVE  Started(j)[key] \in Orders(j, ReadBefore(j, key, 1))
  BY DEF ItemsSay
<1>1. Started(j)[key] = <<>>
  BY DEF Started, Fresh, ItemFits
<1>2. RowsOf(j, key) \subseteq Nat \ {0}
  BY RowsOfAKey
<1>3. ReadBefore(j, key, 1) = {}
  BY <1>2 DEF ReadBefore
<1>. QED
  BY <1>1, <1>3, EmptyOrder

-----------------------------------------------------------------------------
(* The tables of groups.                                                   *)

\* The groups of the table half built say what was read; and in a table built, what is
\* no sum of doubles is DuckDB's, in each of its orders.
GroupIsOrderFree(j, table) ==
  ~ Plain(j.build.how) /\ ~ DoubleSum(j.build) =>
    \A i \in DOMAIN table : \A x \in DuckAnswers(j, table[i].key) : Agrees(j.build, table[i], x)
SaysOK == Len(tables) < Len(Joins) => GroupsSay(J, groups, at) /\ ItemsSay(J, groups, at)
FreeOK == \A k \in 1 .. Len(tables) : GroupIsOrderFree(Joins[k], tables[k])

\* Every plan's groups are what the binder makes of a subquery.
LEMMA GroupsFit ==
  ASSUME plan \in Plans, NEW k \in 1 .. Len(Joins)
  PROVE  /\ ExactAggs(Joins[k]) => AggFits(Joins[k])
         /\ Joins[k].build.how = "item" => ItemFits(Joins[k])
         /\ Joins[k].build.how \in {"map", "rows", "aggs", "item"}
<1>1. DOMAIN Joins = 1 .. Len(Joins) /\ JoinFits(Joins[k]) /\ BuildFits(Joins[k])
  BY PlansFit, BuildsFit
<1>2. /\ Joins[k].build.how = "aggs" => FitsAggregate(Joins[k])
      /\ Joins[k].build.how = "item" => FitsOrder(Joins[k])
      /\ Joins[k].table \in Seq(SourceRows)
  BY <1>1, PlansAssumption DEF Joins
<1>3. ASSUME NEW r \in DOMAIN Joins[k].table PROVE Joins[k].table[r].ord \in Int \union {Null}
  <2>. DEFINE t == Joins[k].table
  <2>1. t \in Seq(SourceRows)
    BY <1>2
  <2>. HIDE DEF t
  <2>2. DOMAIN t = 1 .. Len(t)
    BY <2>1, LenProperties
  <2>3. r \in 1 .. Len(t)
    BY <1>3, <2>2 DEF t
  <2>4. t[r] \in SourceRows
    BY <2>1, <2>3, ElementOfSeq
  <2>. QED
    BY <2>4 DEF t, SourceRows
<1>4. Joins[k].build.how \in {"map", "rows", "aggs", "item"}
  BY <1>1 DEF BuildFits, Builds
<1>. QED
  BY <1>1, <1>2, <1>3, <1>4 DEF AggFits, ExactAggs, ItemFits

\* One group of a table that is made agrees with DuckDB.
LEMMA GroupAgrees ==
  ASSUME NEW j, AggFits(j) \/ ItemFits(j), GroupsOK(j, groups, Len(j.table) + 1),
         GroupsSay(j, groups, Len(j.table) + 1), ItemsSay(j, groups, Len(j.table) + 1),
         NEW key \in DOMAIN groups, ~ GroupRefused(j, key),
         NEW group, group.val = GroupAnswer(j, key), NEW x \in DuckAnswers(j, key)
  PROVE  Agrees(j.build, group, x)
<1>1. JoinFits(j) /\ Len(j.table) \in Nat /\ DOMAIN j.table = 1 .. Len(j.table)
  BY DEF AggFits, ItemFits, JoinFits
<1>2. ReadBefore(j, key, Len(j.table) + 1) = RowsOf(j, key)
  <2>1. RowsOf(j, key) \subseteq 1 .. Len(j.table)
    BY <1>1, RowsOfAKey
  <2>. QED
    BY <1>1, <2>1 DEF ReadBefore
<1>3. CASE AggFits(j)
  <2>1. j.build.how = "aggs"
    BY <1>3 DEF AggFits, ExactAggs
  <2>2. ~ Refused(j.build, groups[key]) /\ Item(j.build, AnswerOf(j.build, groups[key])) # Trap
        /\ group.val = Item(j.build, AnswerOf(j.build, groups[key]))
    BY <2>1 DEF GroupRefused, GroupAnswer
  <2>3. AccSays(j, groups[key], RowsOf(j, key))
    BY <1>2, <1>3 DEF GroupsSay
  <2>. QED
    BY <1>3, <2>2, <2>3, AggregatesAgree
<1>4. CASE ItemFits(j)
  <2>1. j.build.how = "item"
    BY <1>4 DEF ItemFits
  <2>2. groups[key] \in Orders(j, RowsOf(j, key)) /\ ~ RowsRefused(j, groups[key])
    BY <1>2, <1>4, <2>1 DEF ItemsSay, GroupRefused
  <2>3. PICK rows \in Orders(j, RowsOf(j, key)) : x = DuckItem(j, rows)
    BY <2>1 DEF DuckAnswers, DuckAnswer
  <2>4. group.val = LET kept == KeptRow(j, groups[key])
                    IN IF kept = <<>> THEN Null ELSE Item(j.build, kept[1].val)
    BY <2>1 DEF GroupAnswer
  <2>5. RowsOf(j, key) \subseteq DOMAIN j.table /\ IsFiniteSet(RowsOf(j, key))
    BY <1>1, RowsOfAKey
  <2>6. x = group.val
    BY <1>4, <2>2, <2>3, <2>4, <2>5, ItemsAgree
  <2>. QED
    BY <2>1, <2>6 DEF Agrees, DoubleSum
<1>. QED
  BY <1>3, <1>4

\* So does the table.
LEMMA GroupsAreFree ==
  ASSUME NEW j, AggFits(j) \/ ItemFits(j), GroupsOK(j, groups, Len(j.table) + 1),
         GroupsSay(j, groups, Len(j.table) + 1), ItemsSay(j, groups, Len(j.table) + 1), ~ TableRefused(j)
  PROVE  GroupIsOrderFree(j, TableOf(j))
<1>. DEFINE t == TableOf(j)
            D == DOMAIN groups
            ks == InAnyOrder(D)
            n == Cardinality(D)
            B(i) == IF j.build.how = "aggs" THEN BoundAnswer(j.build, groups[ks[i]]) ELSE 0
            G(i) == GroupAnswer(j, ks[i])
<1>1. ~ Plain(j.build.how)
  BY DEF AggFits, ExactAggs, ItemFits, Plain
<1>2. t = [ i \in DOMAIN ks |-> [key |-> ks[i], val |-> G(i), row |-> i, bound |-> B(i)] ]
  BY <1>1 DEF TableOf
<1>3. IsFiniteSet(D)
  BY <1>1 DEF GroupsOK
<1>4. \A key \in D : ~ GroupRefused(j, key)
  BY <1>1 DEF TableRefused
<1>. HIDE DEF D
<1>5. ks \in [1 .. n -> D]
  BY <1>3, InAnyOrderIsOnto
<1>6. ASSUME NEW i \in DOMAIN t, NEW x \in DuckAnswers(j, t[i].key)
      PROVE  Agrees(j.build, t[i], x)
  <2>. DEFINE key == ks[i]
              group == t[i]
  <2>. HIDE DEF t, ks, n, B
  <2>1. group.key = key /\ group.val = GroupAnswer(j, key) /\ key \in D
    BY <1>2, <1>5, <1>6
  <2>2. x \in DuckAnswers(j, key)
    BY <1>6, <2>1
  <2>. HIDE DEF key, group
  <2>3. Agrees(j.build, group, x)
    BY <1>4, <2>1, <2>2, GroupAgrees DEF D
  <2>. QED
    BY <2>3 DEF group
<1>. QED
  BY <1>6 DEF GroupIsOrderFree

\* Finishing a table keeps both.
LEMMA FinishKeepsFree ==
  ASSUME BuildInv, SaysOK, FreeOK, FinishTable
  PROVE  SaysOK' /\ FreeOK'
<1>1. /\ plan' = plan /\ plan \in Plans /\ Joins' = Joins
      /\ Len(tables) < Len(Joins) /\ tables \in Seq(Range(tables))
      /\ at > Len(J.table) /\ at \in Nat \ {0} /\ GroupsOK(J, groups, at)
      /\ GroupsSay(J, groups, at) /\ ItemsSay(J, groups, at)
  BY DEF FinishTable, Building, BuildInv, SaysOK, Joins
<1>2. Len(Joins) \in Nat /\ Len(tables) \in Nat /\ Len(tables) + 1 \in 1 .. Len(Joins)
  <2>1. Len(tables) \in Nat /\ Len(Joins) \in Nat
    BY <1>1, PlansFit, LenProperties
  <2>. QED
    BY <1>1, <2>1
<1>3. JoinFits(J) /\ J = Joins[Len(tables) + 1]
  BY <1>1, <1>2, PlansFit DEF J
<1>4. GroupsOK(J, groups, Len(J.table) + 1) /\ GroupsSay(J, groups, Len(J.table) + 1)
      /\ ItemsSay(J, groups, Len(J.table) + 1)
  <2>1. Matchable(J) \subseteq 1 .. Len(J.table) /\ Len(J.table) \in Nat
    BY <1>3 DEF Matchable, JoinFits
  <2>2. { r \in Matchable(J) : r < at } = { r \in Matchable(J) : r < Len(J.table) + 1 }
    BY <1>1, <2>1
  <2>3. ASSUME NEW key PROVE ReadBefore(J, key, at) = ReadBefore(J, key, Len(J.table) + 1)
    <3>1. RowsOf(J, key) \subseteq 1 .. Len(J.table)
      BY <1>3, RowsOfAKey DEF JoinFits
    <3>. QED
      BY <1>1, <2>1, <3>1 DEF ReadBefore
  <2>. QED
    BY <1>1, <2>2, <2>3 DEF GroupsOK, KeysBefore, GroupsSay, ItemsSay
<1>5. CASE TableRefused(J)
  <2>1. tables' = tables /\ at' = at /\ groups' = groups
    BY <1>5 DEF FinishTable
  <2>2. J' = J
    BY <1>1, <2>1 DEF J
  <2>. QED
    BY <1>1, <2>1, <2>2 DEF SaysOK, FreeOK
<1>6. CASE ~ TableRefused(J)
  <2>1. tables' = Append(tables, TableOf(J)) /\ at' = 1 /\ groups' = StartOf(Len(tables) + 2, Joins)
    BY <1>6 DEF FinishTable
  <2>2. /\ Len(tables') = Len(tables) + 1
        /\ \A k \in 1 .. Len(tables) : tables'[k] = tables[k]
        /\ tables'[Len(tables) + 1] = TableOf(J)
    BY <1>1, <2>1, AppendedSequence
  <2>3. GroupIsOrderFree(J, TableOf(J))
    <3>1. CASE ExactAggs(J) \/ J.build.how = "item"
      <4>1. AggFits(J) \/ ItemFits(J)
        BY <1>1, <1>2, <1>3, <3>1, GroupsFit
      <4>. QED
        BY <1>4, <1>6, <4>1, GroupsAreFree
    <3>2. CASE ~ ExactAggs(J) /\ J.build.how # "item"
      <4>1. J.build.how \in {"map", "rows", "aggs", "item"}
        BY <1>1, <1>2, <1>3, GroupsFit
      <4>. QED
        BY <3>2, <4>1 DEF GroupIsOrderFree, ExactAggs, DoubleSum, Floats, Plain
    <3>. QED
      BY <3>1, <3>2
  <2>4. \A k \in 1 .. Len(tables) + 1 : GroupIsOrderFree(Joins[k], tables'[k])
    BY <1>2, <1>3, <2>2, <2>3 DEF FreeOK
  <2>5. ASSUME Len(tables') < Len(Joins) PROVE GroupsSay(J', groups', at') /\ ItemsSay(J', groups', at')
    <3>1. Len(tables) + 2 \in 1 .. Len(Joins) /\ J' = Joins[Len(tables) + 2]
      BY <1>1, <1>2, <2>2, <2>5 DEF J
    <3>2. groups' = Started(J')
      BY <2>1, <3>1 DEF StartOf
    <3>. QED
      BY <1>1, <2>1, <3>1, <3>2, PlansFit, StartedSays, StartedItems
  <2>. QED
    BY <1>1, <2>2, <2>4, <2>5 DEF SaysOK, FreeOK
<1>. QED
  BY <1>5, <1>6

\* So does reading a row.
LEMMA ReadRowKeepsSays ==
  ASSUME BuildInv, SaysOK, FreeOK, ReadRow
  PROVE  SaysOK' /\ FreeOK'
<1>1. /\ plan' = plan /\ tables' = tables /\ at' = at + 1 /\ Joins' = Joins /\ J' = J
      /\ Len(tables) < Len(Joins) /\ at <= Len(J.table) /\ at \in Nat \ {0}
      /\ GroupsOK(J, groups, at)
      /\ GroupsSay(J, groups, at) /\ ItemsSay(J, groups, at)
  BY DEF ReadRow, Building, BuildInv, SaysOK, J, Joins
<1>2. JoinFits(J) /\ at \in DOMAIN J.table
  <2>1. Len(tables) + 1 \in 1 .. Len(Joins)
    <3>1. Len(tables) \in Nat /\ Len(Joins) \in Nat
      BY PlansFit, LenProperties DEF BuildInv
    <3>. QED
      BY <1>1, <3>1
  <2>2. JoinFits(J)
    BY <2>1, PlansFit DEF BuildInv, J
  <2>. QED
    BY <1>1, <2>2 DEF JoinFits
<1>3. GroupsSay(J, groups', at + 1) /\ ItemsSay(J, groups', at + 1)
  <2>1. CASE J.table[at].keep /\ KeyFate(J.cmps, J.table[at].key) = "kept"
    <3>1. groups' = Joining(J, J.table[at], at)
      BY <2>1 DEF ReadRow, SourceRow
    <3>. QED
      BY <1>1, <1>2, <2>1, <3>1, JoiningSays, JoiningItems
  <2>2. CASE ~ J.table[at].keep \/ KeyFate(J.cmps, J.table[at].key) # "kept"
    <3>1. groups' = groups
      BY <2>2 DEF ReadRow, SourceRow
    <3>. QED
      BY <1>1, <1>2, <2>2, <3>1, DroppingSays, DroppingItems
  <2>. QED
    BY <2>1, <2>2
<1>. QED
  BY <1>1, <1>3 DEF SaysOK, FreeOK

\* And so does every other step.
LEMMA FreeOKKept ==
  ASSUME RowInv, SaysOK, FreeOK, [Next]_vars
  PROVE  SaysOK' /\ FreeOK'
<1>1. BuildInv
  BY DEF RowInv, StaticOK
<1>2. CASE UNCHANGED <<plan, tables, at, groups>>
  <2>1. Joins' = Joins /\ J' = J
    BY <1>2 DEF J, Joins
  <2>. QED
    BY <1>2, <2>1 DEF SaysOK, FreeOK
<1>3. FinishTable \/ ReadRow \/ UNCHANGED <<plan, tables, at, groups>>
  <2>1. CASE Build
    BY <2>1 DEF Build, BuildNext
  <2>2. CASE Prepare
    BY <2>2 DEF Prepare, buildVars
  <2>3. CASE \/ Serve \/ Entry \/ Header \/ Body \/ After \/ Done
             \/ FoldHeader \/ FoldBody \/ ProbeMap \/ EmitRow \/ DropRow
    BY <2>3 DEF Serve, Entry, Header, HeaderTest, Body, After, Done, Continue, Open, FoldHeader,
                FoldBody, ProbeMap, EmitRow, DropRow, Leave, buildVars
  <2>4. CASE UNCHANGED vars
    BY <2>4 DEF vars
  <2>. QED
    BY <2>1, <2>2, <2>3, <2>4 DEF Next, RowNext
<1>. QED
  BY <1>1, <1>2, <1>3, FinishKeepsFree, ReadRowKeepsSays

\* Before the first table nothing has been read and no table answered.
LEMMA FreeStarts ==
  ASSUME Init
  PROVE  SaysOK /\ FreeOK
<1>1. plan \in Plans /\ tables = <<>> /\ at = 1 /\ groups = StartOf(1, Joins)
  BY DEF Init, BuildInit, Joins
<1>2. Len(Joins) \in Nat /\ \A k \in 1 .. Len(Joins) : JoinFits(Joins[k])
  BY <1>1, PlansFit
<1>3. Len(tables) = 0
  BY <1>1
<1>4. ASSUME Len(tables) < Len(Joins) PROVE GroupsSay(J, groups, at) /\ ItemsSay(J, groups, at)
  <2>1. J = Joins[1] /\ 1 <= Len(Joins) /\ 1 \in 1 .. Len(Joins)
    BY <1>2, <1>3, <1>4 DEF J
  <2>2. groups = Started(J)
    BY <1>1, <2>1 DEF StartOf
  <2>. QED
    BY <1>1, <1>2, <2>1, <2>2, StartedSays, StartedItems
<1>. QED
  BY <1>3, <1>4 DEF SaysOK, FreeOK

\* A build that is let through answers what DuckDB answers, whatever the order it reads
\* the table in, unless it is a sum or an avg of doubles: a map, a scan; count, min, max,
\* bool_and, bool_or, the bit aggregates, the sum and avg of integers, over DISTINCT values
\* or all; an item of the one row that ORDER BY, LIMIT and OFFSET keep; and any item over
\* them. A min or max that only comparisons read may be spelt otherwise, but is equal
\* (materialize_map, materialize_aggs, materialize_rows).
THEOREM BuildsButDoubleSumsAreOrderFree ==
  Spec => [](Finished /\ ~ DoubleSum(LastJoin.build) => BuildIsOrderFree)
<1>1. Init => RowInv /\ WholeOK /\ CauseOK /\ SaysOK /\ FreeOK
  BY RowStarts, WholeStarts, FreeStarts
<1>2. RowInv /\ WholeOK /\ CauseOK /\ SaysOK /\ FreeOK /\ [Next]_vars
        => (RowInv /\ WholeOK /\ CauseOK /\ SaysOK /\ FreeOK)'
  BY RowInvKept, WholeOKKept, FreeOKKept
<1>3. RowInv /\ WholeOK /\ FreeOK
        => (Finished /\ ~ DoubleSum(LastJoin.build) => BuildIsOrderFree)
  <2>. SUFFICES ASSUME RowInv, WholeOK, FreeOK, Finished, ~ DoubleSum(LastJoin.build)
                PROVE  BuildIsOrderFree
    OBVIOUS
  <2>1. TablesAreWhole /\ ScansAreOrderFree
    BY LastIsWhole
  <2>2. Len(tables) \in 1 .. Len(tables)
    <3>1. tables \in Seq(Range(tables))
      BY DEF RowInv, StaticOK, BuildInv
    <3>2. Len(tables) \in Nat /\ Len(tables) # 0
      BY <3>1, EmptySeq, LenProperties DEF Finished
    <3>. QED
      BY <3>2
  <2>3. GroupIsOrderFree(LastJoin, LastTable)
    BY <2>2 DEF FreeOK, LastJoin, LastTable
  <2>4. GroupsAreOrderFree
    BY <2>3 DEF GroupsAreOrderFree, GroupIsOrderFree
  <2>. QED
    BY <2>1, <2>4 DEF BuildIsOrderFree
<1>. QED
  BY <1>1, <1>2, <1>3, PTL DEF Spec

-----------------------------------------------------------------------------
(* Why the group of an item is refused.                                    *)

\* Two rows change places.
Swapped(rows, a, c) == [i \in DOMAIN rows |-> IF i = a THEN rows[c] ELSE IF i = c THEN rows[a] ELSE rows[i]]

\* That is another order of the rows.
LEMMA SwappedOrder ==
  ASSUME NEW j, NEW S, NEW rows \in Orders(j, S), NEW a \in DOMAIN rows, NEW c \in DOMAIN rows
  PROVE  Swapped(rows, a, c) \in Orders(j, S)
<1>. DEFINE n == Cardinality(S)
<1>1. PICK f \in [1 .. n -> S] : /\ rows = [ i \in 1 .. n |-> j.table[f[i]] ]
                                 /\ \A r \in S : \E i \in 1 .. n : f[i] = r
  BY OrdersOf
<1>. DEFINE g == [ i \in 1 .. n |-> IF i = a THEN f[c] ELSE IF i = c THEN f[a] ELSE f[i] ]
<1>2. DOMAIN rows = 1 .. n /\ a \in 1 .. n /\ c \in 1 .. n
  BY <1>1
<1>. HIDE DEF n
<1>3. g \in [1 .. n -> S]
  BY <1>1, <1>2
<1>4. ASSUME NEW r \in S PROVE \E i \in 1 .. n : g[i] = r
  <2>1. PICK i \in 1 .. n : f[i] = r
    BY <1>1
  <2>2. CASE i = a
    <3>1. g[c] = r
      BY <1>2, <2>1, <2>2
    <3>. QED
      BY <1>2, <3>1
  <2>3. CASE i # a /\ i = c
    <3>1. g[a] = r
      BY <1>2, <2>1, <2>3
    <3>. QED
      BY <1>2, <3>1
  <2>4. CASE i # a /\ i # c
    BY <2>1, <2>4
  <2>. QED
    BY <2>2, <2>3, <2>4
<1>5. Swapped(rows, a, c) = [ i \in 1 .. n |-> j.table[g[i]] ]
  <2>1. \A i \in 1 .. n : rows[i] = j.table[f[i]]
    BY <1>1
  <2>2. \A i \in 1 .. n : (IF i = a THEN rows[c] ELSE IF i = c THEN rows[a] ELSE rows[i]) = j.table[g[i]]
    BY <1>2, <2>1
  <2>. HIDE DEF g
  <2>. QED
    BY <1>2, <2>2 DEF Swapped
<1>. HIDE DEF g
<1>. QED
  BY <1>3, <1>4, <1>5, OrderedBy DEF n

\* Some order has a row first.
LEMMA LedOrder ==
  ASSUME NEW j, NEW S, IsFiniteSet(S), NEW r \in S
  PROVE  \E rows \in Orders(j, S) : rows[1] = j.table[r]
<1>. DEFINE n == Cardinality(S)
            f == InAnyOrder(S)
            rows == [ i \in 1 .. n |-> j.table[f[i]] ]
<1>1. f \in [1 .. n -> S] /\ n \in Nat /\ \A x \in S : \E i \in 1 .. n : f[i] = x
  BY InAnyOrderIsOnto
<1>2. rows \in Orders(j, S)
  <2>. HIDE DEF f
  <2>. QED
    BY <1>1, OrderedBy
<1>. HIDE DEF f
<1>3. PICK i \in 1 .. n : f[i] = r
  BY <1>1
<1>4. 1 \in DOMAIN rows /\ i \in DOMAIN rows /\ rows[i] = j.table[r]
  BY <1>1, <1>3
<1>. HIDE DEF rows
<1>5. Swapped(rows, 1, i) \in Orders(j, S)
  BY <1>2, <1>4, SwappedOrder
<1>6. Swapped(rows, 1, i)[1] = j.table[r]
  BY <1>4 DEF Swapped
<1>. QED
  BY <1>5, <1>6

\* Rows that are tied are ahead of the same rows.
LEMMA TiedAlike ==
  ASSUME NEW b \in Builds, NEW x, NEW y, NEW x2, NEW y2,
         SortNumber(b, x), SortNumber(b, y), SortNumber(b, x2), SortNumber(b, y2), Tied(b, x, x2), Tied(b, y, y2)
  PROVE  Ahead(b, x, y) => Ahead(b, x2, y2)
<1>1. ~ Ahead(b, x, x2) /\ ~ Ahead(b, y2, y)
  BY DEF Tied
<1>2. Ahead(b, x, y) => Ahead(b, x2, y)
  BY <1>1, AheadIsWeak
<1>3. Ahead(b, x2, y) /\ ~ Ahead(b, x2, y2) => Ahead(b, y2, y)
  BY AheadIsWeak
<1>. QED
  BY <1>1, <1>2, <1>3

\* A build that would keep several rows of a group would have DuckDB answer several.
LEMMA ManyAreKept ==
  ASSUME NEW j, FitsOrder(j), NEW n \in Nat, KeptCount(j, n) > 1
  PROVE  Cardinality(KeptNumbers(j, n)) > 1
<1>. DEFINE l == j.build.limit
            o == j.build.offset
            rest == IF n > o THEN n - o ELSE 0
            keyed == j.cmps # <<>>
            last == LastKept(j, n)
            nums == KeptNumbers(j, n)
<1>1. l \in Int /\ -1 <= l /\ l <= MaxLong /\ o \in Nat /\ MaxLong \in Nat /\ rest \in Nat
  BY BuildAssumption DEF FitsOrder
<1>2. Wraps(j) <=> keyed /\ l >= 0 /\ o + l > MaxLong
  BY DEF Wraps
<1>3. KeptCount(j, n) = (IF Wraps(j) THEN 0 ELSE IF l >= 0 /\ l < rest THEN l ELSE rest)
  BY DEF KeptCount
<1>4. last = (IF l < 0 THEN n ELSE IF Wraps(j) THEN o + l - 2 * (MaxLong + 1) ELSE o + l)
  BY <1>1, <1>2 DEF LastKept
<1>5. nums = { i \in 1 .. n : o < i /\ i <= last }
  BY DEF KeptNumbers
<1>. HIDE DEF l, o, last, keyed, nums
<1>6. ~ Wraps(j)
  BY <1>3
<1>7. o + 1 \in 1 .. n /\ o + 2 \in 1 .. n /\ o + 2 <= last
  <2>1. CASE l >= 0 /\ l < rest
    BY <1>1, <1>3, <1>4, <1>6, <2>1
  <2>2. CASE ~ (l >= 0 /\ l < rest)
    <3>1. rest > 1 /\ n > o /\ rest = n - o
      BY <1>3, <1>6, <2>2
    <3>2. l >= 0 => l >= rest
      BY <1>1, <2>2
    <3>. HIDE DEF rest
    <3>. QED
      BY <1>1, <1>4, <1>6, <3>1, <3>2
  <2>. QED
    BY <2>1, <2>2
<1>8. {o + 1, o + 2} \subseteq nums
  BY <1>1, <1>4, <1>5, <1>7
<1>. DEFINE a == o + 1
            c == o + 2
<1>9. a # c /\ {a, c} \subseteq nums
  BY <1>1, <1>8
<1>. HIDE DEF a, c
<1>10. Cardinality({a, c}) = 2
  <2>1. IsFiniteSet({a}) /\ Cardinality({a}) = 1 /\ c \notin {a} /\ {a, c} = {a} \union {c}
    BY <1>9, FS_Singleton
  <2>. QED
    BY <2>1, FS_AddElement
<1>11. IsFiniteSet(nums)
  <2>1. nums \in SUBSET (1 .. n) /\ IsFiniteSet(1 .. n)
    BY <1>5, FS_Interval
  <2>. QED
    BY <2>1, FS_Subset
<1>12. Cardinality({a, c}) <= Cardinality(nums) /\ Cardinality(nums) \in Nat
  BY <1>9, <1>11, FS_Subset, FS_CardinalityType
<1>. QED
  BY <1>10, <1>12 DEF nums

\* The item DuckDB answers of the one row kept, if no item traps.
LEMMA ItemIs ==
  ASSUME NEW j, FitsOrder(j), NEW n \in Nat, NEW rows, DOMAIN rows = 1 .. n, Len(rows) = n,
         \A i \in 1 .. n : Item(j.build, rows[i].val) # Trap, ~ (KeptCount(j, n) > 1), KeptCount(j, n) # 0
  PROVE  /\ j.build.offset + 1 \in 1 .. n
         /\ DuckItem(j, rows) = Item(j.build, Ordered(j.build, rows)[j.build.offset + 1].val)
<1>. DEFINE b == j.build
            o == j.build.offset
<1>1. DuckItem(j, rows) = LET traps == \E i \in 1 .. n : Item(b, rows[i].val) = Trap
                              k == KeptNumbers(j, n)
                          IN CASE traps \/ Cardinality(k) > 1 -> Trap
                               [] ~ traps /\ k = {} -> Null
                               [] OTHER -> Item(b, Ordered(b, rows)[CHOOSE i \in k : TRUE].val)
  BY DEF DuckItem, KeptNumbers, LastKept
<1>2. o + 1 \in 1 .. n /\ KeptNumbers(j, n) = {o + 1}
  BY OneRowIsKept
<1>. DEFINE m == o + 1
<1>3. m \in 1 .. n /\ KeptNumbers(j, n) = {m}
  BY <1>2
<1>. HIDE DEF m
<1>4. Cardinality({m}) = 1 /\ (CHOOSE i \in {m} : TRUE) = m /\ ~ (Cardinality({m}) > 1)
  <2>1. Cardinality({m}) = 1
    BY FS_Singleton
  <2>. QED
    BY <2>1
<1>. HIDE DEF b
<1>5. DuckItem(j, rows) = Item(b, Ordered(b, rows)[m].val)
  BY <1>1, <1>3, <1>4 DEF b
<1>. QED
  BY <1>2, <1>5 DEF b, m

\* Tied rows that change places take each other's place in the sorted order.
LEMMA TiesSwap ==
  ASSUME NEW b, NEW rows, NEW n, Sortable(b, rows, n), NEW r \in 1 .. n, NEW s \in 1 .. n,
         Tied(b, rows[r], rows[s]), NEW m \in 1 .. n, Cardinality(Firsts(b, rows, s)) = m - 1
  PROVE  Ordered(b, Swapped(rows, r, s))[m] = rows[r]
<1>. DEFINE t == Swapped(rows, r, s)
<1>1. b \in Builds /\ n \in Nat /\ DOMAIN rows = 1 .. n /\ \A i \in 1 .. n : SortNumber(b, rows[i])
  BY DEF Sortable
<1>2. /\ DOMAIN t = 1 .. n /\ t[s] = rows[r]
      /\ \A i \in 1 .. n : t[i] = IF i = r THEN rows[s] ELSE IF i = s THEN rows[r] ELSE rows[i]
  BY <1>1 DEF Swapped
<1>. HIDE DEF t
<1>3. \A i \in 1 .. n : ~ Ahead(b, rows[i], rows[i])
  BY <1>1, AheadIsWeak
<1>4. \A i \in 1 .. n : SortNumber(b, t[i]) /\ Tied(b, t[i], rows[i]) /\ Tied(b, rows[i], t[i])
  <2>. TAKE i \in 1 .. n
  <2>1. Tied(b, rows[s], rows[r]) /\ Tied(b, rows[i], rows[i])
    BY <1>3 DEF Tied
  <2>. QED
    BY <1>1, <1>2, <2>1
<1>5. Sortable(b, t, n)
  BY <1>1, <1>2, <1>4 DEF Sortable
<1>6. ASSUME NEW i \in 1 .. n, NEW k \in 1 .. n PROVE Ahead(b, t[i], t[k]) <=> Ahead(b, rows[i], rows[k])
  <2>1. Ahead(b, t[i], t[k]) => Ahead(b, rows[i], rows[k])
    BY <1>1, <1>4, TiedAlike
  <2>2. Ahead(b, rows[i], rows[k]) => Ahead(b, t[i], t[k])
    BY <1>1, <1>4, TiedAlike
  <2>. QED
    BY <2>1, <2>2
<1>7. \A i, k \in 1 .. n : Goes(b, t, i, k) <=> Goes(b, rows, i, k)
  BY <1>6 DEF Goes, Tied
<1>8. Firsts(b, t, s) = Firsts(b, rows, s)
  BY <1>1, <1>2, <1>7 DEF Firsts
<1>9. PICK q \in 1 .. n : Ordered(b, t)[m] = t[q] /\ Cardinality(Firsts(b, t, q)) = m - 1
  BY <1>5, PlacesAreTaken
<1>10. q = s
  BY <1>5, <1>8, <1>9, FirstsDiffer
<1>. QED
  BY <1>2, <1>9, <1>10 DEF t

\* A group of rows is refused for an item that traps, for the rows it would keep, or
\* for two orders that keep rows of different items.
LEMMA ItemsRefusedForCause ==
  ASSUME NEW j, ItemFits(j), NEW R, R \subseteq DOMAIN j.table, IsFiniteSet(R),
         NEW kept \in Orders(j, R), RowsRefused(j, kept)
  PROVE  \/ DuckItem(j, kept) = Trap
         \/ \E p \in Orders(j, R) : DuckItem(j, p) # DuckItem(j, kept)
<1>. DEFINE n == Cardinality(R)
            b == j.build
            o == j.build.offset
<1>1. FitsOrder(j) /\ b \in Builds
  BY DEF ItemFits, BuildFits
<1>2. ASSUME NEW s \in Orders(j, R)
      PROVE  /\ DOMAIN s = 1 .. n /\ Len(s) = n /\ n \in Nat
             /\ \A i \in 1 .. n : \E r \in R : s[i] = j.table[r]
             /\ \A r \in R : \E i \in 1 .. n : s[i] = j.table[r]
  <2>1. PICK f : /\ Numbered(n, f, R) /\ DOMAIN s = 1 .. n /\ Len(s) = n
                 /\ \A i \in 1 .. n : s[i] = j.table[f[i]]
    BY OrdersNumber
  <2>. QED
    BY <2>1 DEF Numbered
<1>. HIDE DEF n
<1>3. DOMAIN kept = 1 .. n /\ Len(kept) = n /\ n \in Nat
  BY <1>2
<1>4. DuckItem(j, kept) = LET traps == \E i \in 1 .. n : Item(b, kept[i].val) = Trap
                              k == KeptNumbers(j, n)
                          IN CASE traps \/ Cardinality(k) > 1 -> Trap
                               [] ~ traps /\ k = {} -> Null
                               [] OTHER -> Item(b, Ordered(b, kept)[CHOOSE i \in k : TRUE].val)
  BY <1>3 DEF DuckItem, KeptNumbers, LastKept
<1>5. CASE \E i \in 1 .. n : Item(b, kept[i].val) = Trap
  BY <1>4, <1>5
<1>6. CASE KeptCount(j, n) > 1
  <2>1. Cardinality(KeptNumbers(j, n)) > 1
    BY <1>1, <1>3, <1>6, ManyAreKept
  <2>2. KeptNumbers(j, n) # {}
    BY <2>1, FS_EmptySet
  <2>. QED
    BY <1>4, <2>1, <2>2
<1>7. CASE ~ (\E i \in 1 .. n : Item(b, kept[i].val) = Trap) /\ ~ (KeptCount(j, n) > 1)
  <2>1. KeptRow(j, kept) = IF KeptCount(j, n) = 0 THEN <<>> ELSE <<Ordered(b, kept)[o + 1]>>
    BY <1>3 DEF KeptRow
  <2>2. KeptCount(j, n) # 0 /\ \E r \in 1 .. n :
          /\ Tied(b, kept[r], KeptRow(j, kept)[1])
          /\ Item(b, kept[r].val) # Item(b, KeptRow(j, kept)[1].val)
    <3>1. KeptRow(j, kept) # <<>> /\ \E r \in 1 .. n :
            /\ Tied(b, kept[r], KeptRow(j, kept)[1])
            /\ Item(b, kept[r].val) # Item(b, KeptRow(j, kept)[1].val)
      BY <1>3, <1>7 DEF RowsRefused
    <3>. QED
      BY <2>1, <3>1
  <2>. DEFINE m == o + 1
  <2>3. m \in 1 .. n /\ DuckItem(j, kept) = Item(b, Ordered(b, kept)[m].val) /\ KeptRow(j, kept)[1] = Ordered(b, kept)[m]
    BY <1>1, <1>3, <1>7, <2>1, <2>2, ItemIs
  <2>4. ASSUME NEW p \in Orders(j, R), \A i \in 1 .. n : Item(b, p[i].val) # Trap
        PROVE  DuckItem(j, p) = Item(b, Ordered(b, p)[m].val)
    <3>1. DOMAIN p = 1 .. n /\ Len(p) = n
      BY <1>2
    <3>2. DuckItem(j, p) = Item(j.build, Ordered(j.build, p)[j.build.offset + 1].val)
      BY <1>1, <1>3, <1>7, <2>2, <2>4, <3>1, ItemIs
    <3>. QED
      BY <3>2
  <2>5. Sortable(b, kept, n)
    <3>1. \A r \in R : Item(b, j.table[r].val) # Trap
      <4>. TAKE r \in R
      <4>1. PICK i \in 1 .. n : kept[i] = j.table[r]
        BY <1>2
      <4>. QED
        BY <1>7, <4>1
    <3>2. \E f : Arrays(b, n, j.table, R, f, kept)
      BY <3>1, RowsAreArrays DEF n
    <3>. QED
      BY <3>2 DEF Arrays
  <2>. HIDE DEF m
  <2>6. PICK r \in 1 .. n : Tied(b, kept[r], Ordered(b, kept)[m]) /\ Item(b, kept[r].val) # Item(b, Ordered(b, kept)[m].val)
    BY <2>2, <2>3
  <2>7. PICK s \in 1 .. n : Ordered(b, kept)[m] = kept[s] /\ Cardinality(Firsts(b, kept, s)) = m - 1
    BY <2>3, <2>5, PlacesAreTaken
  <2>. DEFINE p == Swapped(kept, r, s)
  <2>8. p \in Orders(j, R)
    BY <1>3, SwappedOrder
  <2>9. Ordered(b, p)[m] = kept[r]
    BY <2>3, <2>5, <2>6, <2>7, TiesSwap
  <2>10. \A i \in 1 .. n : Item(b, p[i].val) # Trap
    <3>1. \A i \in 1 .. n : p[i] \in {kept[k] : k \in 1 .. n}
      BY <1>3 DEF Swapped
    <3>. HIDE DEF p
    <3>. QED
      BY <1>7, <3>1
  <2>. HIDE DEF p
  <2>11. DuckItem(j, p) = Item(b, kept[r].val)
    BY <2>4, <2>8, <2>9, <2>10
  <2>. QED
    BY <2>3, <2>6, <2>8, <2>11
<1>. QED
  BY <1>5, <1>6, <1>7

-----------------------------------------------------------------------------
(* Why the group of an aggregate is refused.                               *)

\* A value that leads all others is the extreme, spelt as the first row has it.
LEMMA FirstLeads ==
  ASSUME NEW b \in Builds, b.fn \in {"min", "max"}, ~ b.distinct, NEW n \in Nat \ {0},
         NEW rows, DOMAIN rows = 1 .. n, rows[1].val # Null,
         \A i \in 1 .. n : rows[i].val # Null => Leads(b, rows[1].val, rows[i].val)
  PROVE  DuckAggregate(b, rows) = rows[1].val
<1>. DEFINE T == { i \in 1 .. n : rows[i].val # Null }
            ix == Sorting(T)
            vs == [i \in DOMAIN ix |-> rows[ix[i]].val]
<1>1. ValuesRead(b, rows) = vs
  <2>1. { i \in DOMAIN rows : rows[i].val # Null } = T
    OBVIOUS
  <2>2. { i \in T : b.distinct => \A h \in T : h < i => Ord(rows[h].val) # Ord(rows[i].val) } = T
    OBVIOUS
  <2>. HIDE DEF T
  <2>. QED
    BY <2>1, <2>2 DEF ValuesRead
<1>2. T \subseteq Nat /\ IsFiniteSet(T) /\ T \subseteq 1 .. n
  <2>1. T \in SUBSET (1 .. n) /\ IsFiniteSet(1 .. n)
    BY FS_Interval
  <2>. QED
    BY <2>1, FS_Subset
<1>3. 1 \in T /\ \A i \in T : Leads(b, rows[1].val, rows[i].val)
  OBVIOUS
<1>. HIDE DEF T
<1>4. PICK m \in Nat : /\ DOMAIN ix = 1 .. m
                       /\ \A i \in 1 .. m : ix[i] \in T
                       /\ \A i, k \in 1 .. m : i < k => ix[i] < ix[k]
                       /\ \A x \in T : \E i \in 1 .. m : ix[i] = x
  BY <1>2, SortingSorts
<1>. HIDE DEF ix
<1>5. m # 0 /\ ix[1] = 1
  <2>1. PICK i \in 1 .. m : ix[i] = 1
    BY <1>3, <1>4
  <2>2. 1 \in 1 .. m
    OBVIOUS
  <2>3. ix[1] \in 1 .. n
    BY <1>2, <1>4, <2>2
  <2>4. ~ (1 < i)
    BY <1>4, <2>1, <2>2, <2>3
  <2>. QED
    BY <2>1, <2>4
<1>6. /\ DOMAIN vs = 1 .. m /\ 1 \in 1 .. m /\ vs[1] = rows[1].val
      /\ \A i \in 1 .. m : Leads(b, vs[1], vs[i])
  BY <1>3, <1>4, <1>5
<1>. HIDE DEF vs
<1>7. DuckAggregate(b, rows) = Extreme(b, vs)
  <2>2. vs # <<>>
    BY <1>6
  <2>3. DuckAggregate(b, rows) =
          CASE b.fn = "count_star" -> Len(rows)
            [] b.fn = "count" -> Len(vs)
            [] b.fn \notin {"count_star", "count"} /\ vs = <<>> -> Null
            [] OTHER ->
                 CASE b.fn \in {"min", "max"} -> Extreme(b, vs)
                   [] b.fn \in {"bool_and", "bit_and"} -> IF Ones(vs) = Len(vs) THEN 1 ELSE 0
                   [] b.fn \in {"bool_or", "bit_or"} -> IF Ones(vs) > 0 THEN 1 ELSE 0
                   [] b.fn = "bit_xor" -> Ones(vs) % 2
                   [] OTHER -> DuckSum(b, vs)
    BY <1>1 DEF DuckAggregate
  <2>4. CASE b.fn = "min"
    BY <2>2, <2>3, <2>4
  <2>5. CASE b.fn = "max"
    BY <2>2, <2>3, <2>5
  <2>. QED
    BY <2>4, <2>5
<1>. DEFINE best == { i \in DOMAIN vs : \A h \in DOMAIN vs :
                        IF b.fn = "min" THEN Ord(vs[i]) <= Ord(vs[h]) ELSE Ord(vs[i]) >= Ord(vs[h]) }
<1>8. Extreme(b, vs) = vs[CHOOSE i \in best : \A h \in best : i <= h]
  BY DEF Extreme
<1>9. 1 \in best /\ best \subseteq 1 .. m
  BY <1>6 DEF Leads
<1>. HIDE DEF best
<1>10. (CHOOSE i \in best : \A h \in best : i <= h) = 1
  <2>1. \A h \in best : 1 <= h
    BY <1>9
  <2>2. \A i \in best : (\A h \in best : i <= h) => i = 1
    BY <1>9
  <2>. QED
    BY <1>9, <2>1, <2>2
<1>. QED
  BY <1>6, <1>7, <1>8, <1>10

\* A value of a group that leads all others is what DuckDB answers in some order.
LEMMA LeadersAreAnswered ==
  ASSUME NEW j, AggFits(j), j.build.fn \in {"min", "max"}, NEW R, RowsIn(j, R), NEW r \in Known(j, R),
         \A q \in Known(j, R) : Leads(j.build, V(j, r), V(j, q))
  PROVE  \E rows \in Orders(j, R) : DuckAggregate(j.build, rows) = V(j, r)
<1>. DEFINE b == j.build
            n == Cardinality(R)
<1>1. IsFiniteSet(R) /\ n \in Nat /\ r \in R /\ V(j, r) # Null /\ R \subseteq 1 .. Len(j.table)
  BY FiniteRows DEF Known, RowsIn
<1>2. b \in Builds /\ ~ b.distinct
  BY <1>1, AggregateReads
<1>3. PICK rows \in Orders(j, R) : rows[1] = j.table[r]
  BY <1>1, LedOrder
<1>4. PICK f : /\ Numbered(n, f, R) /\ DOMAIN rows = 1 .. n
               /\ \A i \in 1 .. n : rows[i] = j.table[f[i]]
  BY <1>1, OrdersNumber
<1>5. n # 0 /\ f \in [1 .. n -> R]
  <2>1. f \in [1 .. n -> R] /\ \E i \in 1 .. n : f[i] = r
    BY <1>1, <1>4 DEF Numbered
  <2>. QED
    BY <1>1, <2>1
<1>. HIDE DEF n
<1>6. \A i \in 1 .. n : rows[i].val # Null => Leads(b, rows[1].val, rows[i].val)
  BY <1>3, <1>4, <1>5 DEF Known, V
<1>7. rows[1].val # Null /\ rows[1].val = V(j, r) /\ n \in Nat \ {0}
  BY <1>1, <1>3, <1>5 DEF V
<1>8. DuckAggregate(b, rows) = rows[1].val
  BY <1>2, <1>4, <1>6, <1>7, FirstLeads
<1>. QED
  BY <1>7, <1>8

\* The sum of the magnitudes that DuckDB's sum of a group may add up to.
LEMMA SizesAreRead ==
  ASSUME NEW j, AggFits(j), j.build.fn \in {"sum", "avg"}, NEW key
  PROVE  Sizes(j, key).sum = SumOf(Len(j.table), Sizes0(j, ReadOf(j, RowsOf(j, key))))
<1>. DEFINE R == RowsOf(j, key)
            A == ReadOf(j, R)
            n == Len(j.table)
            Z == Sizes0(j, A)
            c == Cardinality(R)
            f == Sorting(R)
            rows == [ i \in 1 .. c |-> j.table[f[i]] ]
            of == ValuesRead(j.build, rows)
            d == [ i \in DOMAIN of |-> Magnitude(Ord(of[i])) ]
            s == Running(d, FALSE)
<1>1. RowsIn(j, R) /\ R \subseteq 1 .. n /\ n \in Nat /\ j.build \in Builds /\ j.build.distinct \in BOOLEAN
  <2>1. RowsIn(j, R) /\ R \subseteq 1 .. n /\ n \in Nat
    BY RowsBefore DEF RowsIn
  <2>2. j.build \in Builds
    BY DEF AggFits, BuildFits
  <2>. QED
    BY <2>1, <2>2 DEF Builds
<1>. HIDE DEF R, n
<1>2. /\ IsFiniteSet(R) /\ A \subseteq R /\ c \in Nat /\ R \subseteq Nat
      /\ \A r \in A : V(j, r) \in Int /\ V(j, r) # Null
  BY <1>1, FiniteRows
<1>3. \A r \in A : V(j, r) \in Int /\ Ord(V(j, r)) = V(j, r)
  BY <1>1, <1>2, AggregateReads DEF n
<1>4. rows \in Orders(j, R)
  <2>1. PICK k \in Nat : /\ DOMAIN f = 1 .. k /\ \A i \in 1 .. k : f[i] \in R
                         /\ \A x \in R : \E i \in 1 .. k : f[i] = x
    BY <1>2, SortingSorts
  <2>2. DOMAIN f = 1 .. c /\ f = [i \in 1 .. c |-> f[i]]
    BY DEF Sorting
  <2>. HIDE DEF f
  <2>3. f \in [1 .. c -> R] /\ \A x \in R : \E i \in 1 .. c : f[i] = x
    BY <2>1, <2>2
  <2>. QED
    BY <2>3, OrderedBy
<1>5. Sizes(j, key).sum = s[Len(of)]
  BY DEF Sizes, R
<1>. HIDE DEF rows, c, f
<1>6. PICK m, g : /\ Numbered(m, g, A) /\ of \in [1 .. m -> Int]
                  /\ \A i \in 1 .. m : Ord(of[i]) = Ord(V(j, g[i]))
  BY <1>1, <1>4, ReadInOrder
<1>7. m \in Nat /\ g \in [1 .. m -> A] /\ DOMAIN of = 1 .. m /\ Len(of) = m
  <2>. HIDE DEF of
  <2>. QED
    BY <1>6 DEF Numbered
<1>. HIDE DEF of
<1>8. \A x \in Int : Magnitude(x) \in Int
  BY DEF Magnitude
<1>9. \A i \in 1 .. m : Ord(of[i]) = V(j, g[i]) /\ g[i] \in A /\ V(j, g[i]) \in Int
  BY <1>3, <1>6, <1>7
<1>10. d \in [1 .. m -> Int] /\ \A i \in 1 .. m : d[i] = Magnitude(V(j, g[i]))
  BY <1>7, <1>8, <1>9
<1>11. /\ Z \in [1 .. n -> Int] /\ \A r \in 1 .. n : r \notin A => Z[r] = 0
       /\ \A r \in A : Z[r] = Magnitude(V(j, r))
  <2>1. Z = [r \in 1 .. n |-> IF r \in A THEN Magnitude(V(j, r)) ELSE 0]
    BY DEF Sizes0, n
  <2>2. A \subseteq 1 .. n /\ \A r \in A : Magnitude(V(j, r)) \in Int
    BY <1>1, <1>2, <1>8
  <2>. HIDE DEF Z
  <2>. QED
    BY <2>1, <2>2
<1>. HIDE DEF d, Z
<1>12. Arranges(n, Z, A, m, g, d)
  <2>1. A \subseteq 1 .. n /\ \A i \in 1 .. m : d[i] = Z[g[i]]
    BY <1>1, <1>2, <1>7, <1>10, <1>11
  <2>. HIDE DEF A
  <2>. QED
    BY <1>6, <1>10, <1>11, <2>1 DEF Arranges
<1>13. Sums(m, d, s)
  <2>. HIDE DEF A
  <2>. QED
    BY <1>7, <1>10, RunningSums
<1>. HIDE DEF s, A
<1>14. s[m] = SumOf(n, Z)
  BY <1>1, <1>12, <1>13, SumsInAnyOrder
<1>. QED
  BY <1>5, <1>7, <1>14 DEF Z, n, A, R

-----------------------------------------------------------------------------
(* Refused builds.                                                         *)

\* An aggregate is refused for two orders that tell, for magnitudes that may leave
\* its range, or for an item that traps on what it answers.
LEMMA AggregatesRefusedForCause ==
  ASSUME NEW j, AggFits(j), NEW key, NEW acc, AccSays(j, acc, RowsOf(j, key)),
         Refused(j.build, acc) \/ Item(j.build, AnswerOf(j.build, acc)) = Trap
  PROVE  Unanswerable(j, key)
<1>. DEFINE b == j.build
            R == RowsOf(j, key)
            A == ReadOf(j, R)
<1>1. RowsIn(j, R) /\ R \subseteq 1 .. Len(j.table)
  BY RowsBefore
<1>2. /\ b \in Builds /\ b.how = "aggs" /\ b.fn \notin Floats /\ (b.ties => b.traps = {})
      /\ Unanswerable(j, key) <=> \/ Trap \in DuckAnswers(j, key)
                                  \/ OrderTells(j, key)
                                  \/ MayLeaveRange(j, Sizes(j, key))
  BY DEF AggFits, BuildFits, ExactAggs, FitsAggregate, Unanswerable, DoubleSum, Floats
<1>3. acc \in Accs /\ Summed(j, acc, A) /\ Leading(j, acc, A)
  BY DEF AccSays
<1>. HIDE DEF R
<1>4. IsFiniteSet(R) /\ A \subseteq R
  BY <1>1, FiniteRows
<1>5. Trap \notin Int \union {Null}
  BY BuildAssumption
<1>6. CASE Refused(b, acc) /\ b.fn \in {"min", "max"}
  <2>1. acc.tie
    BY <1>6 DEF Refused
  <2>. HIDE DEF A
  <2>2. /\ acc.cur # Null /\ \A r \in A : Leads(b, acc.cur, V(j, r))
        /\ \E r \in A : V(j, r) = acc.cur
        /\ \E r \in A : Ord(V(j, r)) = Ord(acc.cur) /\ V(j, r) # acc.cur
    BY <1>3, <1>6, <2>1 DEF Leading
  <2>3. PICK r \in A, q \in A : V(j, r) = acc.cur /\ Ord(V(j, q)) = Ord(acc.cur) /\ V(j, q) # acc.cur
    BY <2>2
  <2>4. A = Known(j, R)
    <3>1. ~ b.distinct
      BY <1>1, <1>4, <1>6, <2>3, AggregateReads
    <3>. QED
      BY <3>1 DEF A, ReadOf
  <2>5. \A p \in A : Leads(b, V(j, r), V(j, p)) /\ Leads(b, V(j, q), V(j, p))
    BY <2>2, <2>3 DEF Leads
  <2>6. PICK rows \in Orders(j, R) : DuckAggregate(b, rows) = V(j, r)
    BY <1>1, <1>6, <2>4, <2>5, LeadersAreAnswered
  <2>7. PICK rows2 \in Orders(j, R) : DuckAggregate(b, rows2) = V(j, q)
    BY <1>1, <1>6, <2>4, <2>5, LeadersAreAnswered
  <2>8. OrderTells(j, key)
    BY <1>2, <2>3, <2>6, <2>7 DEF OrderTells, R
  <2>. QED
    BY <1>2, <2>8
<1>7. CASE Refused(b, acc) /\ b.fn \in {"sum", "avg"}
  <2>1. Sizes(j, key).sum = acc.size
    BY <1>3, <1>7, SizesAreRead DEF Summed, R
  <2>2. CASE b.fn = "sum"
    <3>1. acc.size > MaxSum
      BY <1>7, <2>2 DEF Refused
    <3>2. MayLeaveRange(j, Sizes(j, key))
      BY <2>1, <2>2, <3>1 DEF MayLeaveRange
    <3>. QED
      BY <1>2, <3>2
  <2>3. CASE b.fn = "avg"
    <3>1. acc.size > MaxAvg
      BY <1>7, <2>3 DEF Refused
    <3>2. MayLeaveRange(j, Sizes(j, key))
      BY <2>1, <2>3, <3>1 DEF MayLeaveRange
    <3>. QED
      BY <1>2, <3>2
  <2>. QED
    BY <1>7, <2>2, <2>3
<1>8. CASE ~ Refused(b, acc)
  <2>. DEFINE y == AnswerOf(b, acc)
  <2>1. PICK rows : rows \in Orders(j, R)
    <3>1. /\ InAnyOrder(R) \in [1 .. Cardinality(R) -> R]
          /\ \A x \in R : \E i \in 1 .. Cardinality(R) : InAnyOrder(R)[i] = x
      BY <1>4, InAnyOrderIsOnto
    <3>2. [ i \in 1 .. Cardinality(R) |-> j.table[InAnyOrder(R)[i]] ] \in Orders(j, R)
      BY <3>1, OrderedBy
    <3>. QED
      BY <3>2
  <2>. DEFINE x == DuckAggregate(b, rows)
  <2>2. /\ x \in Int \union {Null} /\ y \in Int \union {Null}
        /\ x = y \/ b.ties
    BY <1>1, <1>8, <2>1, AnswersAgree DEF R
  <2>3. Item(b, y) = Trap
    BY <1>8
  <2>. HIDE DEF x, y
  <2>4. y \in b.traps
    <3>1. 0 # Trap /\ y # Trap
      BY <1>5, <2>2
    <3>. QED
      BY <2>3, <3>1 DEF Item
  <2>5. x = y /\ x # Trap
    BY <1>2, <1>5, <2>2, <2>4
  <2>6. DuckAnswer(j, rows) = Trap
    BY <1>2, <2>3, <2>5 DEF DuckAnswer, x
  <2>7. Trap \in DuckAnswers(j, key)
    BY <2>1, <2>6 DEF DuckAnswers, R
  <2>. QED
    BY <1>2, <2>7
<1>9. Refused(b, acc) => b.fn \in {"min", "max", "sum", "avg"}
  BY <1>2 DEF Refused, Floats
<1>. QED
  BY <1>6, <1>7, <1>8, <1>9

\* So a table of groups is refused for a group's cause.
LEMMA GroupsRefusedForCause ==
  ASSUME NEW j, AggFits(j) \/ ItemFits(j), GroupsOK(j, groups, Len(j.table) + 1),
         GroupsSay(j, groups, Len(j.table) + 1), ItemsSay(j, groups, Len(j.table) + 1), TableRefused(j)
  PROVE  Cause(j)
<1>1. JoinFits(j) /\ ~ Plain(j.build.how)
  BY DEF AggFits, ExactAggs, ItemFits, Plain
<1>2. PICK key \in DOMAIN groups : GroupRefused(j, key)
  BY <1>1 DEF TableRefused
<1>3. ReadBefore(j, key, Len(j.table) + 1) = RowsOf(j, key)
  <2>1. RowsOf(j, key) \subseteq DOMAIN j.table /\ DOMAIN j.table = 1 .. Len(j.table) /\ Len(j.table) \in Nat
    BY <1>1, RowsOfAKey DEF JoinFits
  <2>. QED
    BY <2>1 DEF ReadBefore
<1>4. key \in GroupKeys(j)
  <2>1. Matchable(j) \subseteq 1 .. Len(j.table) /\ Len(j.table) \in Nat
    BY <1>1 DEF Matchable, JoinFits
  <2>2. { r \in Matchable(j) : r < Len(j.table) + 1 } = Matchable(j)
    BY <2>1
  <2>. QED
    BY <1>1, <2>2 DEF GroupsOK, KeysBefore, GroupKeys
<1>5. CASE AggFits(j)
  <2>1. j.build.how = "aggs" /\ AccSays(j, groups[key], RowsOf(j, key))
    BY <1>3, <1>5 DEF AggFits, ExactAggs, GroupsSay
  <2>2. Refused(j.build, groups[key]) \/ Item(j.build, AnswerOf(j.build, groups[key])) = Trap
    BY <1>2, <2>1 DEF GroupRefused
  <2>3. Unanswerable(j, key)
    BY <1>5, <2>1, <2>2, AggregatesRefusedForCause
  <2>. QED
    BY <1>4, <2>3 DEF Cause
<1>6. CASE ItemFits(j)
  <2>. DEFINE R == RowsOf(j, key)
              kept == groups[key]
  <2>1. j.build.how = "item"
    BY <1>6 DEF ItemFits
  <2>2. kept \in Orders(j, R) /\ RowsRefused(j, kept)
    BY <1>2, <1>3, <1>6, <2>1 DEF ItemsSay, GroupRefused
  <2>3. R \subseteq DOMAIN j.table /\ IsFiniteSet(R)
    BY <1>1, RowsOfAKey
  <2>. HIDE DEF R, kept
  <2>4. \/ DuckItem(j, kept) = Trap
        \/ \E p \in Orders(j, R) : DuckItem(j, p) # DuckItem(j, kept)
    BY <1>6, <2>2, <2>3, ItemsRefusedForCause
  <2>5. DuckItem(j, kept) = Trap => Trap \in DuckAnswers(j, key)
    BY <2>1, <2>2 DEF DuckAnswers, DuckAnswer, R
  <2>6. (\E p \in Orders(j, R) : DuckItem(j, p) # DuckItem(j, kept)) => OrderTells(j, key)
    BY <2>1, <2>2 DEF OrderTells, R
  <2>7. Unanswerable(j, key)
    BY <2>1, <2>4, <2>5, <2>6 DEF Unanswerable, DoubleSum
  <2>. QED
    BY <1>4, <2>7 DEF Cause
<1>. QED
  BY <1>5, <1>6

\* A build of anything but DOUBLE sums is refused for a cause.
CausedOK == verdict = "refused" /\ ~ DoubleSum(J.build) => Cause(J)

\* Finishing a table keeps it.
LEMMA FinishKeepsCaused ==
  ASSUME BuildInv, WholeOK, SaysOK, FinishTable
  PROVE  CausedOK'
<1>. SUFFICES ASSUME verdict' = "refused", ~ DoubleSum(J'.build) PROVE Cause(J')
  BY DEF CausedOK, Cause
<1>1. /\ plan' = plan /\ plan \in Plans /\ Joins' = Joins /\ verdict = "building"
      /\ Len(tables) < Len(Joins) /\ tables \in Seq(Range(tables))
      /\ at > Len(J.table) /\ at \in Nat \ {0} /\ GroupsOK(J, groups, at)
      /\ GroupsSay(J, groups, at) /\ ItemsSay(J, groups, at)
  BY DEF FinishTable, Building, BuildInv, SaysOK, Joins
<1>2. TableRefused(J) /\ tables' = tables /\ J' = J
  <2>1. TableRefused(J)
    BY <1>1 DEF FinishTable
  <2>2. tables' = tables
    BY <2>1 DEF FinishTable
  <2>. QED
    BY <1>1, <2>1, <2>2 DEF J
<1>3. CASE Plain(J.build.how)
  <2>1. CauseOK'
    BY FinishKeepsWhole
  <2>2. Cause(J)'
    BY <1>2, <1>3, <2>1 DEF CauseOK
  <2>. QED
    BY <2>2 DEF Cause
<1>4. CASE ~ Plain(J.build.how)
  <2>1. Len(Joins) \in Nat /\ Len(tables) \in Nat /\ Len(tables) + 1 \in 1 .. Len(Joins)
    <3>1. Len(tables) \in Nat /\ Len(Joins) \in Nat
      BY <1>1, PlansFit, LenProperties
    <3>. QED
      BY <1>1, <3>1
  <2>2. JoinFits(J) /\ J = Joins[Len(tables) + 1]
    BY <1>1, <2>1, PlansFit DEF J
  <2>3. GroupsOK(J, groups, Len(J.table) + 1) /\ GroupsSay(J, groups, Len(J.table) + 1)
        /\ ItemsSay(J, groups, Len(J.table) + 1)
    <3>1. Matchable(J) \subseteq 1 .. Len(J.table) /\ Len(J.table) \in Nat
      BY <2>2 DEF Matchable, JoinFits
    <3>2. { r \in Matchable(J) : r < at } = { r \in Matchable(J) : r < Len(J.table) + 1 }
      BY <1>1, <3>1
    <3>3. ASSUME NEW key PROVE ReadBefore(J, key, at) = ReadBefore(J, key, Len(J.table) + 1)
      <4>1. RowsOf(J, key) \subseteq 1 .. Len(J.table)
        BY <2>2, RowsOfAKey DEF JoinFits
      <4>. QED
        BY <1>1, <3>1, <4>1 DEF ReadBefore
    <3>. QED
      BY <1>1, <3>2, <3>3 DEF GroupsOK, KeysBefore, GroupsSay, ItemsSay
  <2>4. AggFits(J) \/ ItemFits(J)
    <3>1. J.build.how \in {"map", "rows", "aggs", "item"}
      BY <1>1, <2>1, <2>2, GroupsFit
    <3>2. ExactAggs(J) \/ J.build.how = "item"
      BY <1>2, <1>4, <3>1 DEF ExactAggs, DoubleSum, Floats, Plain
    <3>. QED
      BY <1>1, <2>1, <2>2, <3>2, GroupsFit
  <2>5. Cause(J)
    BY <1>2, <2>3, <2>4, GroupsRefusedForCause
  <2>. QED
    BY <1>2, <2>5
<1>. QED
  BY <1>3, <1>4

\* So does every other step.
LEMMA CausedOKKept ==
  ASSUME RowInv, WholeOK, CauseOK, SaysOK, CausedOK, [Next]_vars
  PROVE  CausedOK'
<1>1. BuildInv
  BY DEF RowInv, StaticOK
<1>2. CASE FinishTable
  BY <1>1, <1>2, FinishKeepsCaused
<1>3. CASE ReadRow
  <2>. SUFFICES ASSUME verdict' = "refused" PROVE Cause(J)'
    BY DEF CausedOK
  <2>1. plan' = plan /\ tables' = tables /\ Joins' = Joins /\ J' = J
    BY <1>3 DEF ReadRow, J, Joins
  <2>2. verdict = "building" /\ at <= Len(J.table) /\ SourceRow.keep
        /\ \/ KeyFate(J.cmps, SourceRow.key) = "unreadable"
           \/ KeyFate(J.cmps, SourceRow.key) = "kept" /\ NullRefused(J, SourceRow)
    BY <1>3 DEF ReadRow, Building
  <2>3. at \in DOMAIN J.table
    <3>1. Len(tables) < Len(Joins) /\ at \in Nat \ {0} /\ plan \in Plans
      BY <1>1, <1>3 DEF ReadRow, Building, BuildInv
    <3>2. Len(tables) \in Nat /\ Len(Joins) \in Nat
      BY <1>1, <3>1, PlansFit, LenProperties DEF BuildInv
    <3>3. JoinFits(J)
      BY <3>1, <3>2, PlansFit DEF J
    <3>. QED
      BY <2>2, <3>1, <3>3 DEF JoinFits
  <2>4. Cause(J)
    BY <2>2, <2>3 DEF Cause, SourceRow, Matchable
  <2>. QED
    BY <2>1, <2>4 DEF Cause
<1>4. CASE UNCHANGED <<plan, tables, verdict>>
  <2>1. Joins' = Joins /\ J' = J
    BY <1>4 DEF J, Joins
  <2>2. Cause(J)' <=> Cause(J)
    BY <2>1 DEF Cause
  <2>. QED
    BY <1>4, <2>1, <2>2 DEF CausedOK
<1>5. FinishTable \/ ReadRow \/ UNCHANGED <<plan, tables, verdict>>
  <2>1. CASE Build
    BY <2>1 DEF Build, BuildNext
  <2>2. CASE Prepare
    BY <2>2 DEF Prepare, buildVars
  <2>3. CASE \/ Serve \/ Entry \/ Header \/ Body \/ After \/ Done
             \/ FoldHeader \/ FoldBody \/ ProbeMap \/ EmitRow \/ DropRow
    BY <2>3 DEF Serve, Entry, Header, HeaderTest, Body, After, Done, Continue, Open, FoldHeader,
                FoldBody, ProbeMap, EmitRow, DropRow, Leave, buildVars
  <2>4. CASE UNCHANGED vars
    BY <2>4 DEF vars
  <2>. QED
    BY <2>1, <2>2, <2>3, <2>4 DEF Next, RowNext
<1>. QED
  BY <1>2, <1>3, <1>4, <1>5

\* No build but that of a DOUBLE sum is refused without a cause: a key that cannot be
\* read; a scan's key of too many rows, or whose min DuckDB answers by their order; a group
\* that DuckDB stops on, or answers differently in two orders; a sum whose magnitudes may
\* leave its range (materialize_map, materialize_aggs, materialize_rows). And a map is
\* refused exactly for a key it has twice (prepare_statics).
THEOREM RefusalsButOfDoubleSumsHaveCauses ==
  Spec => [](~ (verdict = "refused" /\ DoubleSum(J.build)) => RefusedForCause)
<1>1. Init => RowInv /\ RefusalOK /\ WholeOK /\ CauseOK /\ SaysOK /\ FreeOK /\ CausedOK
  BY RowStarts, WholeStarts, FreeStarts DEF Init, BuildInit, RefusalOK, CausedOK
<1>2. RowInv /\ RefusalOK /\ WholeOK /\ CauseOK /\ SaysOK /\ FreeOK /\ CausedOK /\ [Next]_vars
        => (RowInv /\ RefusalOK /\ WholeOK /\ CauseOK /\ SaysOK /\ FreeOK /\ CausedOK)'
  BY RowInvKept, RefusalOKKept, WholeOKKept, FreeOKKept, CausedOKKept
<1>3. RowInv /\ RefusalOK /\ CausedOK
        => (~ (verdict = "refused" /\ DoubleSum(J.build)) => RefusedForCause)
  BY RefusalsAreExact DEF RefusedForCause, BuildsRefuseForCause, CausedOK, Cause
<1>. QED
  BY <1>1, <1>2, <1>3, PTL DEF Spec
=============================================================================
