---------------------------- MODULE SharedLemmas ----------------------------
(***************************************************************************)
(* What several proofs need: sequences used as stacks, what replacing the  *)
(* last element, removing it and pushing another one leave of the rest;    *)
(* the least of a set of naturals, which stands for an induction; sets     *)
(* numbered from 1, and the sum of numbers, which their order leaves.      *)
(***************************************************************************)
EXTENDS Integers, FiniteSets, Sequences, FiniteSetTheorems, SequenceTheorems, TLAPS

-----------------------------------------------------------------------------
(* Stacks.                                                                 *)

\* A stack that is not empty has an element on top.
LEMMA TopOfStack ==
  ASSUME NEW S, NEW s \in Seq(S), s # <<>>
  PROVE  Len(s) \in Nat \ {0} /\ s[Len(s)] \in S
<1>1. Len(s) \in Nat /\ Len(s) # 0
  BY EmptySeq, LenProperties
<1>. QED
  BY <1>1, ElementOfSeq

\* Popping keeps what is below.
LEMMA PoppedStack ==
  ASSUME NEW S, NEW s \in Seq(S), s # <<>>
  PROVE  /\ SubSeq(s, 1, Len(s) - 1) \in Seq(S)
         /\ Len(SubSeq(s, 1, Len(s) - 1)) = Len(s) - 1
         /\ \A i \in 1 .. Len(s) - 1 : SubSeq(s, 1, Len(s) - 1)[i] = s[i]
<1>1. Len(s) \in Nat \ {0}
  BY TopOfStack
<1>. DEFINE n == Len(s) - 1
<1>2. n \in Int /\ \A i \in 1 .. n : s[i] \in S
  BY <1>1, ElementOfSeq
<1>3. n \in Nat /\ n < Len(s)
  BY <1>1
<1>. HIDE DEF n
<1>4. SubSeq(s, 1, n) \in Seq(S)
  BY <1>2, <1>3
<1>5. Len(SubSeq(s, 1, n)) = n
  BY <1>3
<1>6. \A i \in 1 .. n : SubSeq(s, 1, n)[i] = s[i]
  BY <1>3
<1>. QED
  BY <1>4, <1>5, <1>6 DEF n

\* So does pushing.
LEMMA PushedStack ==
  ASSUME NEW S, NEW s \in Seq(S), NEW f \in S
  PROVE  /\ Append(s, f) \in Seq(S) /\ Len(Append(s, f)) = Len(s) + 1
         /\ Append(s, f)[Len(s) + 1] = f
         /\ \A i \in 1 .. Len(s) : Append(s, f)[i] = s[i]
BY AppendProperties

\* One stack upon another: each place is a place of one of them.
LEMMA JoinedStacks ==
  ASSUME NEW S, NEW s \in Seq(S), NEW t \in Seq(S)
  PROVE  /\ s \o t \in Seq(S)
         /\ \A i \in DOMAIN (s \o t) :
              \/ i \in DOMAIN s /\ (s \o t)[i] = s[i]
              \/ i - Len(s) \in DOMAIN t /\ (s \o t)[i] = t[i - Len(s)]
         /\ \A i \in DOMAIN s : i \in DOMAIN (s \o t) /\ (s \o t)[i] = s[i]
         /\ \A i \in DOMAIN t : i + Len(s) \in DOMAIN (s \o t) /\ (s \o t)[i + Len(s)] = t[i]
         /\ Len(s) \in Nat /\ DOMAIN (s \o t) \subseteq Nat
<1>. DEFINE u == s \o t
            m == Len(s)
            n == Len(t)
<1>1. /\ m \in Nat /\ n \in Nat /\ DOMAIN s = 1 .. m /\ DOMAIN t = 1 .. n
      /\ u \in Seq(S) /\ Len(u) = m + n
      /\ \A i \in 1 .. m + n : u[i] = IF i <= m THEN s[i] ELSE t[i - m]
  BY ConcatProperties, LenProperties
<1>2. DOMAIN u = 1 .. m + n
  BY <1>1
<1>. HIDE DEF u, m, n
<1>3. \A i \in 1 .. m + n : \/ i \in 1 .. m /\ u[i] = s[i]
                            \/ i - m \in 1 .. n /\ u[i] = t[i - m]
  BY <1>1
<1>4. \A i \in 1 .. m : i \in 1 .. m + n /\ u[i] = s[i]
  BY <1>1
<1>5. \A i \in 1 .. n : i + m \in 1 .. m + n /\ u[i + m] = t[i]
  <2>. TAKE i \in 1 .. n
  <2>1. i + m \in 1 .. m + n /\ ~ (i + m <= m) /\ (i + m) - m = i
    BY <1>1
  <2>. QED
    BY <1>1, <2>1
<1>. QED
  BY <1>1, <1>2, <1>3, <1>4, <1>5 DEF u, m, n

\* Two stacks of different things that hold nothing twice, one upon the other.
LEMMA JoinedOnce ==
  ASSUME NEW S, NEW s \in Seq(S), NEW t \in Seq(S),
         \A i, j \in DOMAIN s : s[i] = s[j] => i = j,
         \A i, j \in DOMAIN t : t[i] = t[j] => i = j,
         \A i \in DOMAIN s : \A j \in DOMAIN t : s[i] # t[j]
  PROVE  \A i, j \in DOMAIN (s \o t) : (s \o t)[i] = (s \o t)[j] => i = j
<1>. DEFINE u == s \o t
<1>1. /\ \A i \in DOMAIN u : \/ i \in DOMAIN s /\ u[i] = s[i]
                             \/ i - Len(s) \in DOMAIN t /\ u[i] = t[i - Len(s)]
      /\ Len(s) \in Nat /\ DOMAIN u \subseteq Nat
  BY JoinedStacks
<1>. HIDE DEF u
<1>. SUFFICES ASSUME NEW i \in DOMAIN u, NEW j \in DOMAIN u, u[i] = u[j]
              PROVE  i = j
  BY DEF u
<1>2. CASE i \in DOMAIN s /\ u[i] = s[i]
  BY <1>1, <1>2
<1>3. CASE i - Len(s) \in DOMAIN t /\ u[i] = t[i - Len(s)]
  <2>1. CASE j \in DOMAIN s /\ u[j] = s[j]
    BY <1>3, <2>1
  <2>2. CASE j - Len(s) \in DOMAIN t /\ u[j] = t[j - Len(s)]
    <3>1. i - Len(s) = j - Len(s)
      BY <1>3, <2>2
    <3>. QED
      BY <1>1, <3>1
  <2>. QED
    BY <1>1, <2>1, <2>2
<1>. QED
  BY <1>1, <1>2, <1>3

-----------------------------------------------------------------------------
(* Numbers.                                                                *)

\* A set of naturals that is not empty has a least element.
LEMMA LeastNatural ==
  ASSUME NEW T, T \subseteq Nat, T # {}
  PROVE  \E x \in T : \A y \in T : x <= y
<1>1. PICK x \in T : \A y \in T : ~ (<<y, x>> \in OpToRel(<, Nat))
  BY NatLessThanWellFounded, WFMin
<1>2. \A y \in T : ~ (y < x)
  BY <1>1 DEF OpToRel
<1>. QED
  BY <1>2

\* g numbers the elements of T from 1 to m.
Numbered(m, g, T) == /\ m \in Nat /\ g \in [1 .. m -> T]
                     /\ \A a, b \in 1 .. m : g[a] = g[b] => a = b
                     /\ \A t \in T : \E i \in 1 .. m : g[i] = t

\* A set numbered up to m has m members.
LEMMA NumberedCounts ==
  ASSUME NEW m, NEW g, NEW T, Numbered(m, g, T)
  PROVE  IsFiniteSet(T) /\ Cardinality(T) = m
<1>1. g \in Bijection(1 .. m, T)
  BY DEF Numbered, Bijection, Injection, IsInjective, Surjection
<1>2. IsFiniteSet(1 .. m) /\ Cardinality(1 .. m) = m
  BY FS_Interval DEF Numbered
<1>3. ExistsBijection(1 .. m, T)
  BY <1>1 DEF ExistsBijection
<1>. QED
  BY <1>2, <1>3, FS_Bijection

\* The places of some rows are as many as the rows.
LEMMA PlacesOf ==
  ASSUME NEW n, NEW f, NEW R, Numbered(n, f, R), NEW A, A \subseteq R
  PROVE  LET P == { i \in 1 .. n : f[i] \in A }
         IN IsFiniteSet(P) /\ IsFiniteSet(A) /\ Cardinality(P) = Cardinality(A)
<1>. DEFINE P == { i \in 1 .. n : f[i] \in A }
            g == [i \in P |-> f[i]]
<1>1. n \in Nat /\ f \in [1 .. n -> R] /\ (\A a, b \in 1 .. n : f[a] = f[b] => a = b)
      /\ \A t \in R : \E i \in 1 .. n : f[i] = t
  BY DEF Numbered
<1>2. P \subseteq 1 .. n /\ IsFiniteSet(1 .. n)
  BY <1>1, FS_Interval
<1>3. IsFiniteSet(P)
  BY <1>2, FS_Subset
<1>4. g \in [P -> A] /\ \A i \in P : g[i] = f[i]
  OBVIOUS
<1>5. g \in Injection(P, A)
  BY <1>1, <1>2, <1>4 DEF Injection, IsInjective
<1>6. g \in Surjection(P, A)
  BY <1>1, <1>4 DEF Surjection
<1>7. ExistsBijection(P, A)
  BY <1>5, <1>6 DEF ExistsBijection, Bijection
<1>. HIDE DEF P, g
<1>. QED
  BY <1>3, <1>7, FS_Bijection DEF P

-----------------------------------------------------------------------------
(* Sums.                                                                   *)

\* The running sums of n numbers.
Sums(n, d, s) == /\ s \in [0 .. n -> Int] /\ s[0] = 0
                 /\ \A i \in 1 .. n : s[i] = s[i - 1] + d[i]

\* The sums of the first numbers of a list exist.
LEMMA SumsExist ==
  ASSUME NEW n \in Nat, NEW d \in [1 .. n -> Int]
  PROVE  \E s : Sums(n, d, s)
<1>. DEFINE Bad == { m \in 0 .. n : ~ \E s : Sums(m, d, s) }
<1>0. n \in 0 .. n
  OBVIOUS
<1>1. SUFFICES ASSUME Bad # {} PROVE FALSE
  <2>1. n \notin Bad => \E s : Sums(n, d, s)
    BY <1>0
  <2>. HIDE DEF Bad
  <2>. QED
    BY <2>1
<1>2. PICK m \in Bad : \A e \in Bad : m <= e
  <2>1. Bad \subseteq Nat
    OBVIOUS
  <2>. HIDE DEF Bad
  <2>. QED
    BY <1>1, <2>1, LeastNatural
<1>3. m # 0
  <2>. DEFINE s == [i \in 0 .. 0 |-> 0]
  <2>1. Sums(0, d, s)
    BY DEF Sums
  <2>. QED
    BY <1>2, <2>1
<1>4. m \in 1 .. n /\ m - 1 \in 0 .. n /\ ~ (m <= m - 1)
  BY <1>2, <1>3
<1>5. PICK s : Sums(m - 1, d, s)
  BY <1>2, <1>4
<1>. DEFINE t == [i \in 0 .. m |-> IF i = m THEN s[m - 1] + d[m] ELSE s[i]]
<1>6. t \in [0 .. m -> Int] /\ t[0] = 0
  BY <1>4, <1>5 DEF Sums
<1>7. ASSUME NEW i \in 1 .. m PROVE t[i] = t[i - 1] + d[i]
  <2>1. CASE i = m
    BY <1>4, <2>1
  <2>2. CASE i # m
    <3>1. i \in 1 .. m - 1 /\ i - 1 \in 0 .. m /\ i - 1 # m
      BY <1>4, <2>2
    <3>. QED
      BY <1>4, <1>5, <2>2, <3>1 DEF Sums
  <2>. QED
    BY <2>1, <2>2
<1>8. Sums(m, d, t)
  <2>. HIDE DEF t
  <2>. QED
    BY <1>6, <1>7 DEF Sums
<1>. QED
  BY <1>2, <1>8

\* The sums are determined.
LEMMA SumsUnique ==
  ASSUME NEW n \in Nat, NEW d \in [1 .. n -> Int], NEW s, Sums(n, d, s), NEW t, Sums(n, d, t)
  PROVE  s = t
<1>. DEFINE Bad == { i \in 0 .. n : s[i] # t[i] }
<1>1. ASSUME Bad # {} PROVE FALSE
  <2>1. PICK m \in Bad : \A k \in Bad : m <= k
    <3>1. Bad \subseteq Nat
      OBVIOUS
    <3>. HIDE DEF Bad
    <3>. QED
      BY <1>1, <3>1, LeastNatural
  <2>2. m # 0
    BY <2>1 DEF Sums
  <2>3. m \in 1 .. n /\ m - 1 \in 0 .. n /\ m - 1 \notin Bad
    BY <2>1, <2>2
  <2>4. s[m - 1] = t[m - 1]
    BY <2>3
  <2>5. s[m] = t[m]
    BY <2>3, <2>4 DEF Sums
  <2>. QED
    BY <2>1, <2>5
<1>2. \A i \in 0 .. n : s[i] = t[i]
  BY <1>1
<1>. QED
  BY <1>2 DEF Sums

\* The sum of n numbers.
SumOf(n, d) == (CHOOSE s : Sums(n, d, s))[n]

\* The sum of a list is the last of any list of its running sums.
LEMMA SumIs ==
  ASSUME NEW n \in Nat, NEW d \in [1 .. n -> Int], NEW s, Sums(n, d, s)
  PROVE  SumOf(n, d) = s[n] /\ s[n] \in Int
<1>1. Sums(n, d, CHOOSE t : Sums(n, d, t))
  OBVIOUS
<1>2. (CHOOSE t : Sums(n, d, t)) = s
  BY <1>1, SumsUnique
<1>3. s[n] \in Int
  BY DEF Sums
<1>. QED
  BY <1>2, <1>3 DEF SumOf

\* One of the numbers grows.
LEMMA SumGrows ==
  ASSUME NEW n \in Nat, NEW d \in [1 .. n -> Int], NEW x \in 1 .. n, NEW c \in Int,
         NEW e \in [1 .. n -> Int], e[x] = d[x] + c, \A i \in 1 .. n : i # x => e[i] = d[i]
  PROVE  SumOf(n, e) = SumOf(n, d) + c
<1>1. PICK s : Sums(n, d, s)
  BY SumsExist
<1>. DEFINE t == [i \in 0 .. n |-> IF i < x THEN s[i] ELSE s[i] + c]
<1>2. e \in [1 .. n -> Int] /\ \A i \in 1 .. n : e[i] = IF i = x THEN d[i] + c ELSE d[i]
  OBVIOUS
<1>3. t \in [0 .. n -> Int] /\ t[0] = 0
  BY <1>1 DEF Sums
<1>4. ASSUME NEW i \in 1 .. n PROVE t[i] = t[i - 1] + e[i]
  <2>1. /\ i - 1 \in 0 .. n /\ i \in 0 .. n /\ s[i] = s[i - 1] + d[i]
        /\ s[i] \in Int /\ s[i - 1] \in Int /\ d[i] \in Int
    BY <1>1 DEF Sums
  <2>2. t[i] = (IF i < x THEN s[i] ELSE s[i] + c) /\ t[i - 1] = (IF i - 1 < x THEN s[i - 1] ELSE s[i - 1] + c)
    BY <2>1
  <2>. HIDE DEF t
  <2>3. CASE i < x
    BY <1>2, <2>1, <2>2, <2>3
  <2>4. CASE i = x
    BY <1>2, <2>1, <2>2, <2>4
  <2>5. CASE i > x
    <3>1. ~ (i < x) /\ ~ (i - 1 < x) /\ e[i] = d[i]
      BY <1>2, <2>5
    <3>. QED
      BY <2>1, <2>2, <3>1
  <2>. QED
    BY <2>3, <2>4, <2>5
<1>5. t[n] = s[n] + c
  BY <1>3
<1>. HIDE DEF t
<1>6. Sums(n, e, t)
  BY <1>3, <1>4 DEF Sums
<1>7. SumOf(n, d) = s[n] /\ SumOf(n, e) = t[n]
  BY <1>1, <1>2, <1>6, SumIs
<1>. QED
  BY <1>5, <1>7

\* Sums of numbers that are not negative never fall.
LEMMA SumsRise ==
  ASSUME NEW n \in Nat, NEW e \in [1 .. n -> Int], \A i \in 1 .. n : e[i] >= 0, NEW t, Sums(n, e, t)
  PROVE  \A i \in 0 .. n : t[i] <= t[n]
<1>. DEFINE Bad == { k \in 0 .. n : ~ (t[n - k] <= t[n]) }
<1>1. ASSUME Bad # {} PROVE FALSE
  <2>1. PICK k \in Bad : \A b \in Bad : k <= b
    <3>1. Bad \subseteq Nat
      OBVIOUS
    <3>. HIDE DEF Bad
    <3>. QED
      BY <1>1, <3>1, LeastNatural
  <2>2. t[n] \in Int
    BY DEF Sums
  <2>3. k # 0
    BY <2>1, <2>2
  <2>4. k - 1 \in 0 .. n /\ ~ (k <= k - 1) /\ n - (k - 1) \in 1 .. n /\ (n - (k - 1)) - 1 = n - k /\ n - k \in 0 .. n
    BY <2>1, <2>3
  <2>5. t[n - (k - 1)] <= t[n]
    BY <2>1, <2>4
  <2>. DEFINE q == n - (k - 1)
  <2>6. q \in 1 .. n /\ q - 1 = n - k /\ q - 1 \in 0 .. n /\ t[q] <= t[n]
    BY <2>4, <2>5
  <2>. HIDE DEF q
  <2>7. t[q] = t[q - 1] + e[q] /\ t[q - 1] \in Int /\ t[q] \in Int /\ e[q] \in Int /\ e[q] >= 0
    BY <2>6 DEF Sums
  <2>8. t[q - 1] <= t[n]
    BY <2>2, <2>6, <2>7
  <2>9. t[n - k] <= t[n]
    BY <2>6, <2>8
  <2>. QED
    BY <2>1, <2>9
<1>. QED
  <2>. TAKE i \in 0 .. n
  <2>1. n - i \in 0 .. n /\ n - (n - i) = i
    OBVIOUS
  <2>2. \A k \in 0 .. n : t[n - k] <= t[n]
    BY <1>1
  <2>3. t[n - (n - i)] <= t[n]
    BY <2>1, <2>2
  <2>. QED
    BY <2>1, <2>3

\* d has the numbers D has in A, as g orders them, and D has no others.
Arranges(n, D, A, m, g, d) ==
  /\ D \in [1 .. n -> Int] /\ A \subseteq 1 .. n /\ \A r \in 1 .. n : r \notin A => D[r] = 0
  /\ Numbered(m, g, A) /\ d \in [1 .. m -> Int] /\ \A i \in 1 .. m : d[i] = D[g[i]]

\* However its numbers are ordered, a sum is the same.
LEMMA SumsInAnyOrder ==
  ASSUME NEW n \in Nat, NEW D, NEW A, NEW m, NEW g, NEW d, Arranges(n, D, A, m, g, d),
         NEW s, Sums(m, d, s)
  PROVE  s[m] = SumOf(n, D)
<1>. D \in [1 .. n -> Int] /\ A \subseteq 1 .. n /\ (\A r \in 1 .. n : r \notin A => D[r] = 0)
     /\ d \in [1 .. m -> Int] /\ \A i \in 1 .. m : d[i] = D[g[i]]
  BY DEF Arranges
<1>. DEFINE P(i) == { g[k] : k \in 1 .. i }
            E(i) == [r \in 1 .. n |-> IF r \in P(i) THEN D[r] ELSE 0]
            t == [i \in 0 .. m |-> SumOf(n, E(i))]
<1>0. m \in Nat /\ g \in [1 .. m -> A] /\ (\A a, b \in 1 .. m : g[a] = g[b] => a = b) /\ \A r \in A : \E i \in 1 .. m : g[i] = r
  BY DEF Arranges, Numbered
<1>1. \A i \in 0 .. m : E(i) \in [1 .. n -> Int]
  OBVIOUS
<1>2. E(m) = D
  <2>1. P(m) = A
    <3>1. \A k \in 1 .. m : g[k] \in A
      BY <1>0
    <3>2. \A r \in A : r \in P(m)
      BY <1>0
    <3>. QED
      BY <3>1, <3>2
  <2>2. \A r \in 1 .. n : (IF r \in A THEN D[r] ELSE 0) = D[r]
    OBVIOUS
  <2>. QED
    BY <2>1, <2>2
<1>3. SumOf(n, E(0)) = 0
  <2>1. P(0) = {}
    OBVIOUS
  <2>2. E(0) = [r \in 1 .. n |-> 0]
    BY <2>1
  <2>. DEFINE z == [i \in 0 .. n |-> 0]
              y == [r \in 1 .. n |-> 0]
  <2>3. Sums(n, y, z) /\ z[n] = 0 /\ y \in [1 .. n -> Int]
    BY DEF Sums
  <2>. HIDE DEF y, z
  <2>4. SumOf(n, y) = 0
    BY <2>3, SumIs
  <2>. QED
    BY <2>2, <2>4 DEF y
<1>4. ASSUME NEW i \in 1 .. m PROVE SumOf(n, E(i)) = SumOf(n, E(i - 1)) + d[i]
  <2>1. g[i] \in 1 .. n /\ d[i] = D[g[i]] /\ d[i] \in Int /\ i - 1 \in 0 .. m /\ i \in 0 .. m
    <3>1. g[i] \in A
      BY <1>0
    <3>2. i - 1 \in 0 .. m /\ i \in 0 .. m
      BY <1>0
    <3>. HIDE DEF P
    <3>. QED
      BY <3>1, <3>2
  <2>2. \A k \in 1 .. i : k \in 1 .. i - 1 \/ k = i
    OBVIOUS
  <2>3. P(i) = P(i - 1) \union {g[i]}
    BY <2>2
  <2>4. g[i] \notin P(i - 1)
    <3>1. \A k \in 1 .. i - 1 : k \in 1 .. m /\ k # i
      BY <1>0
    <3>. QED
      BY <1>0, <3>1
  <2>5. E(i - 1) \in [1 .. n -> Int] /\ E(i) \in [1 .. n -> Int]
    BY <1>1, <2>1
  <2>6. E(i)[g[i]] = E(i - 1)[g[i]] + d[i]
    BY <2>1, <2>3, <2>4
  <2>7. \A r \in 1 .. n : r # g[i] => E(i)[r] = E(i - 1)[r]
    BY <2>3
  <2>. DEFINE x == g[i]
              c == d[i]
              e0 == E(i - 1)
              e1 == E(i)
  <2>8. x \in 1 .. n /\ c \in Int /\ e0 \in [1 .. n -> Int] /\ e1 \in [1 .. n -> Int] /\ e1[x] = e0[x] + c
        /\ \A r \in 1 .. n : r # x => e1[r] = e0[r]
    BY <2>1, <2>5, <2>6, <2>7
  <2>. HIDE DEF x, c, e0, e1, E
  <2>9. SumOf(n, e1) = SumOf(n, e0) + c
    BY <2>8, SumGrows
  <2>. QED
    BY <2>9 DEF e0, e1, c
<1>5. \A i \in 0 .. m : SumOf(n, E(i)) \in Int
  <2>. TAKE i \in 0 .. m
  <2>. DEFINE e == E(i)
  <2>1. e \in [1 .. n -> Int]
    BY <1>1
  <2>. HIDE DEF e
  <2>2. PICK q : Sums(n, e, q)
    BY <2>1, SumsExist
  <2>3. SumOf(n, e) \in Int
    BY <2>1, <2>2, SumIs
  <2>. QED
    BY <2>3 DEF e
<1>. HIDE DEF E
<1>6. Sums(m, d, t)
  BY <1>0, <1>3, <1>4, <1>5 DEF Sums
<1>7. t = s
  <2>. HIDE DEF t
  <2>. QED
    BY <1>0, <1>6, SumsUnique
<1>. QED
  BY <1>0, <1>2, <1>7
=============================================================================
