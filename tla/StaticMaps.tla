----------------------------- MODULE StaticMaps -----------------------------
(***************************************************************************)
(* Static tables as the compiled query probes them: build_keys             *)
(* (packages/confit/src/duckdb/mod.rs) flattens each row's key into slots, *)
(* prepare_statics (specializer/exec/interp.rs) puts f64 slots in their    *)
(* canonical bits and sorts, and a probe searches the sorted entries.      *)
(*                                                                         *)
(* A key cell is a member of Raw, standing for the bits of a double, or    *)
(* Null. Canon maps the bits of -0.0 to those of 0.0 and every NaN to one. *)
(* A table is a sequence of rows [key, row], key a sequence of cells and   *)
(* row the row's number.                                                   *)
(***************************************************************************)
EXTENDS Integers, Sequences, FiniteSets

CONSTANTS
  Raw,    \* the bits of doubles, naturals; 0 is 0.0
  Canon,  \* canon_f64_bits
  Null    \* SQL NULL

ASSUME RawAssumption ==
  /\ {0, 1} \subseteq Raw /\ Raw \subseteq Nat /\ Null \notin Raw
  /\ Canon \in [Raw -> Raw] /\ Canon[0] = 0 /\ Canon[1] = 1
  /\ \A x \in Raw : Canon[Canon[x]] = Canon[x]

Cells == Raw \union {Null}

\* One key component's slots: `=' stores the payload alone, IS NOT DISTINCT
\* FROM a validity and the payload, a NULL's being the type's default.
BareSlots(cmp, cell) == <<IF cell = Null THEN 0 ELSE cell>>   \* mutant
Slots(cmp, cell) ==
  CASE cmp = "eq"                    -> <<IF cell = Null THEN 0 ELSE cell>>
    [] cmp # "eq" /\ cell = Null     -> <<0, 0>>
    [] OTHER                         -> <<1, cell>>

\* The flattened key: the slots of its components, one after another.
KeySlots(cmps, key) ==
  LET S[i \in 0 .. Len(cmps)] ==
        IF i = 0 THEN <<>> ELSE S[i - 1] \o Slots(cmps[i], key[i])
  IN  S[Len(cmps)]

\* A NULL `=' component: no row equals it.
NullKey(cmps, key) == \E i \in DOMAIN cmps : cmps[i] = "eq" /\ key[i] = Null

CanonBits(slots) == [i \in DOMAIN slots |-> Canon[slots[i]]]

Stored(cmps, table, r) == CanonBits(KeySlots(cmps, table[r].key))

SlotsBelow(x, y) ==
  \E i \in DOMAIN x : x[i] < y[i] /\ \A j \in 1 .. i - 1 : x[j] = y[j]

\* The sort is stable: rows with equal keys stay in insertion order.
SortsBefore(cmps, table, q, r) ==
  LET x == Stored(cmps, table, q)
      y == Stored(cmps, table, r)
  IN  SlotsBelow(x, y) \/ (x = y /\ q < r)

\* The prepared entries: the rows of a built table and their keys, each at its
\* rank.
Entries(cmps, table) ==
  LET Rank(r) == Cardinality({ q \in DOMAIN table : SortsBefore(cmps, table, q, r) })
      At(i) == CHOOSE r \in DOMAIN table : Rank(r) = i - 1
  IN  [i \in DOMAIN table |-> [key |-> Stored(cmps, table, At(i)), row |-> table[At(i)].row]]

\* What prepare_statics refuses of a map: two rows of one key, KeylessRows and
\* DuplicateKey alike.
HasDuplicate(entries) ==
  \E i \in 1 .. Len(entries) - 1 : entries[i].key = entries[i + 1].key

\* partition_point: the halving search for the first of n entries of which
\* `below' does not hold; w is the window left, places count from 0.
PartitionPoint(below, n) ==
  LET P[w \in (0 .. n) \X (0 .. n)] ==
        LET mid == (w[1] + w[2]) \div 2 IN
        IF w[1] >= w[2] THEN w[1]
        ELSE IF below[mid] THEN P[<<mid + 1, w[2]>>] ELSE P[<<w[1], mid>>]
  IN  P[<<0, n>>]

\* cmp_key puts the probe's f64 registers in canonical bits as it compares.
ProbeBits(cmps, key) == CanonBits(KeySlots(cmps, key))

\* [lo, hi) of the entries equal to the key, empty if a plain key is NULL;
\* every entry if there is no key. A self-join's rows, those of the request,
\* are a table without a key.
ProbeRange(cmps, entries, key) ==
  LET n == Len(entries)
      k == ProbeBits(cmps, key)
  IN  IF NullKey(cmps, key) THEN <<0, 0>>
      ELSE <<PartitionPoint([i \in 0 .. n - 1 |-> SlotsBelow(entries[i + 1].key, k)], n),
             PartitionPoint([i \in 0 .. n - 1 |-> ~ SlotsBelow(k, entries[i + 1].key)], n)>>

\* Probe of a map: the row of the key, or 0.
Found(cmps, entries, key) ==
  LET rg == ProbeRange(cmps, entries, key) IN
  IF rg[1] < rg[2] THEN entries[rg[1] + 1].row ELSE 0

\* What SQL says two keys are: `=' of doubles has -0.0 = 0.0 and NaN = NaN.
SameKey(cmps, a, b) ==
  \A i \in DOMAIN cmps :
    \/ {a[i], b[i]} \subseteq Raw /\ Canon[a[i]] = Canon[b[i]]
    \/ a[i] = Null /\ b[i] = Null /\ cmps[i] = "indf"
=============================================================================
