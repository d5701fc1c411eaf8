------------------------------ MODULE LibProofs ------------------------------
(***************************************************************************)
(* What the operations of lib/ do, for every argument: what those on lists *)
(* link and unlink, and which bits bitmap_scan finds.                      *)
(***************************************************************************)
EXTENDS List, Bitmap, WellFoundedInduction, FiniteSetTheorems, TLAPS

\* list_append links one element, at the end.
LEMMA AppendLemma ==
    ASSUME NEW S, NEW s \in Seq(S), NEW e \in S
    PROVE  /\ list_append(s, e) \in Seq(S)
           /\ \A x : elem_find(list_append(s, e), x) <=> elem_find(s, x) \/ x = e
           /\ NoDup(s) /\ ~elem_find(s, e) => NoDup(list_append(s, e))
<1> DEFINE a == Append(s, e)
<1>1. /\ a \in Seq(S) /\ Len(a) = Len(s) + 1 /\ Len(s) \in Nat
      /\ a[Len(s) + 1] = e
      /\ \A i \in 1 .. Len(s) : a[i] = s[i]
  OBVIOUS
<1> HIDE DEF a
<1>2. \A x : elem_find(a, x) <=> elem_find(s, x) \/ x = e
  BY <1>1 DEF elem_find
<1>3. NoDup(s) /\ ~elem_find(s, e) => NoDup(a)
  BY <1>1 DEF NoDup, elem_find
<1> QED BY <1>1, <1>2, <1>3 DEF list_append, a

\* list_push links one element, at the front.
LEMMA PushLemma ==
    ASSUME NEW S, NEW s \in Seq(S), NEW e \in S
    PROVE  /\ list_push(s, e) \in Seq(S)
           /\ list_push(s, e) # << >>
           /\ \A x : elem_find(list_push(s, e), x) <=> elem_find(s, x) \/ x = e
           /\ NoDup(s) /\ ~elem_find(s, e) => NoDup(list_push(s, e))
<1> DEFINE a == << e >> \o s
<1>1. /\ a \in Seq(S) /\ Len(a) = Len(s) + 1 /\ Len(s) \in Nat
      /\ a[1] = e
      /\ \A i \in 1 .. Len(s) : a[i + 1] = s[i]
  OBVIOUS
<1> HIDE DEF a
<1>2. \A i \in 1 .. Len(a) : i = 1 \/ (i - 1 \in 1 .. Len(s) /\ a[i] = s[i - 1])
  <2> TAKE i \in 1 .. Len(a)
  <2>1. CASE i = 1 BY <2>1
  <2>2. CASE i # 1
    <3>1. i - 1 \in 1 .. Len(s) /\ (i - 1) + 1 = i BY <2>2, <1>1
    <3> QED BY <3>1, <1>1
  <2> QED BY <2>1, <2>2
<1>3. \A x : elem_find(a, x) <=> elem_find(s, x) \/ x = e
  <2> SUFFICES ASSUME NEW x PROVE elem_find(a, x) <=> elem_find(s, x) \/ x = e
    OBVIOUS
  <2>1. ASSUME elem_find(a, x) PROVE elem_find(s, x) \/ x = e
    BY <2>1, <1>1, <1>2 DEF elem_find
  <2>2. ASSUME elem_find(s, x) PROVE elem_find(a, x)
    <3>1. PICK i \in 1 .. Len(s) : s[i] = x BY <2>2 DEF elem_find
    <3>2. i + 1 \in 1 .. Len(a) /\ a[i + 1] = x BY <3>1, <1>1
    <3> QED BY <3>2 DEF elem_find
  <2>3. ASSUME x = e PROVE elem_find(a, x)
    <3>1. 1 \in 1 .. Len(a) BY <1>1
    <3> QED BY <2>3, <3>1, <1>1 DEF elem_find
  <2> QED BY <2>1, <2>2, <2>3
<1>4. NoDup(s) /\ ~elem_find(s, e) => NoDup(a)
  <2> SUFFICES ASSUME NoDup(s), ~elem_find(s, e),
                      NEW i \in 1 .. Len(a), NEW j \in 1 .. Len(a), a[i] = a[j]
               PROVE  i = j
    BY DEF NoDup
  <2>1. CASE i = 1 /\ j # 1
    BY <2>1, <1>1, <1>2 DEF elem_find
  <2>2. CASE i # 1 /\ j = 1
    BY <2>2, <1>1, <1>2 DEF elem_find
  <2>3. CASE i # 1 /\ j # 1
    <3>1. i - 1 \in 1 .. Len(s) /\ j - 1 \in 1 .. Len(s) /\ s[i - 1] = s[j - 1]
      BY <2>3, <1>2
    <3>2. i - 1 = j - 1 BY <3>1 DEF NoDup
    <3> QED BY <3>2
  <2> QED BY <2>1, <2>2, <2>3
<1>5. a # << >>
  BY <1>1
<1> QED BY <1>1, <1>3, <1>4, <1>5 DEF list_push, a

\* list_pop unlinks exactly the first element.
LEMMA PopLemma ==
    ASSUME NEW S, NEW s \in Seq(S), s # << >>, NoDup(s)
    PROVE  /\ list_first(s) \in S
           /\ elem_find(s, list_first(s))
           /\ list_pop(s) \in Seq(S)
           /\ NoDup(list_pop(s))
           /\ \A x : elem_find(list_pop(s), x) <=> elem_find(s, x) /\ x # list_first(s)
<1> DEFINE r == Tail(s)
<1>1. /\ Len(s) \in Nat \ {0} /\ s[1] \in S /\ Head(s) = s[1]
      /\ r \in Seq(S) /\ Len(r) = Len(s) - 1
      /\ \A i \in 1 .. Len(r) : r[i] = s[i + 1]
  OBVIOUS
<1> HIDE DEF r
<1>2. \A i \in 2 .. Len(s) : i - 1 \in 1 .. Len(r) /\ r[i - 1] = s[i]
  <2> TAKE i \in 2 .. Len(s)
  <2>1. i - 1 \in 1 .. Len(r) /\ (i - 1) + 1 = i BY <1>1
  <2> QED BY <2>1, <1>1
<1>3. elem_find(s, s[1])
  BY <1>1 DEF elem_find
<1>4. NoDup(r)
  <2> SUFFICES ASSUME NEW i \in 1 .. Len(r), NEW j \in 1 .. Len(r), r[i] = r[j]
               PROVE  i = j
    BY DEF NoDup
  <2>1. i + 1 \in 1 .. Len(s) /\ j + 1 \in 1 .. Len(s) /\ s[i + 1] = s[j + 1]
    BY <1>1
  <2> QED BY <2>1, <1>1 DEF NoDup
<1>5. \A x : elem_find(r, x) <=> elem_find(s, x) /\ x # s[1]
  <2> SUFFICES ASSUME NEW x
               PROVE  elem_find(r, x) <=> elem_find(s, x) /\ x # s[1]
    OBVIOUS
  <2>1. ASSUME elem_find(r, x) PROVE elem_find(s, x) /\ x # s[1]
    <3>1. PICK i \in 1 .. Len(r) : r[i] = x BY <2>1 DEF elem_find
    <3>2. i + 1 \in 1 .. Len(s) /\ s[i + 1] = x /\ i + 1 # 1 /\ 1 \in 1 .. Len(s)
      BY <3>1, <1>1
    <3> QED BY <3>2 DEF elem_find, NoDup
  <2>2. ASSUME elem_find(s, x), x # s[1] PROVE elem_find(r, x)
    <3>1. PICK i \in 1 .. Len(s) : s[i] = x BY <2>2 DEF elem_find
    <3>2. i \in 2 .. Len(s) BY <3>1, <2>2, <1>1
    <3> QED BY <3>1, <3>2, <1>2 DEF elem_find
  <2> QED BY <2>1, <2>2
<1> QED BY <1>1, <1>3, <1>4, <1>5 DEF list_first, list_pop, r

-----------------------------------------------------------------------------
(* Finite sets of integers in order.                                       *)

Below(S, f) == {g \in S : g < f}
Rank(S, f) == Cardinality(Below(S, f))

\* Ranks in a set run from 0 to one less than its size, in the order of its members.
LEMMA Ranks ==
    ASSUME NEW S \in SUBSET Int, IsFiniteSet(S)
    PROVE  /\ Cardinality(S) \in Nat
           /\ \A f \in S : Rank(S, f) \in 0 .. Cardinality(S) - 1
           /\ \A f, g \in S : f # g => Rank(S, f) # Rank(S, g)
<1>1. Cardinality(S) \in Nat
    BY FS_CardinalityType
<1>2. ASSUME NEW f \in S PROVE Rank(S, f) \in 0 .. Cardinality(S) - 1 /\ IsFiniteSet(Below(S, f))
  <2>1. Below(S, f) \in SUBSET S /\ f \notin Below(S, f)
    BY DEF Below
  <2>2. /\ IsFiniteSet(Below(S, f)) /\ Rank(S, f) <= Cardinality(S)
        /\ Cardinality(S) # Rank(S, f)
    BY <2>1, FS_Subset DEF Rank
  <2>3. Rank(S, f) \in Nat
    BY <2>2, FS_CardinalityType DEF Rank
  <2>4. QED
    BY <1>1, <2>2, <2>3
<1>3. ASSUME NEW f \in S, NEW g \in S, f < g PROVE Rank(S, f) # Rank(S, g)
  <2>0. \A h \in Below(S, f) : h \in Below(S, g)
    BY <1>3 DEF Below
  <2>1. Below(S, f) \in SUBSET Below(S, g) /\ f \in Below(S, g) /\ f \notin Below(S, f)
    <3>1. Below(S, f) \in SUBSET Below(S, g)
      BY <2>0
    <3>2. f \in Below(S, g) /\ f \notin Below(S, f)
      BY <1>3 DEF Below
    <3>3. QED
      BY <3>1, <3>2
  <2>2. QED
    BY <1>2, <2>1, FS_Subset DEF Rank
<1>4. \A f, g \in S : f # g => f < g \/ g < f
    OBVIOUS
<1>5. QED
    BY <1>1, <1>2, <1>3, <1>4

\* Every rank has a member.
LEMMA OfRank ==
    ASSUME NEW S \in SUBSET Int, IsFiniteSet(S), NEW i \in 0 .. Cardinality(S) - 1
    PROVE  \E f \in S : Rank(S, f) = i
<1> DEFINE T == 0 .. Cardinality(S) - 1
           rank == [f \in S |-> Rank(S, f)]
<1>1. Cardinality(S) \in Nat
    BY FS_CardinalityType
<1>2. IsFiniteSet(T) /\ Cardinality(T) = Cardinality(S)
  <2>1. 0 \in Int /\ Cardinality(S) - 1 \in Int
    BY <1>1
  <2>2. IsFiniteSet(T) /\ Cardinality(T) = IF 0 > Cardinality(S) - 1 THEN 0 ELSE Cardinality(S) - 1 - 0 + 1
    BY <2>1, FS_Interval
  <2>3. QED
    BY <1>1, <2>2
<1>3. rank \in Injection(S, T)
  <2>1. rank \in [S -> T]
    BY Ranks
  <2>2. \A f, g \in S : rank[f] = rank[g] => f = g
    BY Ranks
  <2>3. QED
    BY <2>1, <2>2 DEF Injection, IsInjective
<1>4. rank \in Surjection(S, T)
  <2> HIDE DEF rank, T
  <2> QED BY <1>2, <1>3, FS_Injection
<1>5. QED
    BY <1>4 DEF Surjection

\* list_remove unlinks the elements of a set and no others.
LEMMA RemoveLemma ==
    ASSUME NEW S, NEW s \in Seq(S), NEW elems, NoDup(s)
    PROVE  /\ list_remove(s, elems) \in Seq(S)
           /\ NoDup(list_remove(s, elems))
           /\ \A x : elem_find(list_remove(s, elems), x) <=> elem_find(s, x) /\ x \notin elems
<1> DEFINE left == {i \in 1 .. Len(s) : s[i] \notin elems}
           nth(k) == CHOOSE i \in left : Cardinality({j \in left : j < i}) = k - 1
           r == [k \in 1 .. Cardinality(left) |-> s[nth(k)]]
<1>1. left \in SUBSET Int /\ IsFiniteSet(left) /\ Cardinality(left) \in Nat
  <2>1. IsFiniteSet(1 .. Len(s)) /\ left \in SUBSET (1 .. Len(s)) /\ left \in SUBSET Int
    BY FS_Interval
  <2> HIDE DEF left
  <2>2. QED
    BY <2>1, FS_Subset, FS_CardinalityType
<1>2. ASSUME NEW k \in 1 .. Cardinality(left)
      PROVE  nth(k) \in left /\ Rank(left, nth(k)) = k - 1
  <2>1. k - 1 \in 0 .. Cardinality(left) - 1
    BY <1>1
  <2>2. \E i \in left : Rank(left, i) = k - 1
    <3> HIDE DEF left
    <3> QED BY <1>1, <2>1, OfRank
  <2>3. QED
    BY <2>2 DEF Rank, Below
<1>3. r \in Seq(S) /\ Len(r) = Cardinality(left)
  <2>0. \A i \in left : s[i] \in S
    OBVIOUS
  <2>1. \A k \in 1 .. Cardinality(left) : s[nth(k)] \in S
    <3> HIDE DEF nth, left
    <3> QED BY <1>2, <2>0
  <2> HIDE DEF nth, left
  <2>2. r \in [1 .. Cardinality(left) -> S]
    BY <2>1
  <2>3. QED
    BY <1>1, <2>2
<1>4. \A k \in 1 .. Len(r) : nth(k) \in 1 .. Len(s) /\ r[k] = s[nth(k)] /\ r[k] \notin elems
    BY <1>2, <1>3
<1>5. NoDup(r)
  <2> SUFFICES ASSUME NEW k \in 1 .. Len(r), NEW l \in 1 .. Len(r), r[k] = r[l] PROVE k = l
    BY DEF NoDup
  <2>1. nth(k) = nth(l)
    BY <1>4 DEF NoDup
  <2>2. k - 1 = l - 1
    BY <1>2, <1>3, <2>1
  <2>3. QED
    BY <2>2
<1>6. ASSUME NEW x, elem_find(s, x), x \notin elems PROVE elem_find(r, x)
  <2>1. PICK i \in left : s[i] = x
    BY <1>6 DEF elem_find
  <2> DEFINE k == Rank(left, i) + 1
  <2>2. k \in 1 .. Cardinality(left) /\ k - 1 = Rank(left, i)
    <3>1. Rank(left, i) \in 0 .. Cardinality(left) - 1
      <4> HIDE DEF left
      <4> QED BY <1>1, <2>1, Ranks
    <3>2. QED
      BY <1>1, <3>1
  <2> HIDE DEF k
  <2>3. nth(k) = i
    <3>1. nth(k) \in left /\ Rank(left, nth(k)) = Rank(left, i)
      BY <1>2, <2>2
    <3> HIDE DEF left, nth
    <3>2. QED
      BY <1>1, <2>1, <3>1, Ranks
  <2>4. QED
    BY <1>3, <1>4, <2>1, <2>2, <2>3 DEF elem_find
<1>7. ASSUME NEW x, elem_find(r, x) PROVE elem_find(s, x) /\ x \notin elems
    BY <1>4, <1>7 DEF elem_find
<1>8. list_remove(s, elems) = r
    BY DEF list_remove
<1>9. QED
    BY <1>3, <1>5, <1>6, <1>7, <1>8

-----------------------------------------------------------------------------
(* Bitmaps.                                                                *)

\* A set of integers with a lower bound has a least one.
LEMMA LeastInt ==
    ASSUME NEW T, T \subseteq Int, T # {}, NEW m \in Int, \A x \in T : m <= x
    PROVE  \E x \in T : \A y \in T : x <= y
<1> DEFINE N == {n \in Nat : n + m \in T}
<1>1. N # {}
  <2>1. PICK x \in T : TRUE
    OBVIOUS
  <2>2. x - m \in N
    BY <2>1
  <2>3. QED
    BY <2>2
<1>2. \E n \in N : \A k \in N : ~(<< k, n >> \in OpToRel(<, Nat))
    BY <1>1, NatLessThanWellFounded, WFMin
<1>3. PICK n \in N : \A k \in N : ~(<< k, n >> \in OpToRel(<, Nat))
    BY <1>2
<1>4. \A k \in N : ~(k < n)
    BY <1>3, Zenon DEF OpToRel
<1>5. ASSUME NEW y \in T PROVE n + m <= y
  <2>1. y - m \in N
    OBVIOUS
  <2>2. QED
    BY <1>4, <2>1
<1>6. QED
    BY <1>5

IsBitmap(btmp, len) == btmp \in [0 .. 8 * len -> {0, 1}]

\* cnt clear bits in a row, from s on.
Run(btmp, s, cnt) == \A i \in s .. s + cnt - 1 : btmp[i] = 0

\* What the walk is after when it has come to bit b and c clear bits lie before it: the
\* runs of cnt bits from b - c on.
Sought(btmp, len, cnt, b, c) ==
    {s \in Int : /\ b - c <= s /\ s + cnt > b /\ s + cnt <= 8 * len + 1
                 /\ \A i \in b .. s + cnt - 1 : i >= s => btmp[i] = 0}

\* The result for such a set of runs.
Lowest(runs) == IF runs = {} THEN -1 ELSE CHOOSE s \in runs : \A r \in runs : s <= r

\* Lowest is the least run, and the only one.
LEMMA LowestLemma ==
    ASSUME NEW runs, runs \subseteq Int, NEW m \in Int, \A s \in runs : m <= s
    PROVE  /\ runs = {} => Lowest(runs) = -1
           /\ runs # {} => Lowest(runs) \in runs /\ \A r \in runs : Lowest(runs) <= r
           /\ \A s \in runs : (\A r \in runs : s <= r) => Lowest(runs) = s
<1>1. runs # {} => \E s \in runs : \A r \in runs : s <= r
    BY LeastInt
<1>2. runs # {} => Lowest(runs) \in runs /\ \A r \in runs : Lowest(runs) <= r
    BY <1>1 DEF Lowest
<1>3. ASSUME NEW s \in runs, \A r \in runs : s <= r PROVE Lowest(runs) = s
  <2>1. s <= Lowest(runs) /\ Lowest(runs) <= s /\ s \in Int /\ Lowest(runs) \in Int
    BY <1>2, <1>3
  <2>2. QED
    BY <2>1
<1>4. QED
    BY <1>2, <1>3 DEF Lowest

\* One turn of the walk: what it is after at the next bit.
LEMMA SoughtStep ==
    ASSUME NEW len \in Nat, NEW cnt \in Nat, cnt > 1, NEW btmp, IsBitmap(btmp, len),
           NEW b \in 0 .. 8 * len + 1, NEW c \in 0 .. cnt - 1
    PROVE  /\ b = 8 * len + 1 => Sought(btmp, len, cnt, b, c) = {}
           /\ b <= 8 * len /\ btmp[b] # 0 =>
                Sought(btmp, len, cnt, b, c) = Sought(btmp, len, cnt, b + 1, 0)
           /\ b <= 8 * len /\ btmp[b] = 0 /\ c + 1 < cnt =>
                Sought(btmp, len, cnt, b, c) = Sought(btmp, len, cnt, b + 1, c + 1)
           /\ b <= 8 * len /\ btmp[b] = 0 /\ c + 1 = cnt =>
                /\ b + 1 - cnt \in Sought(btmp, len, cnt, b, c)
                /\ \A s \in Sought(btmp, len, cnt, b, c) : b + 1 - cnt <= s
<1> DEFINE S(x, d) == Sought(btmp, len, cnt, x, d)
<1>1. b = 8 * len + 1 => S(b, c) = {}
    BY DEF Sought
<1>2. ASSUME b <= 8 * len, btmp[b] # 0
      PROVE  S(b, c) = S(b + 1, 0)
  <2>1. ASSUME NEW s \in S(b, c) PROVE s \in S(b + 1, 0)
    <3>1. ~(s <= b)
      BY <1>2, <2>1 DEF Sought
    <3>2. QED
      BY <2>1, <3>1 DEF Sought
  <2>2. ASSUME NEW s \in S(b + 1, 0) PROVE s \in S(b, c)
    BY <2>2 DEF Sought
  <2>3. QED
    BY <2>1, <2>2
<1>3. ASSUME b <= 8 * len, btmp[b] = 0, c + 1 < cnt
      PROVE  S(b, c) = S(b + 1, c + 1)
  <2>1. ASSUME NEW s \in S(b, c) PROVE s \in S(b + 1, c + 1)
    BY <2>1, <1>3 DEF Sought
  <2>2. ASSUME NEW s \in S(b + 1, c + 1) PROVE s \in S(b, c)
    BY <2>2, <1>3 DEF Sought
  <2>3. QED
    BY <2>1, <2>2
<1>4. ASSUME b <= 8 * len, btmp[b] = 0, c + 1 = cnt
      PROVE  b + 1 - cnt \in S(b, c) /\ \A s \in S(b, c) : b + 1 - cnt <= s
    BY <1>4 DEF Sought
<1>5. QED
    BY <1>1, <1>2, <1>3, <1>4

\* The second loop of bitmap_scan finds the lowest run from bit `first' on, if there is
\* one among the bits of the bitmap and the one after it.
LEMMA ScanWalk ==
    ASSUME NEW len \in Nat, NEW cnt \in Nat, cnt > 1, NEW btmp, IsBitmap(btmp, len),
           NEW first \in 0 .. 8 * len - 1
    PROVE  scan_walk(btmp, len, cnt, first) = Lowest(Sought(btmp, len, cnt, first + 1, 1))
<1> DEFINE D == (0 .. 8 * len + 1) \X (0 .. cnt - 1)
           Body(w, p) ==
                IF 8 * len + 1 - p[1] <= 0 THEN -1
                ELSE IF bitmap_scan_test(btmp, p[1]) THEN w[<< p[1] + 1, 0 >>]
                ELSE IF p[2] + 1 = cnt THEN p[1] + 1 - cnt
                ELSE w[<< p[1] + 1, p[2] + 1 >>]
           F == [p \in D |-> Lowest(Sought(btmp, len, cnt, p[1], p[2]))]
           walk == CHOOSE w : w = [p \in D |-> Body(w, p)]
<1>1. scan_walk(btmp, len, cnt, first) = walk[<< first + 1, 1 >>]
    BY DEF scan_walk
<1>2. ASSUME NEW w, NEW p \in D,
             8 * len + 1 - p[1] > 0 =>
                \A d \in 0 .. cnt - 1 : w[<< p[1] + 1, d >>] = F[<< p[1] + 1, d >>]
      PROVE  Body(w, p) = F[p]
  <2>1. PICK b \in 0 .. 8 * len + 1, c \in 0 .. cnt - 1 : p = << b, c >>
    OBVIOUS
  <2> DEFINE S == Sought(btmp, len, cnt, b, c)
  <2>2. S \subseteq Int /\ \A s \in S : b - c <= s
    BY DEF Sought
  <2>3. F[p] = Lowest(S)
    BY <2>1
  <2>4. CASE b = 8 * len + 1
    BY <2>1, <2>3, <2>4, SoughtStep DEF Lowest
  <2>5. CASE b <= 8 * len /\ btmp[b] # 0
    <3>1. F[<< b + 1, 0 >>] = Lowest(S)
      BY <2>5, SoughtStep
    <3>2. w[<< b + 1, 0 >>] = F[<< b + 1, 0 >>]
      <4>1. 0 \in 0 .. cnt - 1 /\ p[1] = b /\ 8 * len + 1 - p[1] > 0
        BY <2>1, <2>5
      <4> HIDE DEF F, D, Body
      <4>2. QED
        BY <1>2, <4>1
    <3>3. Body(w, p) = w[<< b + 1, 0 >>]
      BY <2>1, <2>5 DEF bitmap_scan_test
    <3>4. QED
      BY <2>3, <3>1, <3>2, <3>3
  <2>6. CASE b <= 8 * len /\ btmp[b] = 0 /\ c + 1 < cnt
    <3>1. F[<< b + 1, c + 1 >>] = Lowest(S)
      BY <2>6, SoughtStep
    <3>2. w[<< b + 1, c + 1 >>] = F[<< b + 1, c + 1 >>]
      <4>1. c + 1 \in 0 .. cnt - 1 /\ p[1] = b /\ 8 * len + 1 - p[1] > 0
        BY <2>1, <2>6
      <4> HIDE DEF F, D, Body
      <4>2. QED
        BY <1>2, <4>1
    <3>3. Body(w, p) = w[<< b + 1, c + 1 >>]
      BY <2>1, <2>6 DEF bitmap_scan_test
    <3>4. QED
      BY <2>3, <3>1, <3>2, <3>3
  <2>7. CASE b <= 8 * len /\ btmp[b] = 0 /\ c + 1 = cnt
    <3>0. b + 1 - cnt \in S /\ (\A s \in S : b + 1 - cnt <= s) /\ b - c \in Int
      BY <2>7, SoughtStep
    <3>1. Lowest(S) = b + 1 - cnt
      <4> HIDE DEF S
      <4>1. QED
        BY <2>2, <3>0, LowestLemma
    <3>2. QED
      BY <2>1, <2>3, <2>7, <3>1 DEF bitmap_scan_test
  <2>8. QED
    BY <2>4, <2>5, <2>6, <2>7 DEF IsBitmap
<1>3. F = [p \in D |-> Body(F, p)]
  <2>1. \A p \in D : Body(F, p) = F[p]
    BY <1>2
  <2>2. F = [p \in D |-> F[p]]
    OBVIOUS
  <2> HIDE DEF F, Body, D
  <2>3. QED
    BY <2>1, <2>2
<1>4. walk = [p \in D |-> Body(walk, p)]
    BY <1>3
<1>w. \A p \in D : walk[p] = Body(walk, p)
    BY <1>4
<1> HIDE DEF walk, Body
<1>5. \A p \in D : walk[p] = F[p]
  <2> DEFINE Bad == {n \in Nat : \E p \in D : n = 8 * len + 1 - p[1] /\ walk[p] # F[p]}
  <2> SUFFICES ASSUME Bad # {} PROVE FALSE
    OBVIOUS
  <2>0. Bad \subseteq Int /\ 0 \in Int /\ \A n \in Bad : 0 <= n
    OBVIOUS
  <2>1. PICK n \in Bad : \A k \in Bad : n <= k
    <3> HIDE DEF Bad
    <3>1. QED
      BY <2>0, LeastInt
  <2>2. PICK p \in D : n = 8 * len + 1 - p[1] /\ walk[p] # F[p]
    BY <2>1
  <2>3. ASSUME n > 0, NEW d \in 0 .. cnt - 1 
        PROVE walk[<< p[1] + 1, d >>] = F[<< p[1] + 1, d >>]
    <3>1. << p[1] + 1, d >> \in D /\ n - 1 = 8 * len + 1 - (p[1] + 1) /\ n - 1 \in Nat
      BY <2>2, <2>3
    <3>2. n - 1 \notin Bad
      BY <2>1
    <3>3. QED
      BY <3>1, <3>2
  <2>4. Body(walk, p) = F[p]
    <3>1. 8 * len + 1 - p[1] > 0 =>
            \A d \in 0 .. cnt - 1 : walk[<< p[1] + 1, d >>] = F[<< p[1] + 1, d >>]
      BY <2>2, <2>3
    <3> HIDE DEF F, Bad
    <3>2. QED
      BY <1>2, <3>1
  <2>5. QED
    BY <1>w, <2>2, <2>4
<1>6. QED
    BY <1>1, <1>5

\* The first byte that is not full, and the first clear bit in it, give the bitmap's
\* first clear bit.
LEMMA FirstClear ==
    ASSUME NEW len \in Nat, NEW btmp, IsBitmap(btmp, len),
           NEW index, index = first_byte(btmp, len),
           NEW first, first = 8 * index + first_offset(btmp, index)
    PROVE  /\ index = len => \A b \in 0 .. 8 * len - 1 : btmp[b] # 0
           /\ index # len => /\ first \in 0 .. 8 * len - 1 /\ btmp[first] = 0
                             /\ \A b \in 0 .. first - 1 : btmp[b] # 0
<1> DEFINE full(i) == byte_full(btmp, i)
           IsIndex(i) == (i = len \/ ~full(i)) /\ \A j \in 0 .. i - 1 : full(j)
           IsOffset(o) == /\ ~bitmap_scan_test(btmp, 8 * index + o)
                          /\ \A p \in 0 .. o - 1 : bitmap_scan_test(btmp, 8 * index + p)
           offset == first_offset(btmp, index)
<1>0. first = 8 * index + offset
    OBVIOUS
<1>1. \E i \in 0 .. len : IsIndex(i)
  <2> DEFINE T == {i \in 0 .. len : i = len \/ ~full(i)}
  <2>0. len \in T
    OBVIOUS
  <2>1. T \subseteq Int /\ 0 \in Int /\ \A i \in T : 0 <= i
    OBVIOUS
  <2>2. PICK i \in T : \A j \in T : i <= j
    <3> HIDE DEF T
    <3>1. QED
      BY <2>0, <2>1, LeastInt
  <2>3. \A j \in 0 .. i - 1 : full(j)
    BY <2>2
  <2>4. QED
    BY <2>2, <2>3
<1>2. index \in 0 .. len /\ IsIndex(index)
    BY <1>1 DEF first_byte
<1>3. index # len => \E o \in 0 .. 7 : IsOffset(o)
  <2> SUFFICES ASSUME index # len PROVE \E o \in 0 .. 7 : IsOffset(o)
    OBVIOUS
  <2> DEFINE T == {o \in 0 .. 7 : ~bitmap_scan_test(btmp, 8 * index + o)}
  <2>0. ~full(index)
    BY <1>2
  <2>1. T \subseteq Int /\ T # {} /\ 0 \in Int /\ \A o \in T : 0 <= o
    BY <2>0 DEF byte_full
  <2>2. PICK o \in T : \A p \in T : o <= p
    <3> HIDE DEF T
    <3>1. QED
      BY <2>1, LeastInt
  <2>3. QED
    BY <2>2
<1>4. index # len => offset \in 0 .. 7 /\ IsOffset(offset)
    BY <1>3 DEF first_offset
<1> HIDE DEF offset
<1>5. ASSUME NEW b \in Nat, b < 8 * index PROVE btmp[b] # 0
  <2>1. b \div 8 \in 0 .. index - 1 /\ b % 8 \in 0 .. 7 /\ b = 8 * (b \div 8) + (b % 8)
    BY <1>5, <1>2
  <2>2. bitmap_scan_test(btmp, 8 * (b \div 8) + (b % 8))
    BY <1>2, <2>1 DEF byte_full
  <2>3. QED
    BY <2>1, <2>2 DEF bitmap_scan_test
<1>6. index = len => \A b \in 0 .. 8 * len - 1 : btmp[b] # 0
    BY <1>5
<1>7. ASSUME index # len
      PROVE  /\ 8 * index + offset \in 0 .. 8 * len - 1
             /\ btmp[8 * index + offset] = 0
             /\ \A b \in 0 .. 8 * index + offset - 1 : btmp[b] # 0
  <2>1. offset \in 0 .. 7 /\ IsOffset(offset)
    BY <1>4, <1>7
  <2>2. 8 * index + offset \in 0 .. 8 * len - 1
    BY <1>2, <1>7, <2>1
  <2>3. btmp[8 * index + offset] = 0
    BY <2>1 DEF bitmap_scan_test
  <2>4. ASSUME NEW b \in 0 .. 8 * index + offset - 1 PROVE btmp[b] # 0
    <3>1. CASE b < 8 * index
      BY <1>5, <3>1
    <3>2. CASE b >= 8 * index
      <4>1. b - 8 * index \in 0 .. offset - 1 /\ b = 8 * index + (b - 8 * index)
        BY <1>2, <2>1, <3>2
      <4>2. bitmap_scan_test(btmp, 8 * index + (b - 8 * index))
        BY <2>1, <4>1
      <4>3. QED
        BY <4>1, <4>2 DEF bitmap_scan_test
    <3>3. QED
      BY <3>1, <3>2, <1>2
  <2>5. QED
    BY <2>2, <2>3, <2>4
<1>8. QED
  <2>1. CASE index = len
    BY <2>1, <1>6
  <2>2. CASE index # len
    <3>1. first \in 0 .. 8 * len - 1 /\ btmp[first] = 0
      BY <2>2, <1>0, <1>7
    <3>2. \A b \in 0 .. first - 1 : btmp[b] # 0
      BY <2>2, <1>0, <1>2, <1>4, <1>7
    <3>3. QED
      BY <2>2, <3>1, <3>2
  <2>3. QED
    BY <2>1, <2>2

\* bitmap_scan returns the lowest run of cnt clear bits, or -1 if there is none.  A run
\* of several bits may use the bit after the bitmap.
THEOREM ScanFirstFit ==
    ASSUME NEW len \in Nat, NEW cnt \in Nat \ {0}, NEW btmp, IsBitmap(btmp, len)
    PROVE  LET r == bitmap_scan(btmp, len, cnt)
           IN  \/ /\ r = -1
                  /\ \A s \in 0 .. 8 * len - cnt : ~Run(btmp, s, cnt)
               \/ /\ r \in 0 .. 8 * len - 1
                  /\ r + cnt <= (IF cnt = 1 THEN 8 * len ELSE 8 * len + 1)
                  /\ Run(btmp, r, cnt)
                  /\ \A s \in 0 .. 8 * len - cnt : Run(btmp, s, cnt) => r <= s
<1> DEFINE index == first_byte(btmp, len)
           first == 8 * index + first_offset(btmp, index)
           r == bitmap_scan(btmp, len, cnt)
<1>1. /\ index = len => \A b \in 0 .. 8 * len - 1 : btmp[b] # 0
      /\ index # len =>
            /\ first \in 0 .. 8 * len - 1
            /\ btmp[first] = 0
            /\ \A b \in 0 .. first - 1 : btmp[b] # 0
    BY FirstClear
<1>2. r = IF index = len THEN -1
          ELSE IF cnt = 1 THEN first ELSE scan_walk(btmp, len, cnt, first)
    BY DEF bitmap_scan
<1> HIDE DEF index, first, r
<1>3. ASSUME NEW s \in 0 .. 8 * len - cnt, Run(btmp, s, cnt)
      PROVE  index # len /\ first <= s
  <2>1. s \in 0 .. 8 * len - 1 /\ btmp[s] = 0
    BY <1>3 DEF Run
  <2>2. QED
    BY <1>1, <2>1
<1>4. CASE index = len
    BY <1>2, <1>3, <1>4 DEF r
<1>5. CASE index # len /\ cnt = 1
    BY <1>1, <1>2, <1>3, <1>5 DEF r, Run
<1>6. CASE index # len /\ cnt > 1
  <2> DEFINE S == Sought(btmp, len, cnt, first + 1, 1)
  <2>1. r = Lowest(S)
    BY <1>1, <1>2, <1>6, ScanWalk
  <2>2. S \subseteq Int /\ first \in Int /\ \A s \in S : first <= s
    BY <1>1, <1>6 DEF Sought
  <2>3. ASSUME NEW s \in 0 .. 8 * len - cnt, Run(btmp, s, cnt) PROVE s \in S
    BY <1>1, <1>3, <1>6, <2>3 DEF Sought, Run
  <2>4. ASSUME NEW s \in S
        PROVE  s \in 0 .. 8 * len - 1 /\ s + cnt <= 8 * len + 1 /\ Run(btmp, s, cnt)
    BY <1>1, <1>6, <2>4 DEF Sought, Run
  <2> HIDE DEF S
  <2>5. CASE S = {}
    BY <2>1, <2>2, <2>3, <2>5, LowestLemma DEF r
  <2>6. CASE S # {}
    <3>1. r \in S /\ \A s \in S : r <= s
      BY <2>1, <2>2, <2>6, LowestLemma
    <3>2. QED
      BY <1>6, <2>3, <2>4, <3>1 DEF r
  <2>7. QED
    BY <2>5, <2>6
<1>7. QED
    BY <1>4, <1>5, <1>6
=============================================================================
