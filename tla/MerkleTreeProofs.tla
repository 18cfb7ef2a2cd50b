--------------------------- MODULE MerkleTreeProofs ---------------------------
(***************************************************************************)
(* Proofs about MerkleTree, for any payloads and trees of any size: roots  *)
(* commit to the leaves, the tree is that of RFC 6962, a proof proves only *)
(* the leaf it is for, and in a perfect tree every proof verifies.         *)
(*                                                                         *)
(* Facts about the recursive functions are proved by induction on the size *)
(* of a range or the height of a tree, with sets of naturals in the place  *)
(* of predicates.  For each function one lemma shows that a table with its *)
(* rows exists, so that it satisfies the equation it is defined by; the    *)
(* rest cites only that equation.                                          *)
(***************************************************************************)
EXTENDS MerkleTree, NaturalsInduction, WellFoundedInduction, TLAPS
-----------------------------------------------------------------------------
(* Induction, and the powers of two *)

\* Every nonempty set of naturals has a least element.
LEMMA LeastNat ==
  ASSUME NEW T, T \subseteq Nat, T # {}
  PROVE  \E n \in T : \A m \in T : n <= m
<1>1. IsWellFoundedOn(OpToRel(<, Nat), Nat)
  BY NatLessThanWellFounded
<1>2. ASSUME NEW x \in Nat, NEW y \in Nat, x < y PROVE <<x, y>> \in OpToRel(<, Nat)
  BY <1>2 DEF OpToRel
<1>3. \E n \in T : \A m \in T : ~ (<<m, n>> \in OpToRel(<, Nat))
  BY <1>1, WFMin, Zenon
<1>4. \E n \in T : \A m \in T : ~ (m < n)
  BY <1>2, <1>3, Zenon
<1>. QED
  BY <1>4, SMT

\* A set that holds a natural whenever it holds all smaller ones holds them all.
LEMMA Induction ==
  ASSUME NEW T, \A n \in Nat : (\A m \in Nat : m < n => m \in T) => n \in T
  PROVE  \A n \in Nat : n \in T
<1> SUFFICES ASSUME NEW x \in Nat, x \notin T PROVE FALSE
  OBVIOUS
<1>1. Nat \ T \subseteq Nat /\ Nat \ T # {}
  OBVIOUS
<1>2. PICK n \in Nat \ T : \A m \in Nat \ T : n <= m
  BY <1>1, LeastNat, Zenon
<1>3. ASSUME NEW m \in Nat, m < n PROVE m \in T
  BY <1>2, <1>3
<1>. QED
  BY <1>3

\* pow2 satisfies its defining equation.
LEMMA Pow2Is ==
  pow2 = [i \in 0..MaxLeaves |-> IF i = 0 THEN 1 ELSE 2 * pow2[i - 1]]
<1> DEFINE Is(h, n) == h = [i \in 0..n |-> IF i = 0 THEN 1 ELSE 2 * h[i - 1]]
           T == {n \in Nat : \E h : Is(h, n)}
<1>1. ASSUME NEW n \in Nat, \A m \in Nat : m < n => m \in T PROVE n \in T
  <2>1. CASE n = 0
    <3>1. Is([i \in 0..0 |-> 1], 0)
      OBVIOUS
    <3>. QED
      BY <2>1, <3>1
  <2>2. CASE n # 0
    <3>1. n - 1 \in T
      BY <1>1, <2>2
    <3>2. PICK h : Is(h, n - 1)
      BY <3>1
    <3> DEFINE g == [i \in 0..n |-> IF i = n THEN 2 * h[n - 1] ELSE h[i]]
    <3>3. ASSUME NEW i \in 0..n PROVE g[i] = IF i = 0 THEN 1 ELSE 2 * g[i - 1]
      BY <2>2, <3>2
    <3>4. Is(g, n)
      <4> HIDE DEF g
      <4>1. g = [i \in 0..n |-> g[i]]
        BY DEF g
      <4>. QED
        BY <3>3, <4>1
    <3>. QED
      BY <3>4
  <2>. QED
    BY <2>1, <2>2
<1>2. MaxLeaves \in T
  <2> HIDE DEF T
  <2>. QED
    BY <1>1, Induction, MerkleAssumption
<1>3. \E h : Is(h, MaxLeaves)
  BY <1>2
<1>4. Is(CHOOSE h : Is(h, MaxLeaves), MaxLeaves)
  BY <1>3, Zenon
<1>. QED
  BY <1>4 DEF pow2

\* The powers are naturals that double, and the i-th exceeds i.
LEMMA Pow2Grows ==
  /\ pow2[0] = 1
  /\ \A i \in 0..MaxLeaves : pow2[i] \in Nat /\ pow2[i] > i
  /\ \A i \in 1..MaxLeaves : pow2[i] = 2 * pow2[i - 1]
<1>1. pow2[0] = 1 /\ \A i \in 1..MaxLeaves : pow2[i] = 2 * pow2[i - 1]
  BY Pow2Is, MerkleAssumption
<1> DEFINE T == {n \in Nat : n <= MaxLeaves => pow2[n] \in Nat /\ pow2[n] > n}
<1>2. ASSUME NEW n \in Nat, \A m \in Nat : m < n => m \in T PROVE n \in T
  <2>1. CASE n = 0
    BY <1>1, <2>1
  <2>2. CASE n # 0
    <3>1. n - 1 \in T
      BY <1>2, <2>2
    <3>. QED
      BY <1>1, <2>2, <3>1, MerkleAssumption
  <2>. QED
    BY <2>1, <2>2
<1>3. \A n \in Nat : n \in T
  <2> HIDE DEF T
  <2>. QED
    BY <1>2, Induction
<1>. QED
  BY <1>1, <1>3, MerkleAssumption

\* A smaller exponent gives a smaller power.
LEMMA Pow2Mono ==
  ASSUME NEW i \in 0..MaxLeaves, NEW j \in 0..MaxLeaves, j < i
  PROVE  2 * pow2[j] <= pow2[i]
<1> DEFINE T == {n \in Nat : n <= MaxLeaves /\ j < n => 2 * pow2[j] <= pow2[n]}
<1>1. ASSUME NEW n \in Nat, \A m \in Nat : m < n => m \in T PROVE n \in T
  <2> SUFFICES ASSUME n <= MaxLeaves, j < n PROVE 2 * pow2[j] <= pow2[n]
    OBVIOUS
  <2>1. n - 1 \in T /\ n - 1 \in Nat
    BY <1>1
  <2>2. pow2[n] = 2 * pow2[n - 1] /\ pow2[n - 1] \in Nat /\ pow2[j] \in Nat
    BY Pow2Grows, MerkleAssumption
  <2>3. j = n - 1 \/ 2 * pow2[j] <= pow2[n - 1]
    BY <2>1, MerkleAssumption
  <2>. QED
    BY <2>2, <2>3
<1>2. \A n \in Nat : n \in T
  <2> HIDE DEF T
  <2>. QED
    BY <1>1, Induction
<1>. QED
  BY <1>2, MerkleAssumption

\* Between two consecutive powers, the loop returns the lower one.
LEMMA LargestIs ==
  ASSUME NEW e \in 1..MaxLeaves, NEW n \in Nat, pow2[e - 1] < n, n <= pow2[e]
  PROVE  largest_pow2_less_than(n) = pow2[e - 1]
<1> DEFINE Stops(i) == pow2[i] >= n /\ \A j \in 0..(i - 1) : pow2[j] < n
           rounds == CHOOSE i \in 0..MaxLeaves : Stops(i)
<1>1. e \in 0..MaxLeaves /\ e - 1 \in 0..MaxLeaves
  BY MerkleAssumption
<1>2. ASSUME NEW j \in 0..(e - 1) PROVE pow2[j] < n
  <2>1. j = e - 1 \/ j < e - 1
    BY <1>1
  <2>2. j \in 0..MaxLeaves
    BY <1>1, MerkleAssumption
  <2>3. pow2[j] \in Nat /\ pow2[e - 1] \in Nat
    BY <1>1, <2>2, Pow2Grows
  <2>4. j < e - 1 => 2 * pow2[j] <= pow2[e - 1]
    BY <1>1, <2>2, Pow2Mono
  <2>. QED
    BY <2>1, <2>3, <2>4
<1>3. Stops(e)
  BY <1>1, <1>2, Pow2Grows
<1>4. ASSUME NEW i \in 0..MaxLeaves, Stops(i) PROVE i = e
  <2>1. ~ (i < e)
    BY <1>2, <1>4, <1>1, Pow2Grows
  <2>2. ~ (e < i)
    BY <1>4, <1>1, Pow2Grows
  <2>. QED
    BY <2>1, <2>2
<1>5. rounds \in 0..MaxLeaves /\ Stops(rounds)
  <2> HIDE DEF Stops
  <2>. QED
    BY <1>1, <1>3
<1>6. rounds = e
  <2> HIDE DEF rounds
  <2>. QED
    BY <1>4, <1>5
<1>7. largest_pow2_less_than(n) = pow2[e] \div 2
  BY <1>6 DEF largest_pow2_less_than
<1>8. pow2[e] = 2 * pow2[e - 1] /\ pow2[e - 1] \in Nat
  BY <1>1, Pow2Grows
<1>. QED
  BY <1>7, <1>8

\* Every size from two on lies between two consecutive powers.
LEMMA BetweenPowers ==
  ASSUME NEW n \in 2..MaxLeaves
  PROVE  \E e \in 1..MaxLeaves : pow2[e - 1] < n /\ n <= pow2[e]
<1> DEFINE T == {i \in Nat : i <= MaxLeaves /\ n <= pow2[i]}
<1>1. n \in T
  BY Pow2Grows, MerkleAssumption
<1>2. PICK e \in T : \A m \in T : e <= m
  <2>1. T \subseteq Nat
    OBVIOUS
  <2> HIDE DEF T
  <2>. QED
    BY <1>1, <2>1, LeastNat
<1>3. e # 0
  BY Pow2Grows
<1>4. e - 1 \notin T
  <2>1. e \in Nat
    OBVIOUS
  <2> HIDE DEF T
  <2>. QED
    BY <1>2, <2>1
<1>5. e \in 1..MaxLeaves /\ pow2[e - 1] \in Nat
  BY <1>3, Pow2Grows, MerkleAssumption
<1>6. pow2[e - 1] < n
  BY <1>4, <1>5, MerkleAssumption
<1>. QED
  BY <1>5, <1>6

\* What a split needs: both parts of a range are smaller than it and not empty.
LEMMA Splits ==
  ASSUME NEW n \in 2..MaxLeaves
  PROVE  largest_pow2_less_than(n) \in 1..(n - 1)
<1>1. PICK e \in 1..MaxLeaves : pow2[e - 1] < n /\ n <= pow2[e]
  BY BetweenPowers
<1>2. largest_pow2_less_than(n) = pow2[e - 1]
  BY <1>1, LargestIs
<1>3. pow2[e - 1] \in Nat /\ pow2[e - 1] > e - 1
  BY Pow2Grows, MerkleAssumption
<1>. QED
  BY <1>1, <1>2, <1>3
-----------------------------------------------------------------------------
(* Ranges and their hashes *)

\* The n leaves from lo on are leaves of s, and s is no longer than the bound.
Covers(s, lo, n) ==
  /\ Len(s) \in 1..MaxLeaves
  /\ n \in 1..Len(s) /\ lo \in 0..(Len(s) - n)

\* A range of two leaves or more splits into two ranges.
LEMMA CoversParts ==
  ASSUME NEW s, NEW lo, NEW n, Covers(s, lo, n), n # 1
  PROVE  LET k == largest_pow2_less_than(n)
         IN  k \in 1..(n - 1) /\ Covers(s, lo, k) /\ Covers(s, lo + k, n - k)
<1>1. n \in 2..MaxLeaves
  BY MerkleAssumption DEF Covers
<1>2. largest_pow2_less_than(n) \in 1..(n - 1)
  BY <1>1, Splits
<1>3. ASSUME NEW k \in 1..(n - 1), NEW L \in 1..MaxLeaves, n \in 1..L, lo \in 0..(L - n)
      PROVE  /\ k \in 1..L /\ lo \in 0..(L - k)
             /\ n - k \in 1..L /\ lo + k \in 0..(L - (n - k))
  BY <1>1, <1>3, MerkleAssumption
<1>. QED
  BY <1>2, <1>3 DEF Covers

\* subtree_hash satisfies the equation it is defined by.
LEMMA SubtreeIs ==
  ASSUME NEW s, NEW lo, NEW n, Covers(s, lo, n)
  PROVE  LET k == largest_pow2_less_than(n)
         IN  subtree_hash(s, lo, lo + n) =
               IF n = 1 THEN s[lo + 1]
               ELSE node_hash(subtree_hash(s, lo, lo + k), subtree_hash(s, lo + k, lo + n))
<1> DEFINE K(m) == largest_pow2_less_than(m)
           Row(h, m) == [l \in 0..(Len(s) - m) |->
                           IF m = 1 THEN s[l + 1] ELSE node_hash(h[K(m)][l], h[m - K(m)][l + K(m)])]
           Is(h, N) == h = [m \in 1..N |-> Row(h, m)]
           T == {N \in Nat : N <= Len(s) => \E h : Is(h, N)}
<1>0. Len(s) \in 1..MaxLeaves /\ MaxLeaves \in Nat /\ n \in 1..Len(s) /\ lo \in 0..(Len(s) - n)
  BY MerkleAssumption DEF Covers
<1>1. ASSUME NEW N \in Nat, \A m \in Nat : m < N => m \in T PROVE N \in T
  <2> SUFFICES ASSUME N <= Len(s) PROVE \E h : Is(h, N)
    OBVIOUS
  <2>1. CASE N = 0
    <3> DEFINE z == [m \in 1..0 |-> 0]
    <3>1. z = [m \in 1..N |-> Row(z, m)]
      <4> HIDE DEF Row
      <4>. QED
        BY <2>1
    <3>. QED
      BY <3>1
  <2>2. CASE N # 0
    <3>1. N - 1 \in T /\ N - 1 <= Len(s)
      <4> HIDE DEF T
      <4>. QED
        BY <1>0, <1>1, <2>2
    <3>2. PICK h : Is(h, N - 1)
      <4> HIDE DEF Is
      <4>. QED
        BY <3>1
    <3> DEFINE g == [m \in 1..N |-> IF m = N THEN Row(h, N) ELSE h[m]]
    <3>3. ASSUME NEW m \in 1..N PROVE g[m] = Row(g, m)
      <4>1. g[m] = Row(h, m)
        <5> HIDE DEF Row
        <5>. QED
          BY <3>2
      <4>2. m # 1 => K(m) \in 1..(m - 1)
        <5> HIDE DEF K
        <5>1. m # 1 => m \in 2..MaxLeaves
          BY <1>0
        <5>. QED
          BY <5>1, Splits DEF K
      <4>3. ASSUME m # 1 PROVE g[K(m)] = h[K(m)] /\ g[m - K(m)] = h[m - K(m)]
        <5> HIDE DEF Row, K
        <5>. QED
          BY <4>2, <4>3
      <4>4. Row(g, m) = Row(h, m)
        <5> HIDE DEF g, K
        <5>. QED
          BY <4>3
      <4>. QED
        BY <4>1, <4>4
    <3>4. Is(g, N)
      <4>1. g = [m \in 1..N |-> g[m]]
        <5> HIDE DEF Row
        <5>. QED
          OBVIOUS
      <4> HIDE DEF g, Row
      <4>. QED
        BY <3>3, <4>1
    <3>. QED
      BY <3>4, Zenon
  <2>. QED
    BY <2>1, <2>2
<1>2. Len(s) \in T
  <2> HIDE DEF T
  <2>. QED
    BY <1>0, <1>1, Induction
<1>3. \E h : Is(h, Len(s))
  <2> HIDE DEF Is
  <2>. QED
    BY <1>0, <1>2
<1> DEFINE H == CHOOSE h : Is(h, Len(s))
<1>4. Is(H, Len(s))
  BY <1>3, Zenon
<1>5. ASSUME NEW m, NEW l, Covers(s, l, m)
      PROVE  /\ subtree_hash(s, l, l + m) = H[m][l]
             /\ H[m][l] = IF m = 1 THEN s[l + 1]
                          ELSE node_hash(H[K(m)][l], H[m - K(m)][l + K(m)])
  <2>1. (l + m) - l = m /\ m \in 1..Len(s) /\ l \in 0..(Len(s) - m)
    BY <1>5 DEF Covers
  <2>2. subtree_hash(s, l, l + m) = H[(l + m) - l][l]
    BY DEF subtree_hash
  <2>3. H[m] = Row(H, m)
    <3> HIDE DEF H, Row
    <3>. QED
      BY <1>4, <2>1
  <2>. QED
    <3> HIDE DEF H, K
    <3>. QED
      BY <2>1, <2>2, <2>3
<1>6. CASE n = 1
  <2> HIDE DEF H
  <2>. QED
    BY <1>5, <1>6
<1>7. CASE n # 1
  <2>1. K(n) \in 1..(n - 1) /\ Covers(s, lo, K(n)) /\ Covers(s, lo + K(n), n - K(n))
    BY <1>7, CoversParts
  <2> HIDE DEF H, K
  <2>3. (lo + K(n)) + (n - K(n)) = lo + n
    BY <1>0, <2>1
  <2>2. /\ subtree_hash(s, lo, lo + n) = node_hash(H[K(n)][lo], H[n - K(n)][lo + K(n)])
        /\ subtree_hash(s, lo, lo + K(n)) = H[K(n)][lo]
        /\ subtree_hash(s, lo + K(n), (lo + K(n)) + (n - K(n))) = H[n - K(n)][lo + K(n)]
    BY <1>5, <1>7, <2>1
  <2>. QED
    BY <1>7, <2>2, <2>3 DEF K
<1>. QED
  BY <1>6, <1>7
-----------------------------------------------------------------------------
(* A hash commits to the leaves *)

\* s is a list of leaf hashes.
Hashed(s) == \A i \in 1..Len(s) : \E data \in Data : s[i] = leaf_hash(data)

\* The prefix tells a leaf from a node, and a node shows both its children.
LEMMA DomainSeparation ==
  /\ \A data \in Data : leaf_hash(data)[1] = 0
  /\ \A l, r : node_hash(l, r)[1] = 1
  /\ \A l, r, l2, r2 : node_hash(l, r) = node_hash(l2, r2) => l = l2 /\ r = r2
<1>1. ASSUME NEW data \in Data PROVE leaf_hash(data)[1] = 0
  <2>1. data \in Seq(Range(data))
    BY MerkleAssumption
  <2>2. <<0>> \in Seq({0})
    OBVIOUS
  <2> DEFINE B == Range(data) \cup {0}
  <2>3. data \in Seq(B) /\ <<0>> \in Seq(B)
    BY <2>1, <2>2
  <2> HIDE DEF B
  <2>. QED
    BY <2>3 DEF leaf_hash
<1>2. \A l, r : node_hash(l, r)[1] = 1 /\ node_hash(l, r)[2] = l /\ node_hash(l, r)[3] = r
  BY DEF node_hash
<1>3. ASSUME NEW l, NEW r, NEW l2, NEW r2, node_hash(l, r) = node_hash(l2, r2)
      PROVE  l = l2 /\ r = r2
  BY <1>3 DEF node_hash
<1>. QED
  BY <1>1, <1>2, <1>3

\* The n leaves of s from a on are those of t from b on.
SameLeaves(s, a, t, b, n) == \A i \in 0..(n - 1) : s[a + i + 1] = t[b + i + 1]

\* Ranges with the same hash have the same length and the same leaves.
LEMMA SubtreeBinds ==
  ASSUME NEW s, NEW t, Hashed(s), Hashed(t),
         NEW a, NEW n, Covers(s, a, n), NEW b, NEW m, Covers(t, b, m),
         subtree_hash(s, a, a + n) = subtree_hash(t, b, b + m)
  PROVE  n = m /\ SameLeaves(s, a, t, b, n)
<1> DEFINE Same(x, p, y, q) == p = q /\ SameLeaves(s, x, t, y, p)
           Binds(p) == \A x, y, q : /\ Covers(s, x, p) /\ Covers(t, y, q)
                                    /\ subtree_hash(s, x, x + p) = subtree_hash(t, y, y + q)
                                    => Same(x, p, y, q)
           T == {p \in Nat : Binds(p)}
<1>1. ASSUME NEW p \in Nat, \A j \in Nat : j < p => j \in T PROVE p \in T
  <2> SUFFICES ASSUME NEW x, NEW y, NEW q, Covers(s, x, p), Covers(t, y, q),
                      subtree_hash(s, x, x + p) = subtree_hash(t, y, y + q)
               PROVE  Same(x, p, y, q)
    OBVIOUS
  <2> DEFINE K(j) == largest_pow2_less_than(j)
  <2> HIDE DEF Same, SameLeaves
  <2>1. /\ p \in 1..Len(s) /\ x \in 0..(Len(s) - p) /\ q \in 1..Len(t) /\ y \in 0..(Len(t) - q)
        /\ Len(s) \in Nat /\ Len(t) \in Nat
    BY MerkleAssumption DEF Covers
  <2>2. p = 1 => subtree_hash(s, x, x + p)[1] = 0
    <3> SUFFICES ASSUME p = 1 PROVE subtree_hash(s, x, x + p)[1] = 0
      OBVIOUS
    <3>1. subtree_hash(s, x, x + p) = s[x + 1] /\ x + 1 \in 1..Len(s)
      BY <2>1, SubtreeIs
    <3>. QED
      BY <3>1, DomainSeparation DEF Hashed
  <2>3. q = 1 => subtree_hash(t, y, y + q)[1] = 0
    <3> SUFFICES ASSUME q = 1 PROVE subtree_hash(t, y, y + q)[1] = 0
      OBVIOUS
    <3>1. subtree_hash(t, y, y + q) = t[y + 1] /\ y + 1 \in 1..Len(t)
      BY <2>1, SubtreeIs
    <3>. QED
      BY <3>1, DomainSeparation DEF Hashed
  <2>4. p # 1 => subtree_hash(s, x, x + p)[1] = 1
    BY SubtreeIs, DomainSeparation
  <2>5. q # 1 => subtree_hash(t, y, y + q)[1] = 1
    BY SubtreeIs, DomainSeparation
  <2>6. p = 1 <=> q = 1
    BY <2>2, <2>3, <2>4, <2>5
  <2>7. CASE p = 1
    <3>1. q = 1
      BY <2>6, <2>7
    <3>2. s[x + 1] = t[y + 1]
      BY <2>7, <3>1, SubtreeIs
    <3>. QED
      BY <2>1, <2>7, <3>1, <3>2 DEF Same, SameLeaves
  <2>8. CASE p # 1
    <3>0. q # 1
      BY <2>6, <2>8
    <3>1. K(p) \in 1..(p - 1) /\ Covers(s, x, K(p)) /\ Covers(s, x + K(p), p - K(p))
      BY <2>8, CoversParts
    <3>2. K(q) \in 1..(q - 1) /\ Covers(t, y, K(q)) /\ Covers(t, y + K(q), q - K(q))
      BY <3>0, CoversParts
    <3>3. /\ subtree_hash(s, x, x + K(p)) = subtree_hash(t, y, y + K(q))
          /\ subtree_hash(s, x + K(p), x + p) = subtree_hash(t, y + K(q), y + q)
      <4>1. subtree_hash(s, x, x + p) =
              node_hash(subtree_hash(s, x, x + K(p)), subtree_hash(s, x + K(p), x + p))
        BY <2>8, SubtreeIs
      <4>2. subtree_hash(t, y, y + q) =
              node_hash(subtree_hash(t, y, y + K(q)), subtree_hash(t, y + K(q), y + q))
        BY <3>0, SubtreeIs
      <4>. QED
        BY <4>1, <4>2, DomainSeparation
    <3> HIDE DEF K
    <3>4. K(p) \in T /\ p - K(p) \in T
      <4>1. K(p) \in Nat /\ K(p) < p /\ p - K(p) \in Nat /\ p - K(p) < p
        BY <3>1
      <4> HIDE DEF T
      <4>. QED
        BY <1>1, <4>1
    <3>5. Same(x, K(p), y, K(q))
      BY <3>1, <3>2, <3>3, <3>4
    <3>6. Same(x + K(p), p - K(p), y + K(q), q - K(q))
      <4>1. (x + K(p)) + (p - K(p)) = x + p /\ (y + K(q)) + (q - K(q)) = y + q
        BY <2>1, <3>1, <3>2
      <4>. QED
        BY <3>1, <3>2, <3>3, <3>4, <4>1
    <3>7. K(p) = K(q) /\ p = q
      BY <2>1, <3>1, <3>2, <3>5, <3>6 DEF Same
    <3>8. ASSUME NEW i \in 0..(p - 1) PROVE s[x + i + 1] = t[y + i + 1]
      <4>1. CASE i < K(p)
        BY <3>1, <3>5, <4>1 DEF Same, SameLeaves
      <4>2. CASE i >= K(p)
        <5>1. i - K(p) \in 0..((p - K(p)) - 1)
          BY <3>1, <4>2
        <5>2. s[(x + K(p)) + (i - K(p)) + 1] = t[(y + K(q)) + (i - K(p)) + 1]
          BY <3>6, <5>1 DEF Same, SameLeaves
        <5>3. /\ (x + K(p)) + (i - K(p)) + 1 = x + i + 1
              /\ (y + K(q)) + (i - K(p)) + 1 = y + i + 1
          BY <2>1, <3>1, <3>7
        <5>. QED
          BY <5>2, <5>3
      <4>. QED
        BY <3>1, <4>1, <4>2
    <3>. QED
      BY <3>7, <3>8 DEF Same, SameLeaves
  <2>. QED
    BY <2>7, <2>8
<1>2. n \in Nat
  BY DEF Covers
<1>3. n \in T
  <2> HIDE DEF T
  <2>. QED
    BY <1>1, <1>2, Induction
<1>. QED
  <2>1. Same(a, n, b, m)
    <3> HIDE DEF Same, SameLeaves
    <3>. QED
      BY <1>3
  <2>. QED
    BY <2>1
-----------------------------------------------------------------------------
(* Roots *)

LeafHashes == {leaf_hash(data) : data \in Data}

\* The tree is a list of leaf hashes, no longer than the bound.
LeavesInv == leaves \in Seq(LeafHashes) /\ Len(leaves) <= MaxLeaves

\* Nothing but append changes the tree, and it adds one leaf hash.
THEOREM LeavesTheorem == Spec => []LeavesInv
<1>1. Init => LeavesInv
  BY MerkleAssumption DEF Init, LeavesInv
<1>2. LeavesInv /\ [Next]_vars => LeavesInv'
  <2> SUFFICES ASSUME LeavesInv, [Next]_vars PROVE LeavesInv'
    OBVIOUS
  <2>1. ASSUME NEW data \in Data, append(data) PROVE LeavesInv'
    <3>1. leaf_hash(data) \in LeafHashes
      BY DEF LeafHashes
    <3> DEFINE h == leaf_hash(data)
    <3>2. leaves' = Append(leaves, h) /\ Len(leaves) < MaxLeaves /\ leaves \in Seq(LeafHashes)
      BY <2>1 DEF append, LeavesInv
    <3> HIDE DEF h
    <3>3. leaves' \in Seq(LeafHashes) /\ Len(leaves') = Len(leaves) + 1 /\ Len(leaves) \in Nat
      BY <3>1, <3>2 DEF h
    <3>. QED
      BY <3>2, <3>3, MerkleAssumption DEF LeavesInv
  <2>2. CASE UNCHANGED vars
    BY <2>2 DEF vars, LeavesInv
  <2>. QED
    BY <2>1, <2>2 DEF Next
<1>. QED
  BY <1>1, <1>2, PTL DEF Spec

\* What the invariant says of a tree that is not empty.
LEMMA LeavesAre ==
  ASSUME LeavesInv
  PROVE  /\ Hashed(leaves) /\ Len(leaves) \in 0..MaxLeaves
         /\ leaves = [i \in 1..Len(leaves) |-> leaves[i]]
         /\ leaves = <<>> <=> Len(leaves) = 0
<1>1. leaves \in Seq(LeafHashes) /\ Len(leaves) <= MaxLeaves
  BY DEF LeavesInv
<1>2. /\ \A i \in 1..Len(leaves) : leaves[i] \in LeafHashes
      /\ Len(leaves) \in 0..MaxLeaves /\ leaves = [i \in 1..Len(leaves) |-> leaves[i]]
      /\ leaves = <<>> <=> Len(leaves) = 0
  BY <1>1, MerkleAssumption
<1>. QED
  BY <1>2 DEF LeafHashes, Hashed

\* No subtree hashes to the empty string, the root of the empty tree.
LEMMA NeverEmpty ==
  ASSUME NEW s, Hashed(s), NEW lo, NEW n, Covers(s, lo, n)
  PROVE  subtree_hash(s, lo, lo + n) # <<>>
<1>1. CASE n = 1
  <2>1. subtree_hash(s, lo, lo + n) = s[lo + 1] /\ lo + 1 \in 1..Len(s)
    <3>1. lo + 1 \in 1..Len(s)
      BY <1>1, MerkleAssumption DEF Covers
    <3>. QED
      BY <1>1, <3>1, SubtreeIs
  <2>2. PICK data \in Data : s[lo + 1] = <<0>> \o data
    BY <2>1 DEF Hashed, leaf_hash
  <2>3. data \in Seq(Range(data) \cup {0}) /\ <<0>> \in Seq(Range(data) \cup {0})
    <3>1. data \in Seq(Range(data))
      BY MerkleAssumption
    <3>. QED
      BY <3>1
  <2>4. Len(<<0>> \o data) = 1 + Len(data) /\ Len(data) \in Nat
    <3> DEFINE B == Range(data) \cup {0}
    <3> HIDE DEF B
    <3>1. data \in Seq(B) /\ <<0>> \in Seq(B)
      BY <2>3 DEF B
    <3>. QED
      BY <3>1
  <2>5. Len(<<0>> \o data) # 0
    BY <2>4
  <2>. QED
    BY <2>1, <2>2, <2>5
<1>2. CASE n # 1
  <2>1. \E l, r : subtree_hash(s, lo, lo + n) = node_hash(l, r)
    BY <1>2, SubtreeIs
  <2>2. \A l, r : node_hash(l, r) # <<>>
    BY DEF node_hash
  <2>. QED
    BY <2>1, <2>2, Zenon
<1>. QED
  BY <1>1, <1>2

\* Two lists of leaf hashes with the same root are the same list.
LEMMA RootBinds ==
  ASSUME NEW s, Hashed(s), Len(s) \in 0..MaxLeaves, s = [i \in 1..Len(s) |-> s[i]],
         NEW t, Hashed(t), Len(t) \in 0..MaxLeaves, t = [i \in 1..Len(t) |-> t[i]],
         s = <<>> <=> Len(s) = 0, t = <<>> <=> Len(t) = 0,
         root(s) = root(t)
  PROVE  s = t
<1>1. /\ s # <<>> => Covers(s, 0, Len(s)) /\ 0 + Len(s) = Len(s)
      /\ t # <<>> => Covers(t, 0, Len(t)) /\ 0 + Len(t) = Len(t)
  BY MerkleAssumption DEF Covers
<1>2. /\ s # <<>> => root(s) = subtree_hash(s, 0, 0 + Len(s)) /\ root(s) # <<>>
      /\ t # <<>> => root(t) = subtree_hash(t, 0, 0 + Len(t)) /\ root(t) # <<>>
      /\ s = <<>> => root(s) = <<>>
      /\ t = <<>> => root(t) = <<>>
  <2>1. s # <<>> => root(s) = subtree_hash(s, 0, 0 + Len(s))
    BY <1>1 DEF root
  <2>2. t # <<>> => root(t) = subtree_hash(t, 0, 0 + Len(t))
    BY <1>1 DEF root
  <2>3. s # <<>> => subtree_hash(s, 0, 0 + Len(s)) # <<>>
    BY <1>1, NeverEmpty
  <2>4. t # <<>> => subtree_hash(t, 0, 0 + Len(t)) # <<>>
    BY <1>1, NeverEmpty
  <2>5. (s = <<>> => root(s) = <<>>) /\ (t = <<>> => root(t) = <<>>)
    BY DEF root
  <2>. QED
    BY <2>1, <2>2, <2>3, <2>4, <2>5
<1>3. s = <<>> <=> t = <<>>
  BY <1>2
<1>4. CASE s # <<>>
  <2>1. Len(s) = Len(t) /\ SameLeaves(s, 0, t, 0, Len(s))
    <3>1. /\ Covers(s, 0, Len(s)) /\ Covers(t, 0, Len(t))
          /\ subtree_hash(s, 0, 0 + Len(s)) = subtree_hash(t, 0, 0 + Len(t))
      BY <1>1, <1>2, <1>3, <1>4, Zenon
    <3>. QED
      BY <3>1, SubtreeBinds
  <2>2. ASSUME NEW i \in 1..Len(s) PROVE s[i] = t[i]
    <3>1. i - 1 \in 0..(Len(s) - 1) /\ 0 + (i - 1) + 1 = i
      BY MerkleAssumption
    <3>2. s[0 + (i - 1) + 1] = t[0 + (i - 1) + 1]
      BY <2>1, <3>1 DEF SameLeaves
    <3>. QED
      BY <3>1, <3>2, Zenon
  <2>3. [i \in 1..Len(s) |-> s[i]] = [i \in 1..Len(t) |-> t[i]]
    BY <2>1, <2>2
  <2>. QED
    BY <2>3, Zenon
<1>. QED
  BY <1>3, <1>4

\* A root commits to the payloads and their order.
THEOREM RootTheorem == Spec => []RootBindsLeaves
<1>1. LeavesInv => RootBindsLeaves
  <2> SUFFICES ASSUME LeavesInv, NEW other \in SeqOf(Data, MaxLeaves)
               PROVE  LET hashed == [i \in DOMAIN other |-> leaf_hash(other[i])]
                      IN  root(hashed) = root(leaves) => hashed = leaves
    BY DEF RootBindsLeaves
  <2> DEFINE hashed == [i \in DOMAIN other |-> leaf_hash(other[i])]
  <2>1. PICK m \in 0..MaxLeaves : other \in [1..m -> Data]
    BY DEF SeqOf
  <2>2. hashed = [i \in 1..m |-> leaf_hash(other[i])]
    BY <2>1
  <2>3. \A i \in 1..m : hashed[i] \in LeafHashes /\ \E data \in Data : hashed[i] = leaf_hash(data)
    BY <2>1 DEF LeafHashes
  <2> HIDE DEF hashed
  <2>4. hashed \in [1..m -> LeafHashes]
    <3>1. hashed = [i \in 1..m |-> hashed[i]]
      BY <2>2
    <3>. QED
      BY <2>3, <3>1
  <2>5. hashed \in Seq(LeafHashes) /\ Len(hashed) = m
    BY <2>4, MerkleAssumption
  <2>6. hashed = [i \in 1..Len(hashed) |-> hashed[i]] /\ (hashed = <<>> <=> Len(hashed) = 0)
    BY <2>5
  <2>7. Hashed(hashed) /\ Len(hashed) \in 0..MaxLeaves
    BY <2>3, <2>5 DEF Hashed
  <2>8. root(hashed) = root(leaves) => hashed = leaves
    BY <2>6, <2>7, LeavesAre, RootBinds, Zenon
  <2>. QED
    BY <2>8 DEF hashed
<1>. QED
  BY <1>1, LeavesTheorem, PTL
-----------------------------------------------------------------------------
(* Paths and the climb along them *)

\* inclusionPath satisfies the equation it is defined by.
LEMMA PathIs ==
  ASSUME NEW s, NEW idx, NEW lo, NEW n, Covers(s, lo, n)
  PROVE  LET k == largest_pow2_less_than(n)
         IN  inclusionPath(s, idx, lo, lo + n) =
               IF n = 1 THEN <<>>
               ELSE IF idx - lo < k
                 THEN Append(inclusionPath(s, idx, lo, lo + k), subtree_hash(s, lo + k, lo + n))
                 ELSE Append(inclusionPath(s, idx, lo + k, lo + n), subtree_hash(s, lo, lo + k))
<1> DEFINE K(m) == largest_pow2_less_than(m)
           Row(h, m) == [l \in 0..(Len(s) - m) |->
                           IF m = 1 THEN <<>>
                           ELSE IF idx - l < K(m)
                             THEN Append(h[K(m)][l], subtree_hash(s, l + K(m), l + m))
                             ELSE Append(h[m - K(m)][l + K(m)], subtree_hash(s, l, l + K(m)))]
           Is(h, N) == h = [m \in 1..N |-> Row(h, m)]
           T == {N \in Nat : N <= Len(s) => \E h : Is(h, N)}
<1>0. Len(s) \in 1..MaxLeaves /\ MaxLeaves \in Nat /\ n \in 1..Len(s) /\ lo \in 0..(Len(s) - n)
  BY MerkleAssumption DEF Covers
<1>1. ASSUME NEW N \in Nat, \A m \in Nat : m < N => m \in T PROVE N \in T
  <2> SUFFICES ASSUME N <= Len(s) PROVE \E h : Is(h, N)
    OBVIOUS
  <2>1. CASE N = 0
    <3> DEFINE z == [m \in 1..0 |-> 0]
    <3>1. z = [m \in 1..N |-> Row(z, m)]
      <4> HIDE DEF Row
      <4>. QED
        BY <2>1
    <3>. QED
      BY <3>1
  <2>2. CASE N # 0
    <3>1. N - 1 \in T /\ N - 1 <= Len(s)
      <4> HIDE DEF T
      <4>. QED
        BY <1>0, <1>1, <2>2
    <3>2. PICK h : Is(h, N - 1)
      <4> HIDE DEF Is
      <4>. QED
        BY <3>1
    <3> DEFINE g == [m \in 1..N |-> IF m = N THEN Row(h, N) ELSE h[m]]
    <3>3. ASSUME NEW m \in 1..N PROVE g[m] = Row(g, m)
      <4>1. g[m] = Row(h, m)
        <5> HIDE DEF Row
        <5>. QED
          BY <3>2
      <4>2. m # 1 => K(m) \in 1..(m - 1)
        <5> HIDE DEF K
        <5>1. m # 1 => m \in 2..MaxLeaves
          BY <1>0
        <5>. QED
          BY <5>1, Splits DEF K
      <4>3. ASSUME m # 1 PROVE g[K(m)] = h[K(m)] /\ g[m - K(m)] = h[m - K(m)]
        <5> HIDE DEF Row, K
        <5>. QED
          BY <4>2, <4>3
      <4>4. Row(g, m) = Row(h, m)
        <5> HIDE DEF g, K
        <5>. QED
          BY <4>3
      <4>. QED
        BY <4>1, <4>4
    <3>4. Is(g, N)
      <4>1. g = [m \in 1..N |-> g[m]]
        <5> HIDE DEF Row
        <5>. QED
          OBVIOUS
      <4> HIDE DEF g, Row
      <4>. QED
        BY <3>3, <4>1
    <3>. QED
      BY <3>4, Zenon
  <2>. QED
    BY <2>1, <2>2
<1>2. Len(s) \in T
  <2> HIDE DEF T
  <2>. QED
    BY <1>0, <1>1, Induction
<1>3. \E h : Is(h, Len(s))
  <2> HIDE DEF Is
  <2>. QED
    BY <1>0, <1>2
<1> DEFINE H == CHOOSE h : Is(h, Len(s))
<1>4. Is(H, Len(s))
  BY <1>3, Zenon
<1>5. ASSUME NEW m, NEW l, Covers(s, l, m)
      PROVE  /\ inclusionPath(s, idx, l, l + m) = H[m][l]
             /\ H[m][l] = IF m = 1 THEN <<>>
                          ELSE IF idx - l < K(m)
                            THEN Append(H[K(m)][l], subtree_hash(s, l + K(m), l + m))
                            ELSE Append(H[m - K(m)][l + K(m)], subtree_hash(s, l, l + K(m)))
  <2>1. (l + m) - l = m /\ m \in 1..Len(s) /\ l \in 0..(Len(s) - m)
    BY <1>5 DEF Covers
  <2>2. inclusionPath(s, idx, l, l + m) = H[(l + m) - l][l]
    BY DEF inclusionPath
  <2>3. H[m] = Row(H, m)
    <3> HIDE DEF H, Row
    <3>. QED
      BY <1>4, <2>1
  <2>. QED
    <3> HIDE DEF H, K
    <3>. QED
      BY <2>1, <2>2, <2>3
<1>6. CASE n = 1
  <2> HIDE DEF H
  <2>. QED
    BY <1>5, <1>6
<1>7. CASE n # 1
  <2>1. K(n) \in 1..(n - 1) /\ Covers(s, lo, K(n)) /\ Covers(s, lo + K(n), n - K(n))
    BY <1>7, CoversParts
  <2> HIDE DEF H, K
  <2>3. (lo + K(n)) + (n - K(n)) = lo + n
    BY <1>0, <2>1
  <2>2. /\ inclusionPath(s, idx, lo, lo + n) =
             IF idx - lo < K(n)
               THEN Append(H[K(n)][lo], subtree_hash(s, lo + K(n), lo + n))
               ELSE Append(H[n - K(n)][lo + K(n)], subtree_hash(s, lo, lo + K(n)))
        /\ inclusionPath(s, idx, lo, lo + K(n)) = H[K(n)][lo]
        /\ inclusionPath(s, idx, lo + K(n), (lo + K(n)) + (n - K(n))) = H[n - K(n)][lo + K(n)]
    BY <1>5, <1>7, <2>1
  <2>. QED
    BY <1>7, <2>2, <2>3 DEF K
<1>. QED
  BY <1>6, <1>7

\* at holds the loop's variables before it and after each round.
Rounds(at, data, index, path) ==
  /\ at[0].cur = leaf_hash(data) /\ at[0].index = index
  /\ \A i \in 1..Len(path) : at[i] = climb(at[i - 1], path[i])

\* The loop of InclusionProof::verify, round by round.
LEMMA ClimbedIs ==
  ASSUME NEW data, NEW index, NEW path, Len(path) \in Nat
  PROVE  Rounds(Climbed(data, index, path), data, index, path)
<1> DEFINE start == [cur |-> leaf_hash(data), index |-> index]
           Is(h, N) == h = [i \in 0..N |-> IF i = 0 THEN start ELSE climb(h[i - 1], path[i])]
           T == {N \in Nat : \E h : Is(h, N)}
<1> HIDE DEF start
<1>1. ASSUME NEW N \in Nat, \A m \in Nat : m < N => m \in T PROVE N \in T
  <2>1. CASE N = 0
    <3>1. Is([i \in 0..0 |-> start], 0)
      OBVIOUS
    <3>. QED
      BY <2>1, <3>1
  <2>2. CASE N # 0
    <3>1. N - 1 \in T
      <4> HIDE DEF T
      <4>. QED
        BY <1>1, <2>2
    <3>2. PICK h : Is(h, N - 1)
      <4> HIDE DEF Is
      <4>. QED
        BY <3>1
    <3> DEFINE g == [i \in 0..N |-> IF i = N THEN climb(h[N - 1], path[N]) ELSE h[i]]
    <3>3. ASSUME NEW i \in 0..N PROVE g[i] = IF i = 0 THEN start ELSE climb(g[i - 1], path[i])
      BY <2>2, <3>2
    <3>4. Is(g, N)
      <4> HIDE DEF g
      <4>1. g = [i \in 0..N |-> g[i]]
        BY DEF g
      <4>. QED
        BY <3>3, <4>1
    <3>. QED
      BY <3>4, Zenon
  <2>. QED
    BY <2>1, <2>2
<1>2. Len(path) \in T
  <2> HIDE DEF T
  <2>. QED
    BY <1>1, Induction
<1>3. \E h : Is(h, Len(path))
  BY <1>2
<1> DEFINE H == CHOOSE h : Is(h, Len(path))
<1>4. Is(H, Len(path))
  BY <1>3, Zenon
<1>5. Climbed(data, index, path) = H
  BY DEF Climbed, start
<1> HIDE DEF H
<1>6. H[0] = start /\ \A i \in 1..Len(path) : H[i] = climb(H[i - 1], path[i])
  BY <1>4
<1>. QED
  BY <1>5, <1>6 DEF start, Rounds

\* The sequence p is q with one element more, x.
Extends(p, q, x) ==
  /\ Len(q) \in Nat /\ Len(p) = Len(q) + 1
  /\ p[Len(p)] = x /\ \A i \in 1..Len(q) : p[i] = q[i]

Subtrees(s) == {subtree_hash(s, l, h) : l \in 0..Len(s), h \in 0..Len(s)}

\* A path is a sequence of subtree hashes.
LEMMA PathSeq ==
  ASSUME NEW s, NEW idx, NEW lo, NEW n, Covers(s, lo, n)
  PROVE  inclusionPath(s, idx, lo, lo + n) \in Seq(Subtrees(s))
<1> DEFINE T == {m \in Nat : \A l : Covers(s, l, m)
                                      => inclusionPath(s, idx, l, l + m) \in Seq(Subtrees(s))}
<1>1. ASSUME NEW m \in Nat, \A j \in Nat : j < m => j \in T PROVE m \in T
  <2> SUFFICES ASSUME NEW l, Covers(s, l, m)
               PROVE  inclusionPath(s, idx, l, l + m) \in Seq(Subtrees(s))
    OBVIOUS
  <2> DEFINE k == largest_pow2_less_than(m)
  <2>1. CASE m = 1
    <3>1. inclusionPath(s, idx, l, l + m) = <<>>
      BY <2>1, PathIs
    <3>2. <<>> \in Seq(Subtrees(s))
      OBVIOUS
    <3>. QED
      BY <3>1, <3>2, Zenon
  <2>2. CASE m # 1
    <3>1. k \in 1..(m - 1) /\ Covers(s, l, k) /\ Covers(s, l + k, m - k)
      BY <2>2, CoversParts
    <3>2. inclusionPath(s, idx, l, l + m) =
            IF idx - l < k
              THEN Append(inclusionPath(s, idx, l, l + k), subtree_hash(s, l + k, l + m))
              ELSE Append(inclusionPath(s, idx, l + k, l + m), subtree_hash(s, l, l + k))
      BY <2>2, PathIs
    <3> HIDE DEF k
    <3>3. /\ l \in 0..Len(s) /\ l + k \in 0..Len(s) /\ l + m \in 0..Len(s)
          /\ (l + k) + (m - k) = l + m
      BY <3>1, MerkleAssumption DEF Covers
    <3>4. /\ subtree_hash(s, l + k, l + m) \in Subtrees(s)
          /\ subtree_hash(s, l, l + k) \in Subtrees(s)
      BY <3>3 DEF Subtrees
    <3>5. k \in T /\ m - k \in T
      <4>1. k \in Nat /\ k < m /\ m - k \in Nat /\ m - k < m
        BY <3>1
      <4> HIDE DEF T
      <4>. QED
        BY <1>1, <4>1
    <3>6. /\ inclusionPath(s, idx, l, l + k) \in Seq(Subtrees(s))
          /\ inclusionPath(s, idx, l + k, l + m) \in Seq(Subtrees(s))
      BY <3>1, <3>3, <3>5
    <3>7. \A q \in Seq(Subtrees(s)), x \in Subtrees(s) : Append(q, x) \in Seq(Subtrees(s))
      OBVIOUS
    <3>. QED
      BY <3>2, <3>4, <3>6, <3>7, Zenon
  <2>. QED
    BY <2>1, <2>2
<1>2. n \in Nat
  BY DEF Covers
<1>3. n \in T
  <2> HIDE DEF T
  <2>. QED
    BY <1>1, <1>2, Induction
<1>. QED
  BY <1>3

\* The path through a range is the path through the part that holds the index,
\* and the hash of the other part.
LEMMA PathStep ==
  ASSUME NEW s, NEW idx, NEW lo, NEW n, Covers(s, lo, n), n # 1
  PROVE  LET k == largest_pow2_less_than(n)
             p == inclusionPath(s, idx, lo, lo + n)
         IN  /\ idx - lo < k =>
                  Extends(p, inclusionPath(s, idx, lo, lo + k), subtree_hash(s, lo + k, lo + n))
             /\ ~ (idx - lo < k) =>
                  Extends(p, inclusionPath(s, idx, lo + k, lo + n), subtree_hash(s, lo, lo + k))
<1> DEFINE k == largest_pow2_less_than(n)
           p == inclusionPath(s, idx, lo, lo + n)
<1>1. k \in 1..(n - 1) /\ Covers(s, lo, k) /\ Covers(s, lo + k, n - k)
  BY CoversParts
<1>2. p = IF idx - lo < k
            THEN Append(inclusionPath(s, idx, lo, lo + k), subtree_hash(s, lo + k, lo + n))
            ELSE Append(inclusionPath(s, idx, lo + k, lo + n), subtree_hash(s, lo, lo + k))
  BY PathIs
<1> HIDE DEF k, p
<1>3. /\ lo \in 0..Len(s) /\ lo + k \in 0..Len(s) /\ lo + n \in 0..Len(s)
      /\ (lo + k) + (n - k) = lo + n
  BY <1>1, MerkleAssumption DEF Covers
<1>4. /\ inclusionPath(s, idx, lo, lo + k) \in Seq(Subtrees(s))
      /\ inclusionPath(s, idx, lo + k, (lo + k) + (n - k)) \in Seq(Subtrees(s))
      /\ subtree_hash(s, lo + k, lo + n) \in Subtrees(s)
      /\ subtree_hash(s, lo, lo + k) \in Subtrees(s)
  BY <1>1, <1>3, PathSeq DEF Subtrees
<1>5. ASSUME NEW q \in Seq(Subtrees(s)), NEW x \in Subtrees(s) PROVE Extends(Append(q, x), q, x)
  BY DEF Extends
<1>. QED
  BY <1>2, <1>3, <1>4, <1>5 DEF k, p

\* One round backwards: if it ends in the hash of a node with children h and
\* sibling, it began with h; and if it took the other side, both are the same.
LEMMA ClimbBack ==
  ASSUME NEW at, NEW h, NEW sibling
  PROVE  /\ climb(at, sibling).cur = node_hash(h, sibling) =>
              at.cur = h /\ (at.index % 2 # 0 => h = sibling)
         /\ climb(at, sibling).cur = node_hash(sibling, h) =>
              at.cur = h /\ (at.index % 2 = 0 => h = sibling)
         /\ climb(at, sibling).index = at.index \div 2
<1>1. climb(at, sibling).cur =
        IF at.index % 2 = 0 THEN node_hash(at.cur, sibling) ELSE node_hash(sibling, at.cur)
  BY DEF climb
<1>2. climb(at, sibling).index = at.index \div 2
  BY DEF climb
<1>. QED
  BY <1>1, <1>2, DomainSeparation

\* The first elements of p are q.
Begins(q, p) == Len(q) <= Len(p) /\ \A i \in 1..Len(q) : q[i] = p[i]

\* What is left of a path that begins another when its last element is taken.
LEMMA BeginsBack ==
  ASSUME NEW p, NEW q, NEW r, NEW x, Begins(q, p), Extends(q, r, x), Len(p) \in Nat
  PROVE  /\ Begins(r, p) /\ Len(r) \in Nat /\ Len(q) = Len(r) + 1 /\ p[Len(q)] = x
         /\ Len(q) \in 1..Len(p)
<1>1. /\ Len(r) \in Nat /\ Len(q) = Len(r) + 1 /\ q[Len(q)] = x /\ Len(q) <= Len(p)
      /\ \A i \in 1..Len(r) : q[i] = r[i]
      /\ \A i \in 1..Len(q) : q[i] = p[i]
  BY DEF Begins, Extends
<1>2. Len(q) \in 1..Len(p) /\ Len(q) \in 1..Len(q)
  BY <1>1
<1>. QED
  BY <1>1, <1>2 DEF Begins

\* If the climb along a path reaches the hash of a range the path leads
\* through, it started from the leaf of that path.
LEMMA ClimbSound ==
  ASSUME NEW s, NEW idx \in Nat, NEW data, NEW index, NEW p, Len(p) \in Nat,
         NEW lo, NEW n, Covers(s, lo, n), idx \in lo..(lo + n - 1),
         Begins(inclusionPath(s, idx, lo, lo + n), p),
         Climbed(data, index, p)[Len(inclusionPath(s, idx, lo, lo + n))].cur =
           subtree_hash(s, lo, lo + n)
  PROVE  leaf_hash(data) = s[idx + 1]
<1> DEFINE at == Climbed(data, index, p)
           path(l, m) == inclusionPath(s, idx, l, l + m)
           On(l, m) == /\ Covers(s, l, m) /\ idx \in l..(l + m - 1) /\ Begins(path(l, m), p)
                       /\ at[Len(path(l, m))].cur = subtree_hash(s, l, l + m)
           T == {m \in Nat : \A l : On(l, m) => leaf_hash(data) = s[idx + 1]}
<1>0. /\ at[0].cur = leaf_hash(data)
      /\ \A i \in 1..Len(p) : at[i] = climb(at[i - 1], p[i])
  BY ClimbedIs DEF Rounds
<1> HIDE DEF at
<1>1. ASSUME NEW m \in Nat, \A j \in Nat : j < m => j \in T PROVE m \in T
  <2> SUFFICES ASSUME NEW l, On(l, m) PROVE leaf_hash(data) = s[idx + 1]
    <3> HIDE DEF On
    <3>. QED
      OBVIOUS
  <2> DEFINE k == largest_pow2_less_than(m)
  <2>0. Covers(s, l, m) /\ l \in Nat
    BY DEF Covers
  <2>1. CASE m = 1
    <3>1. path(l, m) = <<>> /\ subtree_hash(s, l, l + m) = s[l + 1]
      <4>1. path(l, m) = <<>>
        BY <2>0, <2>1, PathIs, Zenon
      <4>2. subtree_hash(s, l, l + m) = s[l + 1]
        BY <2>0, <2>1, SubtreeIs, Zenon
      <4>. QED
        BY <4>1, <4>2
    <3>2. idx = l
      BY <2>0, <2>1
    <3>3. Len(path(l, m)) = 0
      <4> HIDE DEF path
      <4>. QED
        BY <3>1
    <3>4. at[0].cur = s[l + 1]
      BY <3>1, <3>3
    <3>. QED
      BY <1>0, <3>2, <3>4
  <2>2. CASE m # 1
    <3>1. k \in 1..(m - 1) /\ Covers(s, l, k) /\ Covers(s, l + k, m - k)
      BY <2>0, <2>2, CoversParts
    <3>2. subtree_hash(s, l, l + m) =
            node_hash(subtree_hash(s, l, l + k), subtree_hash(s, l + k, l + m))
      BY <2>0, <2>2, SubtreeIs
    <3>3. /\ idx - l < k => Extends(path(l, m), path(l, k), subtree_hash(s, l + k, l + m))
          /\ ~ (idx - l < k) =>
               Extends(path(l, m), inclusionPath(s, idx, l + k, l + m), subtree_hash(s, l, l + k))
      BY <2>0, <2>2, PathStep
    <3> HIDE DEF k
    <3>4. /\ (l + k) + (m - k) = l + m
          /\ k \in Nat /\ k < m /\ m - k \in Nat /\ m - k < m
      BY <2>0, <3>1
    <3>5. k \in T /\ m - k \in T
      <4> HIDE DEF T
      <4>. QED
        BY <1>1, <3>4
    <3>6. Begins(path(l, m), p) /\ at[Len(path(l, m))].cur = subtree_hash(s, l, l + m)
      OBVIOUS
    <3>7. ASSUME NEW r, NEW x, Extends(path(l, m), r, x)
          PROVE  /\ Begins(r, p)
                 /\ at[Len(path(l, m))] = climb(at[Len(r)], x)
      <4>1. /\ Begins(r, p) /\ Len(r) \in Nat /\ Len(path(l, m)) = Len(r) + 1
            /\ p[Len(path(l, m))] = x /\ Len(path(l, m)) \in 1..Len(p)
        <5> HIDE DEF path
        <5>. QED
          BY <3>6, <3>7, BeginsBack
      <4> HIDE DEF path
      <4>. QED
        BY <1>0, <4>1
    <3>8. CASE idx - l < k
      <4>1. at[Len(path(l, m))] = climb(at[Len(path(l, k))], subtree_hash(s, l + k, l + m))
            /\ Begins(path(l, k), p)
        BY <3>3, <3>7, <3>8
      <4>2. at[Len(path(l, k))].cur = subtree_hash(s, l, l + k)
        <5> HIDE DEF path
        <5>. QED
          BY <3>2, <3>6, <4>1, ClimbBack
      <4>3. idx \in l..(l + k - 1)
        BY <2>0, <3>4, <3>8
      <4>4. On(l, k)
        BY <3>1, <4>1, <4>2, <4>3
      <4> HIDE DEF On
      <4>. QED
        BY <3>5, <4>4
    <3>9. CASE ~ (idx - l < k)
      <4>0. inclusionPath(s, idx, l + k, l + m) = path(l + k, m - k)
            /\ subtree_hash(s, l + k, l + m) = subtree_hash(s, l + k, (l + k) + (m - k))
        BY <3>4
      <4>1. at[Len(path(l, m))] = climb(at[Len(path(l + k, m - k))], subtree_hash(s, l, l + k))
            /\ Begins(path(l + k, m - k), p)
        <5> HIDE DEF path
        <5>. QED
          BY <3>3, <3>7, <3>9, <4>0
      <4>2. at[Len(path(l + k, m - k))].cur = subtree_hash(s, l + k, l + m)
        <5> HIDE DEF path
        <5>. QED
          BY <3>2, <3>6, <4>1, ClimbBack
      <4>3. idx \in (l + k)..((l + k) + (m - k) - 1)
        BY <2>0, <3>1, <3>4, <3>9
      <4>4. On(l + k, m - k)
        <5> HIDE DEF path
        <5>. QED
          BY <3>1, <4>0, <4>1, <4>2, <4>3
      <4> HIDE DEF On
      <4>. QED
        BY <3>5, <4>4
    <3>. QED
      BY <3>8, <3>9
  <2>. QED
    BY <2>1, <2>2
<1>2. n \in Nat
  BY DEF Covers
<1>3. n \in T
  <2> HIDE DEF T
  <2>. QED
    BY <1>1, <1>2, Induction
<1>4. On(lo, n)
  BY DEF at
<1>. QED
  <2> HIDE DEF On
  <2>. QED
    BY <1>3, <1>4
-----------------------------------------------------------------------------
(* Proofs *)

\* Whatever index a proof claims, it proves only the leaf its path is for.
THEOREM ProofTheorem == Spec => []ProofSound
<1>1. LeavesInv => ProofSound
  <2> SUFFICES ASSUME LeavesInv, NEW i \in 0..(Size - 1), NEW j \in 0..(Size - 1),
                      NEW data \in Data, verify(data, j, PathOf(i), root(leaves))
               PROVE  leaf_hash(data) = leaves[i + 1]
    BY DEF ProofSound
  <2>1. /\ Covers(leaves, 0, Size) /\ i \in Nat /\ i \in 0..(0 + Size - 1)
        /\ 0 + Size = Size /\ leaves # <<>>
    BY LeavesAre, MerkleAssumption DEF Covers, Size
  <2> DEFINE p == inclusionPath(leaves, i, 0, 0 + Size)
  <2>2. p = PathOf(i) /\ root(leaves) = subtree_hash(leaves, 0, 0 + Size)
    BY <2>1 DEF PathOf, root, Size
  <2>3. p \in Seq(Subtrees(leaves))
    BY <2>1, PathSeq
  <2>4. Climbed(data, j, p)[Len(p)].cur = subtree_hash(leaves, 0, 0 + Size)
    BY <2>2 DEF verify
  <2>5. Len(p) \in Nat /\ Begins(p, p)
    <3> HIDE DEF p
    <3>1. Len(p) \in Nat
      BY <2>3
    <3>. QED
      BY <3>1 DEF Begins
  <2>. QED
    BY <2>1, <2>4, <2>5, ClimbSound
<1>. QED
  BY <1>1, LeavesTheorem, PTL
-----------------------------------------------------------------------------
(* Perfect trees *)

\* The q-th of the blocks of 2^e leaves, its hash, and the path to the leaf idx
\* through it.
Block(s, e, q) == e \in 0..MaxLeaves /\ q \in Nat /\ Covers(s, q * pow2[e], pow2[e])

In(idx, e, q) == idx \in Nat /\ q * pow2[e] <= idx /\ idx < q * pow2[e] + pow2[e]

BlockHash(s, e, q) == subtree_hash(s, q * pow2[e], q * pow2[e] + pow2[e])

BlockPath(s, idx, e, q) == inclusionPath(s, idx, q * pow2[e], q * pow2[e] + pow2[e])

\* A block splits into two blocks of half its size.
LEMMA Halves ==
  ASSUME NEW e \in 1..MaxLeaves, NEW q \in Nat
  PROVE  /\ e - 1 \in 0..MaxLeaves /\ pow2[e - 1] \in Nat \ {0}
         /\ q * pow2[e] \in Nat
         /\ largest_pow2_less_than(pow2[e]) = pow2[e - 1]
         /\ pow2[e] - pow2[e - 1] = pow2[e - 1] /\ pow2[e] # 1
         /\ (2 * q) * pow2[e - 1] = q * pow2[e]
         /\ (2 * q + 1) * pow2[e - 1] = q * pow2[e] + pow2[e - 1]
         /\ q * pow2[e] + pow2[e] = (q * pow2[e] + pow2[e - 1]) + pow2[e - 1]
<1>1. e - 1 \in 0..MaxLeaves /\ pow2[e - 1] \in Nat \ {0} /\ pow2[e] = 2 * pow2[e - 1]
  BY Pow2Grows, MerkleAssumption
<1> DEFINE P == pow2[e - 1]
<1>2. P \in Nat \ {0}
  BY <1>1
<1>3. largest_pow2_less_than(pow2[e]) = P
  BY <1>1, LargestIs
<1> HIDE DEF P
<1>4. (2 * q) * P = q * (2 * P) /\ (2 * q + 1) * P = q * (2 * P) + P /\ q * (2 * P) \in Nat
  BY <1>2
<1>. QED
  BY <1>1, <1>2, <1>3, <1>4 DEF P

\* The hash of a block joins those of its halves, and the path through it ends
\* with the hash of the half that does not hold the leaf.
LEMMA PerfectStep ==
  ASSUME NEW s, NEW e \in 1..MaxLeaves, NEW q \in Nat, Block(s, e, q)
  PROVE  /\ Block(s, e - 1, 2 * q) /\ Block(s, e - 1, 2 * q + 1)
         /\ BlockHash(s, e, q) =
              node_hash(BlockHash(s, e - 1, 2 * q), BlockHash(s, e - 1, 2 * q + 1))
         /\ \A idx : In(idx, e, q) =>
              \/ /\ In(idx, e - 1, 2 * q)
                 /\ Extends(BlockPath(s, idx, e, q), BlockPath(s, idx, e - 1, 2 * q),
                            BlockHash(s, e - 1, 2 * q + 1))
              \/ /\ In(idx, e - 1, 2 * q + 1)
                 /\ Extends(BlockPath(s, idx, e, q), BlockPath(s, idx, e - 1, 2 * q + 1),
                            BlockHash(s, e - 1, 2 * q))
<1> DEFINE lo == q * pow2[e]
           n == pow2[e]
           k == pow2[e - 1]
<1>1. /\ e - 1 \in 0..MaxLeaves /\ k \in Nat \ {0} /\ lo \in Nat
      /\ largest_pow2_less_than(n) = k /\ n - k = k /\ n # 1
      /\ (2 * q) * k = lo /\ (2 * q + 1) * k = lo + k /\ lo + n = (lo + k) + k
  BY Halves
<1>2. Covers(s, lo, n)
  BY DEF Block
<1>3. Covers(s, lo, k) /\ Covers(s, lo + k, k)
  BY <1>1, <1>2, CoversParts
<1>4. subtree_hash(s, lo, lo + n) =
        node_hash(subtree_hash(s, lo, lo + k), subtree_hash(s, lo + k, lo + n))
  BY <1>1, <1>2, SubtreeIs
<1>5. \A idx :
        /\ idx - lo < k =>
             Extends(inclusionPath(s, idx, lo, lo + n), inclusionPath(s, idx, lo, lo + k),
                     subtree_hash(s, lo + k, lo + n))
        /\ ~ (idx - lo < k) =>
             Extends(inclusionPath(s, idx, lo, lo + n), inclusionPath(s, idx, lo + k, lo + n),
                     subtree_hash(s, lo, lo + k))
  BY <1>1, <1>2, PathStep
<1>6. /\ BlockHash(s, e, q) = subtree_hash(s, lo, lo + n)
      /\ BlockHash(s, e - 1, 2 * q) = subtree_hash(s, lo, lo + k)
      /\ BlockHash(s, e - 1, 2 * q + 1) = subtree_hash(s, lo + k, (lo + k) + k)
  BY <1>1 DEF BlockHash
<1>7. \A idx :
        /\ BlockPath(s, idx, e, q) = inclusionPath(s, idx, lo, lo + n)
        /\ BlockPath(s, idx, e - 1, 2 * q) = inclusionPath(s, idx, lo, lo + k)
        /\ BlockPath(s, idx, e - 1, 2 * q + 1) = inclusionPath(s, idx, lo + k, (lo + k) + k)
  BY <1>1 DEF BlockPath
<1>8. Block(s, e - 1, 2 * q) /\ Block(s, e - 1, 2 * q + 1)
  <2>1. 2 * q \in Nat /\ 2 * q + 1 \in Nat
    OBVIOUS
  <2>. QED
    BY <1>1, <1>3, <2>1 DEF Block
<1>9. ASSUME NEW idx, In(idx, e, q)
      PROVE  /\ idx - lo < k => In(idx, e - 1, 2 * q)
             /\ ~ (idx - lo < k) => In(idx, e - 1, 2 * q + 1)
  <2>1. idx \in Nat /\ lo <= idx /\ idx < lo + n
    BY <1>9 DEF In
  <2>2. /\ In(idx, e - 1, 2 * q) <=> lo <= idx /\ idx < lo + k
        /\ In(idx, e - 1, 2 * q + 1) <=> lo + k <= idx /\ idx < (lo + k) + k
    BY <1>1, <2>1 DEF In
  <2> HIDE DEF lo, n, k
  <2>. QED
    BY <1>1, <2>1, <2>2
<1> HIDE DEF lo, n, k
<1>. QED
  BY <1>1, <1>4, <1>5, <1>6, <1>7, <1>8, <1>9

\* A block of one leaf.
LEMMA SingleBlock ==
  ASSUME NEW s, NEW q, Block(s, 0, q), NEW idx, In(idx, 0, q)
  PROVE  /\ q = idx /\ q * pow2[0] = idx /\ BlockHash(s, 0, q) = s[idx + 1]
         /\ BlockPath(s, idx, 0, q) = <<>>
<1>1. pow2[0] = 1 /\ q \in Nat /\ q * pow2[0] = q /\ Covers(s, q, 1)
  BY Pow2Grows DEF Block
<1>2. q = idx
  BY <1>1 DEF In
<1>3. BlockHash(s, 0, q) = subtree_hash(s, q, q + 1) /\ subtree_hash(s, q, q + 1) = s[q + 1]
  BY <1>1, SubtreeIs DEF BlockHash
<1>4. BlockPath(s, idx, 0, q) = inclusionPath(s, idx, q, q + 1)
      /\ inclusionPath(s, idx, q, q + 1) = <<>>
  BY <1>1, PathIs DEF BlockPath
<1>. QED
  BY <1>1, <1>2, <1>3, <1>4

\* The path through a block of 2^e leaves has e siblings.
LEMMA PerfectLen ==
  ASSUME NEW s, NEW idx, NEW e, NEW q, Block(s, e, q), In(idx, e, q)
  PROVE  Len(BlockPath(s, idx, e, q)) = e
<1> DEFINE T == {d \in Nat : \A r : Block(s, d, r) /\ In(idx, d, r)
                                      => Len(BlockPath(s, idx, d, r)) = d}
<1>1. ASSUME NEW d \in Nat, \A j \in Nat : j < d => j \in T PROVE d \in T
  <2> SUFFICES ASSUME NEW r, Block(s, d, r), In(idx, d, r)
               PROVE  Len(BlockPath(s, idx, d, r)) = d
    OBVIOUS
  <2>1. CASE d = 0
    <3>1. BlockPath(s, idx, d, r) = <<>>
      BY <2>1, SingleBlock
    <3>. QED
      BY <2>1, <3>1
  <2>2. CASE d # 0
    <3>1. d \in 1..MaxLeaves /\ r \in Nat /\ d - 1 \in Nat
      BY <2>2 DEF Block
    <3>2. d - 1 \in T
      <4> HIDE DEF T
      <4>. QED
        BY <1>1, <3>1
    <3>3. PICK c, x : /\ Block(s, d - 1, c) /\ In(idx, d - 1, c)
                      /\ Extends(BlockPath(s, idx, d, r), BlockPath(s, idx, d - 1, c), x)
      BY <3>1, PerfectStep, Zenon
    <3>4. Len(BlockPath(s, idx, d - 1, c)) = d - 1
      BY <3>2, <3>3
    <3>. QED
      BY <3>1, <3>3, <3>4 DEF Extends
  <2>. QED
    BY <2>1, <2>2
<1>2. e \in Nat
  BY DEF Block
<1>3. e \in T
  <2> HIDE DEF T
  <2>. QED
    BY <1>1, <1>2, Induction
<1>. QED
  BY <1>3

\* The path to the leaf idx through a block that holds it begins p.
OnPath(s, idx, e, q, p) ==
  Block(s, e, q) /\ In(idx, e, q) /\ Begins(BlockPath(s, idx, e, q), p) /\ Len(p) \in Nat

\* Along the path of a leaf, its own index says at every level on which side
\* the sibling stands.
LEMMA PerfectClimb ==
  ASSUME NEW s, NEW idx \in Nat, NEW data, leaf_hash(data) = s[idx + 1], NEW p,
         NEW e \in Nat, NEW q \in Nat, OnPath(s, idx, e, q, p)
  PROVE  Climbed(data, idx, p)[e].cur = BlockHash(s, e, q)
<1> DEFINE at == Climbed(data, idx, p)
           On(d, r) == OnPath(s, idx, d, r, p)
           T == {d \in Nat : \A r : On(d, r) => at[d].cur = BlockHash(s, d, r) /\ at[d].index = r}
<1>0. /\ at[0].cur = leaf_hash(data) /\ at[0].index = idx
      /\ \A i \in 1..Len(p) : at[i] = climb(at[i - 1], p[i])
  BY ClimbedIs DEF OnPath, Rounds
<1> HIDE DEF at
<1>1. ASSUME NEW d \in Nat, \A j \in Nat : j < d => j \in T PROVE d \in T
  <2> SUFFICES ASSUME NEW r, On(d, r) PROVE at[d].cur = BlockHash(s, d, r) /\ at[d].index = r
    <3> HIDE DEF On
    <3>. QED
      OBVIOUS
  <2>0. /\ Block(s, d, r) /\ In(idx, d, r) /\ Begins(BlockPath(s, idx, d, r), p)
        /\ Len(p) \in Nat
    BY DEF OnPath
  <2>1. CASE d = 0
    <3>1. r = idx /\ BlockHash(s, d, r) = s[idx + 1]
      BY <2>0, <2>1, SingleBlock
    <3>. QED
      BY <1>0, <2>1, <3>1
  <2>2. CASE d # 0
    <3>1. d \in 1..MaxLeaves /\ r \in Nat /\ d - 1 \in Nat /\ d - 1 < d
      BY <2>0, <2>2 DEF Block
    <3>2. d - 1 \in T
      <4> HIDE DEF T
      <4>. QED
        BY <1>1, <3>1
    <3>3. BlockHash(s, d, r) = node_hash(BlockHash(s, d - 1, 2 * r), BlockHash(s, d - 1, 2 * r + 1))
      BY <2>0, <3>1, PerfectStep
    <3>4. ASSUME NEW c, NEW x, Block(s, d - 1, c), In(idx, d - 1, c),
                 Extends(BlockPath(s, idx, d, r), BlockPath(s, idx, d - 1, c), x)
          PROVE  at[d] = climb(at[d - 1], x) /\ at[d - 1].cur = BlockHash(s, d - 1, c)
                 /\ at[d - 1].index = c
      <4>1. /\ Begins(BlockPath(s, idx, d - 1, c), p)
            /\ p[Len(BlockPath(s, idx, d, r))] = x
            /\ Len(BlockPath(s, idx, d, r)) \in 1..Len(p)
        BY <2>0, <3>4, BeginsBack
      <4>2. Len(BlockPath(s, idx, d, r)) = d
        BY <2>0, PerfectLen
      <4>3. at[d] = climb(at[d - 1], x)
        BY <1>0, <4>1, <4>2
      <4>4. On(d - 1, c)
        BY <2>0, <3>4, <4>1 DEF OnPath
      <4> HIDE DEF On
      <4>. QED
        BY <3>2, <4>3, <4>4
    <3>5. ASSUME NEW a, NEW x
          PROVE  /\ climb(a, x).cur = IF a.index % 2 = 0 THEN node_hash(a.cur, x)
                                      ELSE node_hash(x, a.cur)
                 /\ climb(a, x).index = a.index \div 2
      BY DEF climb
    <3>6. /\ (2 * r) % 2 = 0 /\ (2 * r) \div 2 = r
          /\ (2 * r + 1) % 2 = 1 /\ (2 * r + 1) \div 2 = r
      BY <3>1
    <3>7. CASE /\ In(idx, d - 1, 2 * r)
               /\ Extends(BlockPath(s, idx, d, r), BlockPath(s, idx, d - 1, 2 * r),
                          BlockHash(s, d - 1, 2 * r + 1))
      <4>1. Block(s, d - 1, 2 * r)
        BY <2>0, <3>1, PerfectStep
      <4>2. /\ at[d] = climb(at[d - 1], BlockHash(s, d - 1, 2 * r + 1))
            /\ at[d - 1].cur = BlockHash(s, d - 1, 2 * r) /\ at[d - 1].index = 2 * r
        BY <3>4, <3>7, <4>1
      <4>. QED
        BY <3>3, <3>5, <3>6, <4>2
    <3>8. CASE /\ In(idx, d - 1, 2 * r + 1)
               /\ Extends(BlockPath(s, idx, d, r), BlockPath(s, idx, d - 1, 2 * r + 1),
                          BlockHash(s, d - 1, 2 * r))
      <4>1. Block(s, d - 1, 2 * r + 1)
        BY <2>0, <3>1, PerfectStep
      <4>2. /\ at[d] = climb(at[d - 1], BlockHash(s, d - 1, 2 * r))
            /\ at[d - 1].cur = BlockHash(s, d - 1, 2 * r + 1) /\ at[d - 1].index = 2 * r + 1
        BY <3>4, <3>8, <4>1
      <4>. QED
        BY <3>3, <3>5, <3>6, <4>2
    <3>. QED
      BY <2>0, <3>1, <3>7, <3>8, PerfectStep
  <2>. QED
    BY <2>1, <2>2
<1>2. e \in Nat
  BY DEF OnPath, Block
<1>3. e \in T
  <2> HIDE DEF T
  <2>. QED
    BY <1>1, <1>2, Induction
<1>4. On(e, q)
  OBVIOUS
<1>. QED
  <2> HIDE DEF On
  <2>. QED
    BY <1>3, <1>4 DEF at

\* What the rounds up to the e-th have used up of the index: its low e bits.
Used(index, at, e) == index - at[e].index * pow2[e]

\* Each round uses up one bit more.
LEMMA IndexBits ==
  ASSUME NEW at, NEW data, NEW index \in Nat, NEW p, Len(p) \in Nat, Rounds(at, data, index, p),
         NEW e \in 0..MaxLeaves, e <= Len(p)
  PROVE  /\ at[e].index \in Nat
         /\ Used(index, at, e) \in 0..(pow2[e] - 1)
         /\ e # 0 => Used(index, at, e) =
                       IF at[e - 1].index % 2 = 0 THEN Used(index, at, e - 1)
                       ELSE Used(index, at, e - 1) + pow2[e - 1]
<1> DEFINE Step(d) == d # 0 => Used(index, at, d) =
                                 IF at[d - 1].index % 2 = 0 THEN Used(index, at, d - 1)
                                 ELSE Used(index, at, d - 1) + pow2[d - 1]
           Fits(d) == at[d].index \in Nat /\ Used(index, at, d) \in 0..(pow2[d] - 1)
           T == {d \in Nat : d <= MaxLeaves /\ d <= Len(p) => Fits(d) /\ Step(d)}
<1>0. /\ at[0].index = index
      /\ \A i \in 1..Len(p) : at[i].index = at[i - 1].index \div 2
  <2>1. \A a, x : climb(a, x).index = a.index \div 2
    BY DEF climb
  <2>. QED
    BY <2>1 DEF Rounds
<1>1. ASSUME NEW d \in Nat, \A j \in Nat : j < d => j \in T PROVE d \in T
  <2> SUFFICES ASSUME d <= MaxLeaves, d <= Len(p) PROVE Fits(d) /\ Step(d)
    <3> HIDE DEF Fits, Step
    <3>. QED
      OBVIOUS
  <2>1. CASE d = 0
    <3>1. pow2[0] = 1
      BY Pow2Grows
    <3>. QED
      BY <1>0, <2>1, <3>1 DEF Used
  <2>2. CASE d # 0
    <3>1. d - 1 \in Nat /\ d - 1 < d /\ d \in 1..MaxLeaves /\ d \in 1..Len(p)
      BY <2>2, MerkleAssumption
    <3>2. d - 1 \in T
      <4> HIDE DEF T
      <4>. QED
        BY <1>1, <3>1
    <3>3. at[d - 1].index \in Nat /\ Used(index, at, d - 1) \in 0..(pow2[d - 1] - 1)
      BY <3>1, <3>2, MerkleAssumption
    <3>4. at[d].index = at[d - 1].index \div 2
      BY <1>0, <3>1
    <3>5. pow2[d] = 2 * pow2[d - 1] /\ pow2[d - 1] \in Nat
      BY <3>1, Pow2Grows, MerkleAssumption
    <3>6. ASSUME NEW a \in Nat, NEW b, b = a \div 2, NEW P \in Nat, index - a * P \in 0..(P - 1)
          PROVE  /\ b \in Nat /\ index - b * (2 * P) \in 0..(2 * P - 1)
                 /\ index - b * (2 * P) = IF a % 2 = 0 THEN index - a * P ELSE index - a * P + P
      <4>1. b \in Nat /\ ((a = 2 * b /\ a % 2 = 0) \/ (a = 2 * b + 1 /\ a % 2 = 1))
        BY <3>6
      <4>2. CASE a = 2 * b /\ a % 2 = 0
        <5>1. a * P = b * (2 * P)
          BY <4>1, <4>2
        <5>. QED
          BY <3>6, <4>1, <4>2, <5>1
      <4>3. CASE a = 2 * b + 1 /\ a % 2 = 1
        <5>1. a * P = b * (2 * P) + P /\ b * (2 * P) \in Nat
          BY <4>1, <4>3
        <5>. QED
          BY <3>6, <4>1, <4>3, <5>1
      <4>. QED
        BY <4>1, <4>2, <4>3
    <3>7. /\ at[d].index \in Nat
          /\ index - at[d].index * (2 * pow2[d - 1]) \in 0..(2 * pow2[d - 1] - 1)
          /\ index - at[d].index * (2 * pow2[d - 1]) =
               IF at[d - 1].index % 2 = 0 THEN index - at[d - 1].index * pow2[d - 1]
               ELSE index - at[d - 1].index * pow2[d - 1] + pow2[d - 1]
      <4>1. index - at[d - 1].index * pow2[d - 1] \in 0..(pow2[d - 1] - 1)
        BY <3>3 DEF Used
      <4>. QED
        BY <3>3, <3>4, <3>5, <3>6, <4>1, Zenon
    <3>. QED
      BY <3>5, <3>7, Zenon DEF Used
  <2>. QED
    BY <2>1, <2>2
<1>2. \A d \in Nat : d \in T
  <2> HIDE DEF T
  <2>. QED
    BY <1>1, Induction
<1>. QED
  <2>1. e \in T /\ e <= MaxLeaves
    BY <1>2
  <2>2. Fits(e) /\ Step(e)
    <3> HIDE DEF Fits, Step
    <3>. QED
      BY <2>1
  <2>. QED
    BY <2>2

\* A climb along the path to the leaf idx that claims another index reaches
\* the hash of a block the path leads through.
Reaches(at, data, index, s, idx, e, q, p) ==
  /\ Hashed(s) /\ index \in Nat /\ e \in Nat
  /\ Rounds(at, data, index, p) /\ OnPath(s, idx, e, q, p)
  /\ at[e].cur = BlockHash(s, e, q)

\* If the climb reaches the hash of a block, the payload is at the place in the
\* block that the index names, even if the index is that of another leaf: where
\* the index takes the wrong side, both halves hold the same leaves.
LEMMA PerfectSound ==
  ASSUME NEW at, NEW data, NEW index, NEW s, NEW idx, NEW e, NEW q, NEW p,
         Reaches(at, data, index, s, idx, e, q, p)
  PROVE  s[q * pow2[e] + Used(index, at, e) + 1] = leaf_hash(data)
<1> DEFINE On(d, r) == OnPath(s, idx, d, r, p) /\ at[d].cur = BlockHash(s, d, r)
           Holds(d, r) == s[r * pow2[d] + Used(index, at, d) + 1] = leaf_hash(data)
           T == {d \in Nat : \A r : On(d, r) => Holds(d, r)}
<1>0. /\ at[0].cur = leaf_hash(data) /\ at[0].index = index
      /\ \A i \in 1..Len(p) : at[i] = climb(at[i - 1], p[i])
      /\ Hashed(s) /\ index \in Nat /\ Rounds(at, data, index, p)
  BY DEF Reaches, Rounds
<1>1. ASSUME NEW d \in Nat, \A j \in Nat : j < d => j \in T PROVE d \in T
  <2> SUFFICES ASSUME NEW r, On(d, r) PROVE Holds(d, r)
    <3> HIDE DEF On, Holds
    <3>. QED
      OBVIOUS
  <2>0. /\ Block(s, d, r) /\ In(idx, d, r) /\ Begins(BlockPath(s, idx, d, r), p)
        /\ Len(p) \in Nat /\ at[d].cur = BlockHash(s, d, r)
    BY DEF OnPath
  <2>1. CASE d = 0
    <3>1. r = idx /\ r * pow2[0] = idx /\ BlockHash(s, d, r) = s[idx + 1] /\ idx \in Nat
      BY <2>0, <2>1, SingleBlock DEF In
    <3>2. pow2[0] = 1
      BY Pow2Grows
    <3>3. Used(index, at, 0) = 0
      BY <1>0, <3>2 DEF Used
    <3>. QED
      BY <1>0, <2>0, <2>1, <3>1, <3>3
  <2>2. CASE d # 0
    <3>1. d \in 1..MaxLeaves /\ r \in Nat /\ d - 1 \in Nat /\ d - 1 < d /\ d - 1 \in 0..MaxLeaves
      BY <2>0, <2>2, MerkleAssumption DEF Block
    <3>2. d - 1 \in T
      <4> HIDE DEF T
      <4>. QED
        BY <1>1, <3>1
    <3> DEFINE L == BlockHash(s, d - 1, 2 * r)
               R == BlockHash(s, d - 1, 2 * r + 1)
               k == pow2[d - 1]
               u == Used(index, at, d - 1)
    <3>3. /\ BlockHash(s, d, r) = node_hash(L, R)
          /\ Block(s, d - 1, 2 * r) /\ Block(s, d - 1, 2 * r + 1)
      BY <2>0, <3>1, PerfectStep
    <3>4. /\ k \in Nat \ {0} /\ r * pow2[d] \in Nat
          /\ (2 * r) * k = r * pow2[d] /\ (2 * r + 1) * k = r * pow2[d] + k
      BY <3>1, Halves
    <3>5. Len(BlockPath(s, idx, d, r)) = d /\ d <= Len(p) /\ d \in 1..Len(p)
      <4>1. Len(BlockPath(s, idx, d, r)) = d
        BY <2>0, PerfectLen
      <4>2. Len(BlockPath(s, idx, d, r)) <= Len(p)
        BY <2>0 DEF Begins
      <4>. QED
        BY <3>1, <4>1, <4>2
    <3>6. /\ Used(index, at, d) = IF at[d - 1].index % 2 = 0 THEN u ELSE u + k
          /\ u \in 0..(k - 1)
      <4>1. d \in 0..MaxLeaves /\ d - 1 <= Len(p)
        BY <3>1, <3>5
      <4>2. Used(index, at, d) = IF at[d - 1].index % 2 = 0 THEN u ELSE u + k
        BY <2>2, <3>5, <4>1, IndexBits, <1>0, <2>0, Zenon
      <4>3. u \in 0..(k - 1)
        BY <3>1, <4>1, IndexBits, <1>0, <2>0, Zenon
      <4>. QED
        BY <4>2, <4>3, Zenon
    <3>7. ASSUME NEW c, NEW x, Block(s, d - 1, c), In(idx, d - 1, c),
                 Extends(BlockPath(s, idx, d, r), BlockPath(s, idx, d - 1, c), x)
          PROVE  /\ at[d] = climb(at[d - 1], x)
                 /\ at[d - 1].cur = BlockHash(s, d - 1, c) => Holds(d - 1, c)
      <4>1. /\ Begins(BlockPath(s, idx, d - 1, c), p)
            /\ p[Len(BlockPath(s, idx, d, r))] = x
        BY <2>0, <3>7, BeginsBack
      <4>2. at[d] = climb(at[d - 1], x)
        BY <1>0, <3>5, <4>1
      <4>3. at[d - 1].cur = BlockHash(s, d - 1, c) => On(d - 1, c)
        BY <2>0, <3>7, <4>1 DEF OnPath
      <4> HIDE DEF On, Holds
      <4>. QED
        BY <3>2, <4>2, <4>3
    <3>8. L = R => s[r * pow2[d] + u + 1] = s[r * pow2[d] + k + u + 1]
      <4> SUFFICES ASSUME L = R PROVE s[r * pow2[d] + u + 1] = s[r * pow2[d] + k + u + 1]
        OBVIOUS
      <4>1. /\ Covers(s, r * pow2[d], k) /\ Covers(s, r * pow2[d] + k, k)
            /\ subtree_hash(s, r * pow2[d], r * pow2[d] + k) =
                 subtree_hash(s, r * pow2[d] + k, r * pow2[d] + k + k)
        BY <3>3, <3>4 DEF Block, BlockHash
      <4>2. SameLeaves(s, r * pow2[d], s, r * pow2[d] + k, k)
        <5> HIDE DEF k
        <5>. QED
          BY <1>0, <4>1, SubtreeBinds
      <4>. QED
        BY <3>6, <4>2 DEF SameLeaves
    <3>9. at[d].cur = node_hash(L, R)
      BY <2>0, <3>3
    <3>10. CASE /\ In(idx, d - 1, 2 * r)
                /\ Extends(BlockPath(s, idx, d, r), BlockPath(s, idx, d - 1, 2 * r), R)
      <4>1. /\ at[d] = climb(at[d - 1], R)
            /\ at[d - 1].cur = L => s[(2 * r) * k + u + 1] = leaf_hash(data)
        BY <3>3, <3>7, <3>10
      <4> HIDE DEF L, R, u, k
      <4>2. at[d - 1].cur = L /\ (at[d - 1].index % 2 # 0 => L = R)
        BY <3>9, <4>1, ClimbBack
      <4>3. s[r * pow2[d] + u + 1] = leaf_hash(data)
        BY <3>4, <4>1, <4>2
      <4>4. r * pow2[d] + (u + k) + 1 = r * pow2[d] + k + u + 1
        BY <3>4, <3>6
      <4>. QED
        BY <3>6, <3>8, <4>2, <4>3, <4>4
    <3>11. CASE /\ In(idx, d - 1, 2 * r + 1)
                /\ Extends(BlockPath(s, idx, d, r), BlockPath(s, idx, d - 1, 2 * r + 1), L)
      <4>1. /\ at[d] = climb(at[d - 1], L)
            /\ at[d - 1].cur = R => s[(2 * r + 1) * k + u + 1] = leaf_hash(data)
        BY <3>3, <3>7, <3>11
      <4> HIDE DEF L, R, u, k
      <4>2. at[d - 1].cur = R /\ (at[d - 1].index % 2 = 0 => R = L)
        <5>1. climb(at[d - 1], L).cur = node_hash(L, R)
          BY <3>9, <4>1
        <5>. QED
          BY <5>1, ClimbBack
      <4>3. s[r * pow2[d] + k + u + 1] = leaf_hash(data)
        BY <3>4, <4>1, <4>2
      <4>4. r * pow2[d] + (u + k) + 1 = r * pow2[d] + k + u + 1
        BY <3>4, <3>6
      <4>. QED
        BY <3>6, <3>8, <4>2, <4>3, <4>4
    <3>. QED
      BY <2>0, <3>1, <3>10, <3>11, PerfectStep
  <2>. QED
    BY <2>1, <2>2
<1>2. e \in Nat
  BY DEF Reaches
<1>3. e \in T
  <2> HIDE DEF T
  <2>. QED
    BY <1>1, <1>2, Induction
<1>4. On(e, q)
  BY DEF Reaches
<1>5. Holds(e, q)
  <2> HIDE DEF On, Holds
  <2>. QED
    BY <1>3, <1>4
<1>. QED
  BY <1>5

\* In a perfect tree every leaf's own proof verifies, and whatever verifies is
\* the payload at the index the proof claims.
THEOREM PerfectTheorem == Spec => []PerfectProofs
<1>1. LeavesInv => PerfectProofs
  <2> SUFFICES ASSUME LeavesInv, NEW e \in 0..MaxLeaves, Size = pow2[e],
                      NEW i \in 0..(Size - 1), NEW data \in Data
               PROVE  /\ leaf_hash(data) = leaves[i + 1]
                           => verify(data, i, PathOf(i), root(leaves))
                      /\ \A j \in 0..(Size - 1) :
                           verify(data, j, PathOf(i), root(leaves))
                             => leaf_hash(data) = leaves[j + 1]
    BY DEF PerfectProofs
  <2> DEFINE p == PathOf(i)
  <2>1. /\ Len(leaves) \in 1..MaxLeaves /\ Size = Len(leaves) /\ leaves # <<>> /\ i \in Nat
        /\ Hashed(leaves)
    BY LeavesAre, MerkleAssumption DEF Size
  <2>0. PICK q \in Nat : q = 0
    OBVIOUS
  <2>2. q * pow2[e] = 0 /\ q * pow2[e] + pow2[e] = Size /\ pow2[e] \in Nat
    BY <2>0, <2>1, Pow2Grows
  <2>3. Covers(leaves, 0, Size) /\ In(i, e, q)
    BY <2>1, <2>2, MerkleAssumption DEF Covers, In
  <2>4. /\ Block(leaves, e, q) /\ p = BlockPath(leaves, i, e, q)
        /\ root(leaves) = BlockHash(leaves, e, q)
    BY <2>1, <2>2, <2>3 DEF Block, PathOf, BlockPath, BlockHash, root
  <2>5. Len(p) = e
    BY <2>3, <2>4, PerfectLen
  <2> HIDE DEF p
  <2>6. OnPath(leaves, i, e, q, p) /\ Len(p) \in Nat
    BY <2>3, <2>4, <2>5 DEF Begins, OnPath
  <2>7. leaf_hash(data) = leaves[i + 1] => Climbed(data, i, p)[e].cur = BlockHash(leaves, e, q)
    BY <2>1, <2>6, PerfectClimb
  <2>8. ASSUME NEW j \in 0..(Size - 1), Climbed(data, j, p)[e].cur = BlockHash(leaves, e, q)
        PROVE  leaf_hash(data) = leaves[j + 1]
    <3> DEFINE at == Climbed(data, j, p)
    <3>1. Rounds(at, data, j, p) /\ j \in Nat
      BY <2>1, <2>6, ClimbedIs
    <3>2. leaves[q * pow2[e] + Used(j, at, e) + 1] = leaf_hash(data)
      <4>1. at[e].cur = BlockHash(leaves, e, q)
        BY <2>8
      <4> HIDE DEF at
      <4>. QED
        <5>1. Reaches(at, data, j, leaves, i, e, q, p)
          BY <2>1, <2>6, <3>1, <4>1 DEF Reaches
        <5>. QED
          BY <5>1, PerfectSound
    <3> HIDE DEF at
    <3>3. at[e].index \in Nat /\ Used(j, at, e) \in 0..(pow2[e] - 1)
      <4>1. e <= Len(p)
        BY <2>5
      <4>. QED
        BY <2>6, <3>1, <4>1, IndexBits, Zenon
    <3>4. at[e].index = 0
      <4>1. at[e].index * pow2[e] <= j
        BY <2>1, <2>2, <3>1, <3>3 DEF Used
      <4>2. ASSUME NEW a \in Nat, NEW P \in Nat, a * P <= j, j < P PROVE a = 0
        <5>1. a # 0 => a * P >= P
          BY <4>2
        <5>. QED
          BY <3>1, <4>2, <5>1
      <4>3. j < pow2[e]
        BY <2>1, <2>2
      <4>. QED
        BY <2>2, <3>3, <4>1, <4>2, <4>3
    <3>5. Used(j, at, e) = j
      BY <2>2, <3>1, <3>4 DEF Used
    <3>. QED
      BY <2>2, <3>1, <3>2, <3>5
  <2>. QED
    BY <2>4, <2>5, <2>7, <2>8 DEF verify, p
<1>. QED
  BY <1>1, LeavesTheorem, PTL
-----------------------------------------------------------------------------
(* The reference tree *)

\* Perfect satisfies the equation it is defined by.
LEMMA PerfectIs ==
  ASSUME NEW s, NEW e \in 0..MaxLeaves, NEW lo \in 0..(Len(s) - pow2[e])
  PROVE  Perfect(s)[e][lo] =
           IF e = 0 THEN s[lo + 1]
           ELSE node_hash(Perfect(s)[e - 1][lo], Perfect(s)[e - 1][lo + pow2[e - 1]])
<1> DEFINE Row(h, d) == [l \in 0..(Len(s) - pow2[d]) |->
                           IF d = 0 THEN s[l + 1]
                           ELSE node_hash(h[d - 1][l], h[d - 1][l + pow2[d - 1]])]
           Is(h, N) == h = [d \in 0..N |-> Row(h, d)]
           T == {N \in Nat : \E h : Is(h, N)}
<1>1. ASSUME NEW N \in Nat, \A m \in Nat : m < N => m \in T PROVE N \in T
  <2>1. CASE N = 0
    <3> DEFINE z == [d \in 0..0 |-> Row(<<>>, 0)]
    <3>1. Row(z, 0) = Row(<<>>, 0)
      <4> HIDE DEF z
      <4>. QED
        OBVIOUS
    <3>2. z = [d \in 0..0 |-> Row(z, d)]
      <4> HIDE DEF Row
      <4>. QED
        BY <3>1
    <3>. QED
      BY <2>1, <3>2
  <2>2. CASE N # 0
    <3>1. N - 1 \in T
      <4> HIDE DEF T
      <4>. QED
        BY <1>1, <2>2
    <3>2. PICK h : Is(h, N - 1)
      <4> HIDE DEF Is
      <4>. QED
        BY <3>1
    <3> DEFINE g == [d \in 0..N |-> IF d = N THEN Row(h, N) ELSE h[d]]
    <3>3. ASSUME NEW d \in 0..N PROVE g[d] = Row(g, d)
      <4>1. g[d] = Row(h, d)
        <5> HIDE DEF Row
        <5>. QED
          BY <3>2
      <4>2. d # 0 => g[d - 1] = h[d - 1]
        <5> HIDE DEF Row
        <5>. QED
          OBVIOUS
      <4> HIDE DEF g
      <4>3. Row(g, d) = Row(h, d)
        BY <4>2
      <4>. QED
        BY <4>1, <4>3
    <3>4. Is(g, N)
      <4>1. g = [d \in 0..N |-> g[d]]
        <5> HIDE DEF Row
        <5>. QED
          OBVIOUS
      <4> HIDE DEF g, Row
      <4>. QED
        BY <3>3, <4>1
    <3>. QED
      BY <3>4, Zenon
  <2>. QED
    BY <2>1, <2>2
<1>2. MaxLeaves \in T
  <2> HIDE DEF T
  <2>. QED
    BY <1>1, Induction, MerkleAssumption
<1>3. \E h : Is(h, MaxLeaves)
  BY <1>2
<1> DEFINE H == CHOOSE h : Is(h, MaxLeaves)
<1>4. Is(H, MaxLeaves)
  BY <1>3, Zenon
<1>5. Perfect(s) = H
  BY DEF Perfect
<1>6. H[e] = Row(H, e)
  <2> HIDE DEF H, Row
  <2>. QED
    BY <1>4
<1> HIDE DEF H
<1>. QED
  BY <1>5, <1>6

\* Peaks satisfies the equation it is defined by.
LEMMA PeaksIs ==
  ASSUME NEW s, Len(s) \in Nat, NEW e \in 0..MaxLeaves,
         NEW lo \in {l \in 0..(Len(s) - 1) : Len(s) - l <= pow2[e]}
  PROVE  Peaks(s)[e][lo] =
           IF Len(s) - lo = pow2[e] THEN Perfect(s)[e][lo]
           ELSE IF Len(s) - lo <= pow2[e - 1] THEN Peaks(s)[e - 1][lo]
           ELSE node_hash(Perfect(s)[e - 1][lo], Peaks(s)[e - 1][lo + pow2[e - 1]])
<1> DEFINE Row(h, d) == [l \in {x \in 0..(Len(s) - 1) : Len(s) - x <= pow2[d]} |->
                           IF Len(s) - l = pow2[d] THEN Perfect(s)[d][l]
                           ELSE IF Len(s) - l <= pow2[d - 1] THEN h[d - 1][l]
                           ELSE node_hash(Perfect(s)[d - 1][l], h[d - 1][l + pow2[d - 1]])]
           Is(h, N) == h = [d \in 0..N |-> Row(h, d)]
           T == {N \in Nat : \E h : Is(h, N)}
<1>1. ASSUME NEW N \in Nat, \A m \in Nat : m < N => m \in T PROVE N \in T
  <2>1. CASE N = 0
    <3> DEFINE z == [d \in 0..0 |-> Row(<<>>, 0)]
    <3>1. Row(z, 0) = Row(<<>>, 0)
      <4>1. ASSUME NEW l \in {x \in 0..(Len(s) - 1) : Len(s) - x <= pow2[0]}
            PROVE  Len(s) - l = pow2[0]
        BY Pow2Grows
      <4> HIDE DEF z
      <4>. QED
        BY <4>1
    <3>2. z = [d \in 0..0 |-> Row(z, d)]
      <4> HIDE DEF Row
      <4>. QED
        BY <3>1
    <3>. QED
      BY <2>1, <3>2
  <2>2. CASE N # 0
    <3>1. N - 1 \in T
      <4> HIDE DEF T
      <4>. QED
        BY <1>1, <2>2
    <3>2. PICK h : Is(h, N - 1)
      <4> HIDE DEF Is
      <4>. QED
        BY <3>1
    <3> DEFINE g == [d \in 0..N |-> IF d = N THEN Row(h, N) ELSE h[d]]
    <3>3. ASSUME NEW d \in 0..N PROVE g[d] = Row(g, d)
      <4>1. g[d] = Row(h, d)
        <5> HIDE DEF Row
        <5>. QED
          BY <3>2
      <4>2. d # 0 => g[d - 1] = h[d - 1]
        <5> HIDE DEF Row
        <5>. QED
          OBVIOUS
      <4> HIDE DEF g
      <4>3. Row(g, d) = Row(h, d)
        <5>1. CASE d # 0
          BY <4>2, <5>1
        <5>2. CASE d = 0
          <6>1. ASSUME NEW l \in {x \in 0..(Len(s) - 1) : Len(s) - x <= pow2[0]}
                PROVE  Len(s) - l = pow2[0]
            BY Pow2Grows
          <6>. QED
            BY <5>2, <6>1
        <5>. QED
          BY <5>1, <5>2
      <4>. QED
        BY <4>1, <4>3
    <3>4. Is(g, N)
      <4>1. g = [d \in 0..N |-> g[d]]
        <5> HIDE DEF Row
        <5>. QED
          OBVIOUS
      <4> HIDE DEF g, Row
      <4>. QED
        BY <3>3, <4>1
    <3>. QED
      BY <3>4, Zenon
  <2>. QED
    BY <2>1, <2>2
<1>2. MaxLeaves \in T
  <2> HIDE DEF T
  <2>. QED
    BY <1>1, Induction, MerkleAssumption
<1>3. \E h : Is(h, MaxLeaves)
  BY <1>2
<1> DEFINE H == CHOOSE h : Is(h, MaxLeaves)
<1>4. Is(H, MaxLeaves)
  BY <1>3, Zenon
<1>5. Peaks(s) = H
  BY DEF Peaks
<1>6. H[e] = Row(H, e)
  <2> HIDE DEF H, Row
  <2>. QED
    BY <1>4
<1> HIDE DEF H
<1>. QED
  BY <1>5, <1>6

\* A perfect tree by doubling is the same tree by splitting.
LEMMA PerfectAre ==
  ASSUME NEW s, NEW e \in 0..MaxLeaves, NEW lo, Covers(s, lo, pow2[e])
  PROVE  Perfect(s)[e][lo] = subtree_hash(s, lo, lo + pow2[e])
<1> DEFINE T == {d \in Nat : d <= MaxLeaves =>
                   \A l : Covers(s, l, pow2[d])
                            => Perfect(s)[d][l] = subtree_hash(s, l, l + pow2[d])}
<1>1. ASSUME NEW d \in Nat, \A j \in Nat : j < d => j \in T PROVE d \in T
  <2> SUFFICES ASSUME d <= MaxLeaves, NEW l, Covers(s, l, pow2[d])
               PROVE  Perfect(s)[d][l] = subtree_hash(s, l, l + pow2[d])
    OBVIOUS
  <2>0. d \in 0..MaxLeaves /\ l \in 0..(Len(s) - pow2[d]) /\ l \in Nat
    BY MerkleAssumption DEF Covers
  <2>1. CASE d = 0
    <3>1. pow2[d] = 1
      BY <2>1, Pow2Grows
    <3>2. Perfect(s)[d][l] = s[l + 1]
      BY <2>0, <2>1, PerfectIs
    <3>3. subtree_hash(s, l, l + pow2[d]) = s[l + 1]
      BY <3>1, SubtreeIs
    <3>. QED
      BY <3>2, <3>3
  <2>2. CASE d # 0
    <3> DEFINE k == pow2[d - 1]
    <3>1. d \in 1..MaxLeaves /\ d - 1 \in Nat /\ d - 1 < d /\ d - 1 <= MaxLeaves
      BY <2>0, <2>2, MerkleAssumption
    <3>2. /\ k \in Nat \ {0} /\ largest_pow2_less_than(pow2[d]) = k /\ pow2[d] - k = k
          /\ pow2[d] # 1 /\ pow2[d] \in Nat
      BY <2>0, <3>1, Halves, Pow2Grows
    <3>3. Covers(s, l, k) /\ Covers(s, l + k, k)
      BY <3>2, CoversParts
    <3>4. l + pow2[d] = (l + k) + k
      BY <2>0, <3>2
    <3>5. d - 1 \in T
      <4> HIDE DEF T
      <4>. QED
        BY <1>1, <3>1
    <3>6. /\ Perfect(s)[d - 1][l] = subtree_hash(s, l, l + k)
          /\ Perfect(s)[d - 1][l + k] = subtree_hash(s, l + k, (l + k) + k)
      BY <3>1, <3>3, <3>5
    <3>7. Perfect(s)[d][l] = node_hash(Perfect(s)[d - 1][l], Perfect(s)[d - 1][l + k])
      BY <2>0, <2>2, PerfectIs
    <3>8. subtree_hash(s, l, l + pow2[d]) =
            node_hash(subtree_hash(s, l, l + k), subtree_hash(s, l + k, l + pow2[d]))
      BY <3>2, SubtreeIs
    <3>. QED
      BY <3>4, <3>6, <3>7, <3>8
  <2>. QED
    BY <2>1, <2>2
<1>2. \A d \in Nat : d \in T
  <2> HIDE DEF T
  <2>. QED
    BY <1>1, Induction
<1>. QED
  BY <1>2, MerkleAssumption

\* The peaks hashed together from the right are the tree by splitting.
LEMMA PeaksAre ==
  ASSUME NEW s, Len(s) \in 1..MaxLeaves, NEW e \in 0..MaxLeaves,
         NEW lo \in 0..(Len(s) - 1), Len(s) - lo <= pow2[e]
  PROVE  Peaks(s)[e][lo] = subtree_hash(s, lo, Len(s))
<1> DEFINE Fits(d) == {l \in 0..(Len(s) - 1) : Len(s) - l <= pow2[d]}
           T == {d \in Nat : d <= MaxLeaves =>
                   \A l \in Fits(d) : Peaks(s)[d][l] = subtree_hash(s, l, Len(s))}
<1>0. Len(s) \in Nat /\ MaxLeaves \in Nat
  BY MerkleAssumption
<1>1. ASSUME NEW d \in Nat, \A j \in Nat : j < d => j \in T PROVE d \in T
  <2> SUFFICES ASSUME d <= MaxLeaves, NEW l \in Fits(d)
               PROVE  Peaks(s)[d][l] = subtree_hash(s, l, Len(s))
    OBVIOUS
  <2> DEFINE n == Len(s) - l
  <2>0. /\ d \in 0..MaxLeaves /\ l \in Nat /\ n \in 1..Len(s) /\ n <= pow2[d] /\ l + n = Len(s)
        /\ pow2[d] \in Nat /\ Covers(s, l, n)
    BY <1>0, Pow2Grows DEF Covers
  <2>1. Peaks(s)[d][l] = IF n = pow2[d] THEN Perfect(s)[d][l]
                         ELSE IF n <= pow2[d - 1] THEN Peaks(s)[d - 1][l]
                         ELSE node_hash(Perfect(s)[d - 1][l], Peaks(s)[d - 1][l + pow2[d - 1]])
    BY <1>0, <2>0, PeaksIs
  <2>2. CASE n = pow2[d]
    <3>1. Covers(s, l, pow2[d]) /\ l + pow2[d] = Len(s)
      BY <2>0, <2>2
    <3>2. Perfect(s)[d][l] = subtree_hash(s, l, l + pow2[d])
      BY <2>0, <3>1, PerfectAre
    <3>. QED
      BY <2>1, <2>2, <3>1, <3>2
  <2>3. CASE n # pow2[d]
    <3>1. d # 0
      BY <2>0, <2>3, Pow2Grows
    <3> DEFINE k == pow2[d - 1]
    <3>2. /\ d - 1 \in Nat /\ d - 1 < d /\ d - 1 \in 0..MaxLeaves /\ d \in 1..MaxLeaves
          /\ k \in Nat /\ pow2[d] = 2 * k /\ k >= 1
      <4>1. d - 1 \in Nat /\ d - 1 < d /\ d - 1 \in 0..MaxLeaves /\ d \in 1..MaxLeaves
        BY <1>0, <2>0, <3>1
      <4>2. k \in Nat /\ pow2[d] = 2 * k /\ k > d - 1
        BY <4>1, Pow2Grows
      <4>. QED
        BY <4>1, <4>2
    <3>3. d - 1 \in T /\ d - 1 <= MaxLeaves
      <4> HIDE DEF T
      <4>. QED
        BY <1>0, <1>1, <3>2
    <3>4. \A x \in Fits(d - 1) : Peaks(s)[d - 1][x] = subtree_hash(s, x, Len(s))
      <4> HIDE DEF Fits
      <4>. QED
        BY <3>3
    <3>5. CASE n <= k
      <4>1. l \in Fits(d - 1)
        BY <2>0, <3>5
      <4>. QED
        BY <2>1, <2>3, <3>4, <3>5, <4>1
    <3>6. CASE ~ (n <= k)
      <4>1. largest_pow2_less_than(n) = k
        <5>1. k < n /\ n \in Nat
          BY <2>0, <3>2, <3>6
        <5>. QED
          BY <2>0, <3>2, <5>1, LargestIs
      <4>2. n # 1
        BY <2>0, <3>2, <3>6
      <4>3. Covers(s, l, k)
        BY <2>0, <4>1, <4>2, CoversParts
      <4>4. subtree_hash(s, l, Len(s)) =
              node_hash(subtree_hash(s, l, l + k), subtree_hash(s, l + k, Len(s)))
        <5> HIDE DEF n, k
        <5>. QED
          BY <2>0, <4>1, <4>2, SubtreeIs
      <4>5. Perfect(s)[d - 1][l] = subtree_hash(s, l, l + k)
        BY <3>2, <4>3, PerfectAre
      <4>6. l + k \in Fits(d - 1)
        <5>1. ASSUME NEW L \in Nat, NEW P \in Nat, l + n = L, n <= 2 * P, ~ (n <= P)
              PROVE  l + P \in 0..(L - 1) /\ L - (l + P) <= P
          <6> HIDE DEF n
          <6>. QED
            BY <2>0, <5>1
        <5> HIDE DEF n, k
        <5>2. l + k \in 0..(Len(s) - 1) /\ Len(s) - (l + k) <= k
          BY <1>0, <2>0, <3>2, <3>6, <5>1
        <5>. QED
          BY <5>2 DEF k
      <4>7. Peaks(s)[d - 1][l + k] = subtree_hash(s, l + k, Len(s))
        BY <3>4, <4>6
      <4>. QED
        BY <2>1, <2>3, <3>6, <4>4, <4>5, <4>7
    <3>. QED
      BY <3>5, <3>6
  <2>. QED
    BY <2>2, <2>3
<1>2. \A d \in Nat : d \in T
  <2> HIDE DEF T
  <2>. QED
    BY <1>1, Induction
<1>3. e \in T /\ e <= MaxLeaves /\ lo \in Fits(e)
  BY <1>0, <1>2
<1>. QED
  <2> HIDE DEF Fits
  <2>. QED
    BY <1>3

\* The recursion by the largest power of two below builds the RFC 6962 tree.
THEOREM RFC6962Theorem == Spec => []RootIsRFC6962
<1>1. LeavesInv => RootIsRFC6962
  <2> SUFFICES ASSUME LeavesInv, leaves # <<>>
               PROVE  root(leaves) = Peaks(leaves)[MaxLeaves][0]
    BY DEF RootIsRFC6962
  <2>1. Len(leaves) \in 1..MaxLeaves /\ MaxLeaves \in Nat
    BY LeavesAre, MerkleAssumption
  <2>2. MaxLeaves \in 0..MaxLeaves /\ 0 \in 0..(Len(leaves) - 1)
    BY <2>1
  <2>3. Len(leaves) - 0 <= pow2[MaxLeaves]
    BY <2>1, <2>2, Pow2Grows
  <2>4. Peaks(leaves)[MaxLeaves][0] = subtree_hash(leaves, 0, Len(leaves))
    BY <2>1, <2>2, <2>3, PeaksAre
  <2>. QED
    BY <2>4 DEF root
<1>. QED
  BY <1>1, LeavesTheorem, PTL
=============================================================================
