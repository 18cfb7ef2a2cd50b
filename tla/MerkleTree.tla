------------------------------ MODULE MerkleTree ------------------------------
(***************************************************************************)
(* merkle-engine's tree and inclusion proofs                               *)
(* (services/merkle-engine/src/tree.rs, proof.rs), with the inclusion path *)
(* of the repository's reference implementation                            *)
(* (tests/property/merkle_property_test.go).                               *)
(*                                                                         *)
(* A byte string is a sequence of blocks, and SHA-256 is the identity on   *)
(* such sequences: two digests are equal exactly when the hashed strings   *)
(* are.  A payload may itself consist of digests.                          *)
(*                                                                         *)
(* The code's recursion is written as recursive functions: of the number   *)
(* of leaves n in a range, giving for each lo the value for [lo, lo + n).  *)
(***************************************************************************)
EXTENDS Integers, Sequences, SequencesExt

CONSTANTS Data,       \* payloads: sequences of blocks
          MaxLeaves   \* bound on the size of the tree

ASSUME MerkleAssumption ==
  /\ MaxLeaves \in Nat
  /\ Data # {} /\ \A data \in Data : data \in Seq(Range(data))

VARIABLE leaves   \* the leaf hashes

vars == <<leaves>>

leaf_hash(data) == <<0>> \o data

\* Mutant: no domain separation, nodes are hashed with the leaf prefix.
node_hash_LeafPrefix(left, right) == <<0, left, right>>

node_hash(left, right) == <<1, left, right>>

\* k after i rounds of the doubling loop.
pow2[i \in 0..MaxLeaves] == IF i = 0 THEN 1 ELSE 2 * pow2[i - 1]

\* Mutant: the range is split in the middle.
largest_pow2_less_than_Half(n) == n \div 2

\* The loop doubles k until k >= n; the result is half of that.
largest_pow2_less_than(n) ==
  LET rounds == CHOOSE i \in 0..MaxLeaves : pow2[i] >= n /\ \A j \in 0..(i - 1) : pow2[j] < n
  IN  pow2[rounds] \div 2

\* The hash of leaves[lo..hi), lo and hi zero-based as in the code.
subtree_hash(s, lo, hi) ==
  LET hash[n \in 1..Len(s)] ==
        [l \in 0..(Len(s) - n) |->
           IF n = 1 THEN s[l + 1]
           ELSE LET k == largest_pow2_less_than(n)
                IN  node_hash(hash[k][l], hash[n - k][l + k])]
  IN  hash[hi - lo][lo]

\* The empty tree's root is the empty string.
root(s) == IF s = <<>> THEN <<>> ELSE subtree_hash(s, 0, Len(s))

\* Siblings from the leaf up, for the zero-based index idx.
inclusionPath(s, idx, lo, hi) ==
  LET path[n \in 1..Len(s)] ==
        [l \in 0..(Len(s) - n) |->
           IF n = 1 THEN <<>>
           ELSE LET k == largest_pow2_less_than(n)
                IN  IF idx - l < k
                      THEN Append(path[k][l], subtree_hash(s, l + k, l + n))
                      ELSE Append(path[n - k][l + k], subtree_hash(s, l, l + k))]
  IN  path[hi - lo][lo]

\* Mutant: the sides are swapped.
climb_Swapped(at, sibling) ==
  [cur   |-> IF at.index % 2 = 0 THEN node_hash(sibling, at.cur) ELSE node_hash(at.cur, sibling),
   index |-> at.index \div 2]

\* One round of the loop in InclusionProof::verify.
climb(at, sibling) ==
  [cur   |-> IF at.index % 2 = 0 THEN node_hash(at.cur, sibling) ELSE node_hash(sibling, at.cur),
   index |-> at.index \div 2]

\* The loop's variables before it and after each round.
Climbed(data, index, path) ==
  LET at[i \in 0..Len(path)] ==
        IF i = 0 THEN [cur |-> leaf_hash(data), index |-> index] ELSE climb(at[i - 1], path[i])
  IN  at

\* Mutant: a proof without siblings needs no comparison.
verify_EmptyPath(data, index, path, rt) ==
  path = <<>> \/ rt = Climbed(data, index, path)[Len(path)].cur

\* InclusionProof::verify.  The proof's tree_size takes no part in it.
verify(data, index, path, rt) == rt = Climbed(data, index, path)[Len(path)].cur

Init == leaves = <<>>

\* MerkleTree::append.
append(data) ==
  /\ Len(leaves) < MaxLeaves
  /\ leaves' = Append(leaves, leaf_hash(data))

Next == \E data \in Data : append(data)

Spec == Init /\ [][Next]_vars
-----------------------------------------------------------------------------
(* Properties *)

Size == Len(leaves)

\* A path and the leaf it starts from, for the zero-based index i.
PathOf(i) == inclusionPath(leaves, i, 0, Size)

\* Reference: Perfect(s)[e][lo] is the root of the perfect tree of 2^e leaves from lo.
Perfect(s) ==
  LET tree[e \in 0..MaxLeaves] ==
        [lo \in 0..(Len(s) - pow2[e]) |->
           IF e = 0 THEN s[lo + 1]
           ELSE node_hash(tree[e - 1][lo], tree[e - 1][lo + pow2[e - 1]])]
  IN  tree

\* Reference: the perfect trees of the binary expansion of the size, largest
\* first, are hashed together from the right.  Peaks(s)[e][lo] is the root of
\* all leaves from lo on, 2^e at most.
Peaks(s) ==
  LET peaks[e \in 0..MaxLeaves] ==
        [lo \in {l \in 0..(Len(s) - 1) : Len(s) - l <= pow2[e]} |->
           IF Len(s) - lo = pow2[e] THEN Perfect(s)[e][lo]
           ELSE IF Len(s) - lo <= pow2[e - 1] THEN peaks[e - 1][lo]
           ELSE node_hash(Perfect(s)[e - 1][lo], peaks[e - 1][lo + pow2[e - 1]])]
  IN  peaks

\* The recursion by "largest power of two below" builds the RFC 6962 tree.
RootIsRFC6962 ==
  leaves # <<>> => root(leaves) = Peaks(leaves)[MaxLeaves][0]

\* A root commits to the payloads and their order: no other list of payloads,
\* of any length up to the bound, has the same root.
RootBindsLeaves ==
  \A other \in SeqOf(Data, MaxLeaves) :
    LET hashed == [i \in DOMAIN other |-> leaf_hash(other[i])]
    IN  root(hashed) = root(leaves) => hashed = leaves

\* Whatever index a proof claims, its path proves only the payload of the leaf
\* the path was made for.
ProofSound ==
  \A i, j \in 0..(Size - 1), data \in Data :
    verify(data, j, PathOf(i), root(leaves)) => leaf_hash(data) = leaves[i + 1]

\* In a perfect tree every leaf's own proof verifies, and only for an index
\* that holds that payload.
PerfectProofs ==
  (\E e \in 0..MaxLeaves : Size = pow2[e]) =>
    /\ \A i \in 0..(Size - 1), data \in Data :
         leaf_hash(data) = leaves[i + 1] => verify(data, i, PathOf(i), root(leaves))
    /\ \A i, j \in 0..(Size - 1), data \in Data :
         verify(data, j, PathOf(i), root(leaves)) => leaf_hash(data) = leaves[j + 1]

\* CHANGELOG.md:28 with evidence/ADR-001: the inclusion proof of any leaf of an
\* RFC 6962 tree verifies.
ProofComplete ==
  \A i \in 0..(Size - 1), data \in Data :
    leaf_hash(data) = leaves[i + 1] => verify(data, i, PathOf(i), root(leaves))
=============================================================================
