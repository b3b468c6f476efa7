----------------------------- MODULE MerkleTree -----------------------------
(***************************************************************************)
(* The Merkle tree of anchor.rs over the leaf hashes of a log: its root,   *)
(* the proofs it generates and the functions that verify them.             *)
(*                                                                         *)
(* A hash is the term that was hashed: two hashes are equal when the same  *)
(* thing was hashed, which is what SHA-256 is relied on for.  The slices   *)
(* of the code are intervals, given by the leaf before them and a size.    *)
(***************************************************************************)
EXTENDS Integers, Sequences

CONSTANT None

\* Mutant: leaves are not told from inner nodes.
BareLeaf(entry) == entry

LeafHash(entry) == <<"leaf", entry>>

NodeHash(left, right) == <<"node", left, right>>

\* The largest power of two strictly smaller than n.
Split(n) == CHOOSE k \in 1..(n - 1) : 2 * k >= n /\ \E e \in 0..n : k = 2^e

\* mth: the root over a sequence of leaf hashes; None when there is none.
Mth(leaves) ==
  LET n == Len(leaves)
      tree[size \in 1..n] ==
        [skip \in 0..(n - size) |->
           IF size = 1 THEN leaves[skip + 1]
           ELSE LET k == Split(size) IN NodeHash(tree[k][skip], tree[size - k][skip + k])]
  IN IF n = 0 THEN None ELSE tree[n][0]

\* The root of the slice of size leaves after the first skip ones.
Slice(leaves, skip, size) == Mth(SubSeq(leaves, skip + 1, skip + size))

Sibling(hash, side) == [sibling |-> hash, side |-> side]

\* path_recursive: the siblings of the leaf of index m, from the leaf level up.
InclusionPath(m, leaves) ==
  LET n == Len(leaves)
      path[size \in 1..n] ==
        [skip \in 0..(n - size) |-> [i \in 0..(size - 1) |->
           LET k == Split(size) IN
           IF size = 1 THEN <<>>
           ELSE IF i < k
           THEN Append(path[k][skip][i], Sibling(Slice(leaves, skip + k, size - k), "right"))
           ELSE Append(path[size - k][skip + k][i - k], Sibling(Slice(leaves, skip, k), "left"))]]
  IN path[n][0][m]

InclusionProof(leaves, seq) ==
  [leaf_index |-> seq, tree_size |-> Len(leaves), path |-> InclusionPath(seq, leaves)]

\* Mutant: every sibling is taken for a right one.
VerifiesUnsided(entry, proof, root) ==
  LET climb[i \in 0..Len(proof.path)] ==
        IF i = 0 THEN LeafHash(entry)
        ELSE NodeHash(climb[i - 1], proof.path[i].sibling)
  IN proof.leaf_index < proof.tree_size /\ climb[Len(proof.path)] = root

\* verify_inclusion: climbing from the entry along the path gives the root.  The
\* position the proof claims only has to lie inside the tree it claims.
VerifyInclusion(entry, proof, root) ==
  LET climb[i \in 0..Len(proof.path)] ==
        IF i = 0 THEN LeafHash(entry)
        ELSE IF proof.path[i].side = "left"
        THEN NodeHash(proof.path[i].sibling, climb[i - 1])
        ELSE NodeHash(climb[i - 1], proof.path[i].sibling)
  IN proof.leaf_index < proof.tree_size /\ climb[Len(proof.path)] = root

\* sub_proof: the nodes that show that the first m leaves are a prefix, deepest
\* first.  The prefix itself is a node unless the verifier has it (anchored), and
\* that it has where nothing was skipped.
SubProof(m, leaves) ==
  LET n == Len(leaves)
      nodes[size \in 1..n] ==
        [skip \in 0..(n - size) |-> [i \in 1..size |->
           LET k == Split(size) IN
           IF i = size
           THEN IF skip = 0 THEN <<>> ELSE <<Slice(leaves, skip, size)>>
           ELSE IF i <= k
           THEN Append(nodes[k][skip][i], Slice(leaves, skip + k, size - k))
           ELSE Append(nodes[size - k][skip + k][i - k], Slice(leaves, skip, k))]]
  IN nodes[n][0][m]

ConsistencyProof(leaves, old_size) ==
  IF old_size = 0 THEN <<>> ELSE SubProof(old_size, leaves)

\* sub_verify: the roots of the prefix and of the whole tree that a proof gives,
\* with the number of nodes it takes (next_node fails past the end).  known_old
\* is an option: <<>> or <<old_root>>.
SubVerify(m, n, proof, old_root) ==
  LET node(i) == IF i \in DOMAIN proof THEN proof[i] ELSE None
      walk[size \in 1..n] ==
        [i \in 1..size |-> [known_old \in {<<>>, <<old_root>>} |->
           LET k == Split(size)
               left == walk[k][i][known_old]
               right == walk[size - k][i - k][<<>>]
           IN IF i = size
              THEN IF known_old = <<>>
                   THEN [old |-> node(1), new |-> node(1), used |-> 1]
                   ELSE [old |-> old_root, new |-> old_root, used |-> 0]
              ELSE IF i <= k
              THEN [old  |-> left.old,
                    new  |-> NodeHash(left.new, node(left.used + 1)),
                    used |-> left.used + 1]
              ELSE [old  |-> NodeHash(node(right.used + 1), right.old),
                    new  |-> NodeHash(node(right.used + 1), right.new),
                    used |-> right.used + 1]]]
  IN walk[n][m][<<old_root>>]

\* Mutant: the prefix root that the proof gives is not compared.
VerifiesNewRootOnly(old_size, old_root, new_size, new_root, proof) ==
  /\ old_size <= new_size
  /\ IF old_size = new_size \/ old_size = 0
     THEN proof = <<>> /\ (old_size # 0 => old_root = new_root)
     ELSE LET got == SubVerify(old_size, new_size, proof, old_root)
          IN got.used = Len(proof) /\ got.new = new_root

\* verify_consistency: the proof, used up exactly, gives both roots.
VerifyConsistency(old_size, old_root, new_size, new_root, proof) ==
  /\ old_size <= new_size
  /\ IF old_size = new_size \/ old_size = 0
     THEN proof = <<>> /\ (old_size = new_size => old_root = new_root)
     ELSE LET got == SubVerify(old_size, new_size, proof, old_root) IN
          /\ got.used = Len(proof)
          /\ got.old = old_root
          /\ got.new = new_root

=============================================================================
