------------------------- MODULE TransparencyProofs -------------------------
(***************************************************************************)
(* Proofs about Transparency, for every set of logs, histories and entries *)
(* and trees of any size.                                                  *)
(*                                                                         *)
(* The first half is about the tree: the proofs that a log generates       *)
(* verify, and what verifies under a root, whatever proof is shown, is in  *)
(* the tree or a prefix of it.  Each is an induction over the size of a    *)
(* slice.  The second half shows which tree each head, pin and receipt is  *)
(* of, and draws from both what verifiers may rely on.                     *)
(***************************************************************************)
EXTENDS Transparency, SequenceTheorems, FiniteSetTheorems, WellFoundedInduction, TLAPS

\* Complete induction, of a set: no step of it takes an operator.
LEMMA CompleteInduction ==
  ASSUME NEW S, \A n \in Nat : (\A m \in 0..(n - 1) : m \in S) => n \in S
  PROVE  Nat \subseteq S
<1> DEFINE R == OpToRel(<, Nat)
           T == Nat \ S
<1>1. IsWellFoundedOn(R, Nat)
  BY NatLessThanWellFounded
<1>2. SUFFICES ASSUME T # {} PROVE FALSE
  OBVIOUS
<1>3. \E x \in T : \A y \in T : ~ (<<y, x>> \in R)
  <2> HIDE DEF R
  <2>1. T \subseteq Nat
    OBVIOUS
  <2> HIDE DEF T
  <2> QED
    BY <1>1, <1>2, <2>1, WFMin
<1>4. PICK x \in T : \A y \in T : ~ (<<y, x>> \in R)
  BY <1>3
<1>5. \A y \in Nat : y < x => <<y, x>> \in R
  BY DEF OpToRel
<1> HIDE DEF R
<1>6. ASSUME NEW y \in 0..(x - 1) PROVE y \in S
  <2>1. x \in Nat /\ y \in Nat /\ y < x
    OBVIOUS
  <2>2. <<y, x>> \in R
    BY <1>5, <2>1
  <2> QED
    BY <1>4, <2>1, <2>2
<1> QED
  BY <1>4, <1>6

\* Powers of two, as the numbers of subsets: the provers know of no other way to
\* double one.
LEMMA PowerDoubles ==
  ASSUME NEW n \in Nat
  PROVE  2^n \in Nat /\ 2^(n + 1) = 2 * 2^n
<1> DEFINE A == SUBSET (1..n)
           B == {X \cup {n + 1} : X \in A}
           f == [X \in A |-> X \cup {n + 1}]
<1>1. /\ IsFiniteSet(1..n) /\ Cardinality(1..n) = n
      /\ IsFiniteSet(1..(n + 1)) /\ Cardinality(1..(n + 1)) = n + 1
  BY FS_Interval
<1>2. /\ IsFiniteSet(A) /\ Cardinality(A) = 2^n
      /\ IsFiniteSet(SUBSET (1..(n + 1))) /\ Cardinality(SUBSET (1..(n + 1))) = 2^(n + 1)
  BY <1>1, FS_SUBSET
<1>3. f \in Bijection(A, B)
  <2>1. \A X, Y \in A : f[X] = f[Y] => X = Y
    <3> SUFFICES ASSUME NEW X \in A, NEW Y \in A, X \cup {n + 1} = Y \cup {n + 1}
                 PROVE  X = Y
      OBVIOUS
    <3>1. n + 1 \notin X /\ n + 1 \notin Y
      OBVIOUS
    <3> QED
      BY <3>1
  <2>2. f \in [A -> B] /\ \A Y \in B : \E X \in A : f[X] = Y
    OBVIOUS
  <2> HIDE DEF A, B, f
  <2> QED
    BY <2>1, <2>2 DEF Bijection, Injection, Surjection, IsInjective
<1>4. IsFiniteSet(B) /\ Cardinality(B) = Cardinality(A)
  <2> HIDE DEF A, B, f
  <2>1. ExistsBijection(A, B)
    BY <1>3 DEF ExistsBijection
  <2> QED
    BY <1>2, <2>1, FS_Bijection, FS_SameCardinalityBij
<1>5. SUBSET (1..(n + 1)) = A \cup B
  <2>1. ASSUME NEW X \in SUBSET (1..(n + 1)) PROVE X \in A \cup B
    <3>1. CASE n + 1 \in X
      <4>1. X \ {n + 1} \in A /\ X = (X \ {n + 1}) \cup {n + 1}
        BY <3>1
      <4> QED
        BY <4>1
    <3>2. CASE n + 1 \notin X
      BY <3>2
    <3> QED
      BY <3>1, <3>2
  <2>2. ASSUME NEW X \in A \cup B PROVE X \in SUBSET (1..(n + 1))
    <3>1. 1..n \subseteq 1..(n + 1) /\ n + 1 \in 1..(n + 1)
      OBVIOUS
    <3> QED
      BY <3>1
  <2> QED
    BY <2>1, <2>2
<1>6. A \cap B = {}
  <2>1. \A X \in A : n + 1 \notin X
    OBVIOUS
  <2>2. \A Y \in B : n + 1 \in Y
    OBVIOUS
  <2> QED
    BY <2>1, <2>2
<1> HIDE DEF A, B, f
<1>7. Cardinality(A \cup B) = Cardinality(A) + Cardinality(B)
  <2>1. Cardinality(A \cap B) = 0
    BY <1>6, FS_EmptySet
  <2>2. Cardinality(A) \in Nat /\ Cardinality(B) \in Nat
    BY <1>2, <1>4, FS_CardinalityType
  <2>3. Cardinality(A \cup B) = Cardinality(A) + Cardinality(B) - Cardinality(A \cap B)
    BY <1>2, <1>4, FS_Union
  <2> QED
    BY <2>1, <2>2, <2>3
<1>8. Cardinality(A) \in Nat
  BY <1>2, FS_CardinalityType
<1>9. 2^n \in Nat
  BY <1>2, <1>8
<1>10. 2^(n + 1) = 2^n + 2^n
  BY <1>2, <1>4, <1>5, <1>7
<1> QED
  BY <1>9, <1>10

\* Two powers of two are a factor of two apart.
LEMMA PowersApart ==
  ASSUME NEW a \in Nat, NEW b \in Nat, a < b
  PROVE  2 * 2^a <= 2^b
<1> DEFINE S == {m \in Nat : a < m => 2 * 2^a <= 2^m}
<1>1. ASSUME NEW m \in Nat, \A j \in 0..(m - 1) : j \in S PROVE m \in S
  <2> SUFFICES ASSUME a < m PROVE 2 * 2^a <= 2^m
    OBVIOUS
  <2>1. m - 1 \in Nat /\ (m - 1) + 1 = m /\ m - 1 \in S
    BY <1>1
  <2>2. 2^(m - 1) \in Nat /\ 2^((m - 1) + 1) = 2 * 2^(m - 1)
    BY <2>1, PowerDoubles
  <2>3. 2^a \in Nat
    BY PowerDoubles
  <2>4. CASE a = m - 1
    BY <2>1, <2>2, <2>4
  <2>5. CASE a < m - 1
    <3>1. 2 * 2^a <= 2^(m - 1)
      BY <2>1, <2>5
    <3>2. 2^m = 2 * 2^(m - 1)
      BY <2>1, <2>2
    <3> QED
      BY <2>2, <2>3, <3>1, <3>2
  <2> QED
    BY <2>1, <2>4, <2>5
<1> HIDE DEF S
<1>2. Nat \subseteq S
  BY <1>1, CompleteInduction
<1> QED
  BY <1>2 DEF S

\* A size is split where the code says: at a power of two, with no more after it
\* than before it.
LEMMA SplitExists ==
  ASSUME NEW n \in Nat, n >= 2
  PROVE  \E k \in 1..(n - 1) : 2 * k >= n /\ \E e \in 0..n : k = 2^e
<1> DEFINE S == {m \in Nat : m >= 2 =>
                   \E k \in 1..(m - 1) : 2 * k >= m /\ \E e \in 0..m : k = 2^e}
<1>1. ASSUME NEW m \in Nat, \A j \in 0..(m - 1) : j \in S PROVE m \in S
  <2> SUFFICES ASSUME m >= 2
               PROVE  \E k \in 1..(m - 1) : 2 * k >= m /\ \E e \in 0..m : k = 2^e
    OBVIOUS
  <2>1. 2^0 = 1
    OBVIOUS
  <2>2. CASE m = 2
    BY <2>1, <2>2
  <2>3. CASE m # 2
    <3>1. m - 1 \in 0..(m - 1) /\ m - 1 \in Nat /\ m - 1 >= 2
      BY <2>3
    <3>2. PICK k \in 1..(m - 2) : 2 * k >= m - 1 /\ \E e \in 0..(m - 1) : k = 2^e
      BY <1>1, <3>1
    <3>3. PICK e \in 0..(m - 1) : k = 2^e
      BY <3>2
    <3>4. CASE 2 * k >= m
      <4>1. k \in 1..(m - 1) /\ e \in 0..m
        OBVIOUS
      <4> QED
        BY <3>3, <3>4, <4>1
    <3>5. CASE 2 * k = m - 1
      <4>1. 2 * k \in 1..(m - 1) /\ e + 1 \in 0..m /\ 2 * (2 * k) >= m
        BY <3>5
      <4>2. 2 * k = 2^(e + 1)
        BY <3>3, PowerDoubles
      <4> QED
        BY <4>1, <4>2
    <3> QED
      BY <3>2, <3>4, <3>5
  <2> QED
    BY <2>2, <2>3
<1> HIDE DEF S
<1>2. Nat \subseteq S
  BY <1>1, CompleteInduction
<1> QED
  BY <1>2 DEF S

\* Both halves have leaves.
LEMMA SplitInside ==
  ASSUME NEW n \in Nat, n >= 2
  PROVE  Split(n) \in 1..(n - 1)
BY SplitExists DEF Split

\* A prefix that ends after the split of the whole is split there too.
LEMMA SplitOfPrefix ==
  ASSUME NEW n \in Nat, n >= 2, NEW i \in 1..n, i > Split(n)
  PROVE  Split(i) = Split(n)
<1> DEFINE k == Split(n)
           j == Split(i)
<1>1. /\ k \in 1..(n - 1) /\ 2 * k >= n
      /\ \E e \in 0..n : k = 2^e
  BY SplitExists DEF Split
<1>2. i >= 2 /\ i \in Nat
  BY <1>1
<1>3. /\ j \in 1..(i - 1) /\ 2 * j >= i
      /\ \E e \in 0..i : j = 2^e
  BY <1>2, SplitExists DEF Split
<1> HIDE DEF k, j
<1>4. PICK a \in 0..n : k = 2^a
  BY <1>1
<1>5. PICK b \in 0..i : j = 2^b
  BY <1>3
<1>6. k < i /\ i <= 2 * k
  BY <1>1 DEF k
<1>7. CASE a < b
  <2>1. 2 * k <= j
    BY <1>4, <1>5, <1>7, PowersApart
  <2> QED
    BY <1>1, <1>3, <1>6, <2>1
<1>8. CASE b < a
  <2>1. 2 * j <= k
    BY <1>4, <1>5, <1>8, PowersApart
  <2> QED
    BY <1>1, <1>3, <1>6, <2>1
<1>9. CASE a = b
  BY <1>4, <1>5, <1>9 DEF k, j
<1> QED
  BY <1>7, <1>8, <1>9

-----------------------------------------------------------------------------
(* The tree *)

\* The tree that mth walks: the root over each slice, by its size and what is
\* skipped before it.
Roots(tree, leaves, size) ==
  [skip \in 0..(Len(leaves) - size) |->
     IF size = 1 THEN leaves[skip + 1]
     ELSE NodeHash(tree[Split(size)][skip], tree[size - Split(size)][skip + Split(size)])]

IsTree(tree, leaves, d) == tree = [size \in 1..d |-> Roots(tree, leaves, size)]

\* There is such a tree, built from the small slices up.
LEMMA TreeExists ==
  ASSUME NEW H, NEW leaves \in Seq(H)
  PROVE  \E tree : IsTree(tree, leaves, Len(leaves))
<1> DEFINE S == {d \in Nat : \E tree : IsTree(tree, leaves, d)}
<1>1. ASSUME NEW d \in Nat, \A e \in 0..(d - 1) : e \in S PROVE d \in S
  <2>1. CASE d = 0
    <3>1. IsTree([size \in 1..0 |-> 0], leaves, 0)
      BY DEF IsTree
    <3> QED
      BY <2>1, <3>1
  <2>2. CASE d # 0
    <3>1. PICK f : IsTree(f, leaves, d - 1)
      BY <1>1, <2>2
    <3> DEFINE g == [size \in 1..d |-> Roots(f, leaves, size)]
    <3>2. \A size \in 1..(d - 1) : f[size] = Roots(f, leaves, size)
      BY <3>1 DEF IsTree
    <3>3. ASSUME NEW size \in 1..d PROVE Roots(f, leaves, size) = Roots(g, leaves, size)
      <4>1. CASE size = 1
        BY <4>1 DEF Roots
      <4>2. CASE size # 1
        <5>1. Split(size) \in 1..(size - 1)
          BY <4>2, SplitInside
        <5>2. Split(size) \in 1..(d - 1) /\ size - Split(size) \in 1..(d - 1)
          BY <5>1
        <5>3. f[Split(size)] = g[Split(size)] /\ f[size - Split(size)] = g[size - Split(size)]
          BY <3>2, <5>2
        <5> HIDE DEF g
        <5> QED
          BY <5>3 DEF Roots
      <4> QED
        BY <4>1, <4>2
    <3>4. IsTree(g, leaves, d)
      BY <3>3 DEF IsTree
    <3> QED
      BY <3>4
  <2> QED
    BY <2>1, <2>2
<1> HIDE DEF S
<1>2. Nat \subseteq S
  BY <1>1, CompleteInduction
<1>3. Len(leaves) \in S
  BY <1>2, LenProperties
<1> QED
  BY <1>3 DEF S

\* It is the one that mth takes its root from.
LEMMA MthIsTree ==
  ASSUME NEW H, NEW leaves \in Seq(H), Len(leaves) # 0
  PROVE  \E tree : IsTree(tree, leaves, Len(leaves)) /\ Mth(leaves) = tree[Len(leaves)][0]
<1> DEFINE n == Len(leaves)
           tree[size \in 1..n] ==
             [skip \in 0..(n - size) |->
                IF size = 1 THEN leaves[skip + 1]
                ELSE NodeHash(tree[Split(size)][skip],
                              tree[size - Split(size)][skip + Split(size)])]
<1>1. \E f : IsTree(f, leaves, n)
  BY TreeExists
<1>2. IsTree(tree, leaves, n)
  BY <1>1 DEF IsTree, Roots
<1>3. Mth(leaves) = tree[n][0]
  BY DEF Mth
<1> QED
  BY <1>2, <1>3

\* What a tree says of a slice depends on the leaves of the slice only.
Agree(f, s, g, t, size) ==
  \A x \in 0..(Len(s) - size), y \in 0..(Len(t) - size) :
    (\A i \in 1..size : s[x + i] = t[y + i]) => f[size][x] = g[size][y]

\* By induction over the tree.
LEMMA TreesAgree ==
  ASSUME NEW H, NEW s \in Seq(H), NEW t \in Seq(H),
         NEW f, IsTree(f, s, Len(s)), NEW g, IsTree(g, t, Len(t))
  PROVE  \A size \in Nat \ {0} : Agree(f, s, g, t, size)
<1> DEFINE S == {d \in Nat : d # 0 => Agree(f, s, g, t, d)}
<1>1. Len(s) \in Nat /\ Len(t) \in Nat
  BY LenProperties
<1>2. ASSUME NEW d \in Nat, \A e \in 0..(d - 1) : e \in S PROVE d \in S
  <2> SUFFICES ASSUME d # 0, NEW x \in 0..(Len(s) - d), NEW y \in 0..(Len(t) - d),
                      \A i \in 1..d : s[x + i] = t[y + i]
               PROVE  f[d][x] = g[d][y]
    BY DEF Agree
  <2>0. \A e \in 1..(d - 1) : Agree(f, s, g, t, e)
    BY <1>2
  <2>1. d \in 1..Len(s) /\ d \in 1..Len(t)
    BY <1>1
  <2>2. f[d] = Roots(f, s, d) /\ g[d] = Roots(g, t, d)
    BY <2>1 DEF IsTree
  <2>3. CASE d = 1
    BY <2>2, <2>3 DEF Roots
  <2>4. CASE d # 1
    <3> DEFINE k == Split(d)
    <3>1. k \in 1..(d - 1)
      BY <2>4, SplitInside
    <3> HIDE DEF k
    <3>2. f[d][x] = NodeHash(f[k][x], f[d - k][x + k])
      BY <2>2, <2>4 DEF Roots, k
    <3>3. g[d][y] = NodeHash(g[k][y], g[d - k][y + k])
      BY <2>2, <2>4 DEF Roots, k
    <3>4. f[k][x] = g[k][y]
      <4>1. Agree(f, s, g, t, k)
        BY <2>0, <3>1
      <4>2. x \in 0..(Len(s) - k) /\ y \in 0..(Len(t) - k)
        BY <1>1, <3>1
      <4>3. \A i \in 1..k : s[x + i] = t[y + i]
        BY <3>1
      <4> QED
        BY <4>1, <4>2, <4>3 DEF Agree
    <3>5. f[d - k][x + k] = g[d - k][y + k]
      <4>1. Agree(f, s, g, t, d - k)
        BY <2>0, <3>1
      <4>2. x + k \in 0..(Len(s) - (d - k)) /\ y + k \in 0..(Len(t) - (d - k))
        BY <1>1, <3>1
      <4>3. \A i \in 1..(d - k) : s[x + k + i] = t[y + k + i]
        <5>1. \A i \in 1..(d - k) : k + i \in 1..d
          BY <3>1
        <5>2. \A i \in 1..(d - k) : s[x + (k + i)] = t[y + (k + i)]
          BY <5>1
        <5>3. \A i \in 1..(d - k) : x + (k + i) = x + k + i /\ y + (k + i) = y + k + i
          BY <1>1, <3>1
        <5> QED
          BY <5>2, <5>3
      <4> QED
        BY <4>1, <4>2, <4>3 DEF Agree
    <3> QED
      BY <3>2, <3>3, <3>4, <3>5
  <2> QED
    BY <2>3, <2>4
<1> HIDE DEF S
<1>3. Nat \subseteq S
  BY <1>2, CompleteInduction
<1> QED
  BY <1>3 DEF S

\* A slice of leaves.
IsSlice(leaves, skip, size) == size \in Nat \ {0} /\ skip \in 0..(Len(leaves) - size)

\* The root of a slice is in the tree of the whole.
LEMMA SliceIsSubtree ==
  ASSUME NEW H, NEW leaves \in Seq(H), NEW f, IsTree(f, leaves, Len(leaves)),
         NEW skip, NEW size, IsSlice(leaves, skip, size)
  PROVE  Slice(leaves, skip, size) = f[size][skip]
<1> DEFINE part == SubSeq(leaves, skip + 1, skip + size)
<1>1. Len(leaves) \in Nat /\ size \in Nat /\ skip \in Nat
  BY LenProperties DEF IsSlice
<1>2. \A i \in (skip + 1)..(skip + size) : i \in 1..Len(leaves)
  BY <1>1 DEF IsSlice
<1>3. \A i \in (skip + 1)..(skip + size) : leaves[i] \in H
  BY <1>2, ElementOfSeq
<1>4. /\ part \in Seq(H)
      /\ Len(part) = size
      /\ \A i \in 1..size : part[i] = leaves[skip + i]
  <2>1. /\ part \in Seq(H)
        /\ Len(part) = IF skip + 1 <= skip + size THEN (skip + size) - (skip + 1) + 1 ELSE 0
        /\ \A i \in 1..((skip + size) - (skip + 1) + 1) : part[i] = leaves[(skip + 1) + i - 1]
    BY <1>1, <1>3, SubSeqProperties
  <2>2. (skip + size) - (skip + 1) + 1 = size /\ skip + 1 <= skip + size
    BY <1>1 DEF IsSlice
  <2>3. \A i \in 1..size : (skip + 1) + i - 1 = skip + i
    BY <1>1
  <2> QED
    BY <2>1, <2>2, <2>3
<1> HIDE DEF part
<1>5. PICK g : IsTree(g, part, Len(part)) /\ Mth(part) = g[Len(part)][0]
  BY <1>4, MthIsTree DEF IsSlice
<1>6. g[size][0] = f[size][skip]
  <2> DEFINE z == 0
  <2>1. \A i \in 1..size : part[z + i] = leaves[skip + i]
    BY <1>4
  <2>2. z \in 0..(Len(part) - size)
    BY <1>1, <1>4
  <2>3. size \in Nat \ {0} /\ skip \in 0..(Len(leaves) - size)
    BY DEF IsSlice
  <2>4. part \in Seq(H) /\ IsTree(g, part, Len(part))
    BY <1>4, <1>5
  <2> HIDE DEF z
  <2>5. Agree(g, part, f, leaves, size)
    BY <2>3, <2>4, TreesAgree
  <2>6. g[size][z] = f[size][skip]
    BY <2>1, <2>2, <2>3, <2>5 DEF Agree
  <2> QED
    BY <2>6 DEF z
<1> QED
  BY <1>4, <1>5, <1>6 DEF Slice, part

\* mth, unfolded: the root of a slice of one leaf, and of more.
LEMMA SliceOfOne ==
  ASSUME NEW H, NEW leaves \in Seq(H), NEW skip \in 0..(Len(leaves) - 1)
  PROVE  Slice(leaves, skip, 1) = leaves[skip + 1]
<1>1. PICK f : IsTree(f, leaves, Len(leaves))
  BY TreeExists
<1>2. Len(leaves) \in Nat /\ 1 \in 1..Len(leaves) /\ IsSlice(leaves, skip, 1)
  BY LenProperties DEF IsSlice
<1>3. f[1] = Roots(f, leaves, 1)
  BY <1>1, <1>2 DEF IsTree
<1>4. f[1][skip] = leaves[skip + 1]
  BY <1>3 DEF Roots
<1> QED
  BY <1>1, <1>2, <1>4, SliceIsSubtree

LEMMA SliceOfMore ==
  ASSUME NEW H, NEW leaves \in Seq(H), NEW skip, NEW size, IsSlice(leaves, skip, size),
         size >= 2
  PROVE  /\ Split(size) \in 1..(size - 1)
         /\ IsSlice(leaves, skip, Split(size))
         /\ IsSlice(leaves, skip + Split(size), size - Split(size))
         /\ Slice(leaves, skip, size)
              = NodeHash(Slice(leaves, skip, Split(size)),
                         Slice(leaves, skip + Split(size), size - Split(size)))
<1> DEFINE k == Split(size)
<1>1. PICK f : IsTree(f, leaves, Len(leaves))
  BY TreeExists
<1>2. Len(leaves) \in Nat /\ size \in 1..Len(leaves) /\ skip \in 0..(Len(leaves) - size)
  BY LenProperties DEF IsSlice
<1>3. k \in 1..(size - 1)
  BY <1>2, SplitInside
<1> HIDE DEF k
<1>4. IsSlice(leaves, skip, k) /\ IsSlice(leaves, skip + k, size - k)
  BY <1>2, <1>3 DEF IsSlice
<1>5. f[size] = Roots(f, leaves, size)
  BY <1>1, <1>2 DEF IsTree
<1>6. f[size][skip] = NodeHash(f[k][skip], f[size - k][skip + k])
  BY <1>2, <1>5 DEF Roots, k
<1>7. /\ f[k][skip] = Slice(leaves, skip, k)
      /\ f[size - k][skip + k] = Slice(leaves, skip + k, size - k)
      /\ f[size][skip] = Slice(leaves, skip, size)
  BY <1>1, <1>4, SliceIsSubtree
<1> QED
  BY <1>3, <1>4, <1>6, <1>7 DEF k

\* The slice of everything.
LEMMA SliceOfAll ==
  ASSUME NEW H, NEW leaves \in Seq(H)
  PROVE  Slice(leaves, 0, Len(leaves)) = Mth(leaves)
<1>1. SubSeq(leaves, 1, Len(leaves)) = leaves
  BY SubSeqFull
<1> QED
  <2>1. 0 + 1 = 1 /\ 0 + Len(leaves) = Len(leaves)
    BY LenProperties
  <2> QED
    BY <1>1, <2>1 DEF Slice

-----------------------------------------------------------------------------
(* Inclusion in a tree *)

\* The paths that path_recursive finds.
PathOf(path, leaves, size, skip, i) ==
  LET k == Split(size) IN
  IF size = 1 THEN <<>>
  ELSE IF i < k
  THEN Append(path[k][skip][i], Sibling(Slice(leaves, skip + k, size - k), "right"))
  ELSE Append(path[size - k][skip + k][i - k], Sibling(Slice(leaves, skip, k), "left"))

Paths(path, leaves, size) ==
  [skip \in 0..(Len(leaves) - size) |->
     [i \in 0..(size - 1) |-> PathOf(path, leaves, size, skip, i)]]

ArePaths(path, leaves, d) == path = [size \in 1..d |-> Paths(path, leaves, size)]

\* There are such paths.
LEMMA PathsExist ==
  ASSUME NEW leaves, NEW n \in Nat
  PROVE  \E path : ArePaths(path, leaves, n)
<1> DEFINE S == {d \in Nat : \E path : ArePaths(path, leaves, d)}
<1>1. ASSUME NEW d \in Nat, \A e \in 0..(d - 1) : e \in S PROVE d \in S
  <2>1. CASE d = 0
    <3>1. ArePaths([size \in 1..0 |-> 0], leaves, 0)
      BY DEF ArePaths
    <3> QED
      BY <2>1, <3>1
  <2>2. CASE d # 0
    <3>1. PICK f : ArePaths(f, leaves, d - 1)
      BY <1>1, <2>2
    <3> DEFINE g == [size \in 1..d |-> Paths(f, leaves, size)]
    <3>2. \A size \in 1..(d - 1) : f[size] = Paths(f, leaves, size)
      BY <3>1 DEF ArePaths
    <3>3. ASSUME NEW size \in 1..d PROVE Paths(f, leaves, size) = Paths(g, leaves, size)
      <4>1. CASE size = 1
        BY <4>1 DEF Paths, PathOf
      <4>2. CASE size # 1
        <5>1. Split(size) \in 1..(size - 1)
          BY <4>2, SplitInside
        <5>2. Split(size) \in 1..(d - 1) /\ size - Split(size) \in 1..(d - 1)
          BY <5>1
        <5>3. f[Split(size)] = g[Split(size)] /\ f[size - Split(size)] = g[size - Split(size)]
          BY <3>2, <5>2
        <5> HIDE DEF g
        <5> QED
          BY <5>3 DEF Paths, PathOf
      <4> QED
        BY <4>1, <4>2
    <3>4. ArePaths(g, leaves, d)
      BY <3>3 DEF ArePaths
    <3> QED
      BY <3>4
  <2> QED
    BY <2>1, <2>2
<1> HIDE DEF S
<1>2. Nat \subseteq S
  BY <1>1, CompleteInduction
<1> QED
  BY <1>2 DEF S

\* The path that a log generates is one of them.
LEMMA InclusionPathIsOne ==
  ASSUME NEW H, NEW leaves \in Seq(H), NEW m
  PROVE  \E path : ArePaths(path, leaves, Len(leaves))
                   /\ InclusionPath(m, leaves) = path[Len(leaves)][0][m]
<1> DEFINE n == Len(leaves)
           path[size \in 1..n] ==
             [skip \in 0..(n - size) |-> [i \in 0..(size - 1) |->
                LET k == Split(size) IN
                IF size = 1 THEN <<>>
                ELSE IF i < k
                THEN Append(path[k][skip][i], Sibling(Slice(leaves, skip + k, size - k), "right"))
                ELSE Append(path[size - k][skip + k][i - k], Sibling(Slice(leaves, skip, k), "left"))]]
<1>1. \E f : ArePaths(f, leaves, n)
  BY PathsExist, LenProperties
<1>2. ArePaths(path, leaves, n)
  BY <1>1 DEF ArePaths, Paths, PathOf
<1>3. InclusionPath(m, leaves) = path[n][0][m]
  BY DEF InclusionPath
<1> QED
  BY <1>2, <1>3

\* The hashes that verify_inclusion climbs through.
Rung(climb, entry, path, i) ==
  IF i = 0 THEN LeafHash(entry)
  ELSE IF path[i].side = "left"
  THEN NodeHash(path[i].sibling, climb[i - 1])
  ELSE NodeHash(climb[i - 1], path[i].sibling)

IsClimb(climb, entry, path, d) == climb = [i \in 0..d |-> Rung(climb, entry, path, i)]

\* There is such a climb.
LEMMA ClimbExists ==
  ASSUME NEW entry, NEW path, NEW n \in Nat
  PROVE  \E climb : IsClimb(climb, entry, path, n)
<1> DEFINE S == {d \in Nat : \E climb : IsClimb(climb, entry, path, d)}
<1>1. ASSUME NEW d \in Nat, \A e \in 0..(d - 1) : e \in S PROVE d \in S
  <2>1. CASE d = 0
    <3>1. IsClimb([i \in 0..0 |-> LeafHash(entry)], entry, path, 0)
      BY DEF IsClimb, Rung
    <3> QED
      BY <2>1, <3>1
  <2>2. CASE d # 0
    <3>1. PICK f : IsClimb(f, entry, path, d - 1)
      BY <1>1, <2>2
    <3> DEFINE g == [i \in 0..d |-> Rung(f, entry, path, i)]
    <3>2. \A i \in 0..(d - 1) : f[i] = Rung(f, entry, path, i)
      BY <3>1 DEF IsClimb
    <3>3. ASSUME NEW i \in 0..d PROVE Rung(f, entry, path, i) = Rung(g, entry, path, i)
      <4>1. CASE i = 0
        BY <4>1 DEF Rung
      <4>2. CASE i # 0
        <5>1. f[i - 1] = g[i - 1]
          BY <3>2, <4>2
        <5> HIDE DEF g
        <5> QED
          BY <5>1 DEF Rung
      <4> QED
        BY <4>1, <4>2
    <3>4. IsClimb(g, entry, path, d)
      BY <3>3 DEF IsClimb
    <3> QED
      BY <3>4
  <2> QED
    BY <2>1, <2>2
<1> HIDE DEF S
<1>2. Nat \subseteq S
  BY <1>1, CompleteInduction
<1> QED
  BY <1>2 DEF S

\* verify_inclusion ends where it does.
LEMMA InclusionIsClimb ==
  ASSUME NEW entry, NEW proof, NEW root, Len(proof.path) \in Nat
  PROVE  \E climb :
           /\ IsClimb(climb, entry, proof.path, Len(proof.path))
           /\ VerifyInclusion(entry, proof, root) <=>
                proof.leaf_index < proof.tree_size /\ climb[Len(proof.path)] = root
<1> DEFINE climb[i \in 0..Len(proof.path)] ==
             IF i = 0 THEN LeafHash(entry)
             ELSE IF proof.path[i].side = "left"
             THEN NodeHash(proof.path[i].sibling, climb[i - 1])
             ELSE NodeHash(climb[i - 1], proof.path[i].sibling)
<1>1. \E f : IsClimb(f, entry, proof.path, Len(proof.path))
  BY ClimbExists
<1>2. IsClimb(climb, entry, proof.path, Len(proof.path))
  BY <1>1 DEF IsClimb, Rung
<1>3. VerifyInclusion(entry, proof, root) <=>
        proof.leaf_index < proof.tree_size /\ climb[Len(proof.path)] = root
  BY DEF VerifyInclusion
<1> QED
  BY <1>2, <1>3

\* The siblings a path may be made of.
Siblings(leaves) ==
  {Sibling(Slice(leaves, skip, size), side) : skip \in Nat, size \in Nat, side \in {"left", "right"}}

\* A path is one step longer than that in the half of its leaf.
LEMMA PathUnfolds ==
  ASSUME NEW H, NEW leaves \in Seq(H), NEW f, ArePaths(f, leaves, Len(leaves)),
         NEW skip, NEW size, IsSlice(leaves, skip, size), NEW i \in 0..(size - 1)
  PROVE  f[size][skip][i] = PathOf(f, leaves, size, skip, i)
<1>1. Len(leaves) \in Nat /\ size \in 1..Len(leaves) /\ skip \in 0..(Len(leaves) - size)
  BY LenProperties DEF IsSlice
<1>2. f[size] = Paths(f, leaves, size)
  BY <1>1 DEF ArePaths
<1> QED
  BY <1>1, <1>2 DEF Paths

\* Every path is of siblings.
LEMMA PathTyped ==
  ASSUME NEW H, NEW leaves \in Seq(H), NEW f, ArePaths(f, leaves, Len(leaves))
  PROVE  \A size \in Nat : \A skip : IsSlice(leaves, skip, size) =>
           \A i \in 0..(size - 1) : f[size][skip][i] \in Seq(Siblings(leaves))
<1> DEFINE Typed(size) == \A skip : IsSlice(leaves, skip, size) =>
             \A i \in 0..(size - 1) : f[size][skip][i] \in Seq(Siblings(leaves))
           S == {d \in Nat : Typed(d)}
<1> HIDE DEF Typed
<1>1. ASSUME NEW d \in Nat, \A e \in 0..(d - 1) : e \in S PROVE d \in S
  <2> SUFFICES ASSUME NEW skip, IsSlice(leaves, skip, d), NEW i \in 0..(d - 1)
               PROVE  f[d][skip][i] \in Seq(Siblings(leaves))
    BY DEF Typed
  <2> DEFINE k == Split(d)
  <2>0. \A e \in 0..(d - 1) : Typed(e)
    BY <1>1
  <2>a. f[d][skip][i] = PathOf(f, leaves, d, skip, i)
    BY PathUnfolds
  <2>1. CASE d = 1
    BY <2>1, <2>a, EmptySeq DEF PathOf
  <2>2. CASE d # 1
    <3>1. d >= 2
      BY <2>2 DEF IsSlice
    <3>2. k \in 1..(d - 1) /\ IsSlice(leaves, skip, k) /\ IsSlice(leaves, skip + k, d - k)
      BY <3>1, SliceOfMore
    <3>3. skip \in Nat /\ skip + k \in Nat
      BY <3>2 DEF IsSlice
    <3>4. CASE i < k
      <4>1. f[d][skip][i] = Append(f[k][skip][i], Sibling(Slice(leaves, skip + k, d - k), "right"))
        BY <2>2, <2>a, <3>4 DEF PathOf
      <4>2. f[k][skip][i] \in Seq(Siblings(leaves))
        <5>1. Typed(k) /\ i \in 0..(k - 1)
          BY <2>0, <3>2, <3>4
        <5> QED
          BY <3>2, <5>1 DEF Typed
      <4>3. Sibling(Slice(leaves, skip + k, d - k), "right") \in Siblings(leaves)
        BY <3>2, <3>3 DEF Siblings
      <4> QED
        BY <4>1, <4>2, <4>3, AppendProperties
    <3>5. CASE i >= k
      <4>0. ~(i < k)
        BY <3>2, <3>5
      <4>1. f[d][skip][i] = Append(f[d - k][skip + k][i - k], Sibling(Slice(leaves, skip, k), "left"))
        BY <2>2, <2>a, <4>0 DEF PathOf
      <4>2. f[d - k][skip + k][i - k] \in Seq(Siblings(leaves))
        <5>1. Typed(d - k) /\ i - k \in 0..(d - k - 1)
          BY <2>0, <3>2, <3>5
        <5> QED
          BY <3>2, <5>1 DEF Typed
      <4>3. Sibling(Slice(leaves, skip, k), "left") \in Siblings(leaves)
        BY <3>2, <3>3 DEF Siblings
      <4> QED
        BY <4>1, <4>2, <4>3, AppendProperties
    <3> QED
      BY <3>2, <3>4, <3>5
  <2> QED
    BY <2>1, <2>2
<1> HIDE DEF S
<1>2. Nat \subseteq S
  BY <1>1, CompleteInduction
<1> QED
  BY <1>2 DEF S, Typed

\* Climbing from a leaf along its path in a slice gives the root of the slice,
\* whatever the path goes on with.
Climbs(leaves, f, entry, path, climb, size) ==
  \A skip : IsSlice(leaves, skip, size) =>
    \A i \in 0..(size - 1) :
      LET sub == f[size][skip][i] IN
      /\ leaves[skip + i + 1] = LeafHash(entry)
      /\ Len(sub) <= Len(path)
      /\ \A j \in 1..Len(sub) : path[j] = sub[j]
      => climb[Len(sub)] = Slice(leaves, skip, size)

\* By induction over the tree.
LEMMA PathsClimb ==
  ASSUME NEW H, NEW leaves \in Seq(H), NEW f, ArePaths(f, leaves, Len(leaves)),
         NEW entry, NEW path, Len(path) \in Nat,
         NEW climb, IsClimb(climb, entry, path, Len(path))
  PROVE  \A size \in Nat : Climbs(leaves, f, entry, path, climb, size)
<1> DEFINE S == {d \in Nat : Climbs(leaves, f, entry, path, climb, d)}
<1>0. Len(leaves) \in Nat
  BY LenProperties
<1>1. ASSUME NEW d \in Nat, \A e \in 0..(d - 1) : e \in S PROVE d \in S
  <2> SUFFICES ASSUME NEW skip, IsSlice(leaves, skip, d), NEW i \in 0..(d - 1),
                      leaves[skip + i + 1] = LeafHash(entry),
                      Len(f[d][skip][i]) <= Len(path),
                      \A j \in 1..Len(f[d][skip][i]) : path[j] = f[d][skip][i][j]
               PROVE  climb[Len(f[d][skip][i])] = Slice(leaves, skip, d)
    BY DEF Climbs
  <2> DEFINE k == Split(d)
  <2>0. \A e \in 0..(d - 1) : Climbs(leaves, f, entry, path, climb, e)
    BY <1>1
  <2>a. f[d][skip][i] = PathOf(f, leaves, d, skip, i)
    BY PathUnfolds
  <2>1. CASE d = 1
    <3>1. f[d][skip][i] = <<>>
      BY <2>1, <2>a DEF PathOf
    <3>2. climb[0] = LeafHash(entry)
      BY DEF IsClimb, Rung
    <3>3. Slice(leaves, skip, d) = leaves[skip + 1]
      BY <2>1, SliceOfOne DEF IsSlice
    <3>4. i = 0 /\ skip + i + 1 = skip + 1
      BY <2>1 DEF IsSlice
    <3> QED
      BY <3>1, <3>2, <3>3, <3>4
  <2>2. CASE d # 1
    <3>1. d >= 2 /\ skip \in Nat
      BY <1>0, <2>2 DEF IsSlice
    <3>2. /\ k \in 1..(d - 1) /\ IsSlice(leaves, skip, k) /\ IsSlice(leaves, skip + k, d - k)
          /\ Slice(leaves, skip, d)
               = NodeHash(Slice(leaves, skip, k), Slice(leaves, skip + k, d - k))
      BY <3>1, SliceOfMore
    <3>3. ASSUME NEW sub, NEW sib, f[d][skip][i] = Append(sub, sib),
                 sub \in Seq(Siblings(leaves))
          PROVE  /\ Len(sub) \in Nat /\ Len(f[d][skip][i]) = Len(sub) + 1
                 /\ Len(sub) <= Len(path)
                 /\ \A j \in 1..Len(sub) : path[j] = sub[j]
                 /\ path[Len(sub) + 1] = sib
                 /\ climb[Len(sub) + 1] = Rung(climb, entry, path, Len(sub) + 1)
      <4>1. /\ Len(sub) \in Nat
            /\ Len(Append(sub, sib)) = Len(sub) + 1
            /\ \A j \in 1..Len(sub) : Append(sub, sib)[j] = sub[j]
            /\ Append(sub, sib)[Len(sub) + 1] = sib
        BY <3>3
      <4>2. Len(sub) + 1 \in 0..Len(path) /\ Len(f[d][skip][i]) = Len(sub) + 1
        BY <3>3, <4>1
      <4>3. climb[Len(sub) + 1] = Rung(climb, entry, path, Len(sub) + 1)
        BY <4>2 DEF IsClimb
      <4>4. \A j \in 1..(Len(sub) + 1) : path[j] = Append(sub, sib)[j]
        BY <3>3, <4>2
      <4>5. 1..Len(sub) \subseteq 1..(Len(sub) + 1) /\ Len(sub) + 1 \in 1..(Len(sub) + 1)
        BY <4>1
      <4>6. /\ \A j \in 1..Len(sub) : path[j] = sub[j]
            /\ path[Len(sub) + 1] = sib
        BY <4>1, <4>4, <4>5
      <4>7. Len(sub) <= Len(path)
        BY <4>1, <4>2
      <4> QED
        BY <4>1, <4>2, <4>3, <4>6, <4>7
    <3>4. CASE i < k
      <4> DEFINE sub == f[k][skip][i]
                 sib == Sibling(Slice(leaves, skip + k, d - k), "right")
      <4>1. f[d][skip][i] = Append(sub, sib)
        BY <2>2, <2>a, <3>4 DEF PathOf
      <4>2. k \in Nat /\ i \in 0..(k - 1)
        BY <3>2, <3>4
      <4>3. sub \in Seq(Siblings(leaves))
        BY <3>2, <4>2, PathTyped
      <4> HIDE DEF sub, sib
      <4>4. /\ Len(sub) \in Nat /\ Len(f[d][skip][i]) = Len(sub) + 1
            /\ Len(sub) <= Len(path)
            /\ \A j \in 1..Len(sub) : path[j] = sub[j]
            /\ path[Len(sub) + 1] = sib
            /\ climb[Len(sub) + 1] = Rung(climb, entry, path, Len(sub) + 1)
        BY <3>3, <4>1, <4>3
      <4>5. climb[Len(sub)] = Slice(leaves, skip, k)
        <5>1. Climbs(leaves, f, entry, path, climb, k)
          BY <2>0, <3>2
        <5> QED
          BY <3>2, <4>2, <4>4, <5>1 DEF Climbs, sub
      <4>6. sib.side = "right" /\ sib.sibling = Slice(leaves, skip + k, d - k)
        BY DEF sib, Sibling
      <4>7. Rung(climb, entry, path, Len(sub) + 1) = NodeHash(climb[Len(sub)], sib.sibling)
        BY <4>4, <4>6 DEF Rung
      <4> QED
        BY <3>2, <4>4, <4>5, <4>6, <4>7
    <3>5. CASE i >= k
      <4> DEFINE sub == f[d - k][skip + k][i - k]
                 sib == Sibling(Slice(leaves, skip, k), "left")
      <4>0. ~(i < k)
        BY <3>2, <3>5
      <4>1. f[d][skip][i] = Append(sub, sib)
        BY <2>2, <2>a, <4>0 DEF PathOf
      <4>2. d - k \in Nat /\ i - k \in 0..(d - k - 1) /\ d - k \in 0..(d - 1)
        BY <3>2, <3>5
      <4>3. sub \in Seq(Siblings(leaves))
        BY <3>2, <4>2, PathTyped
      <4> HIDE DEF sub, sib
      <4>4. /\ Len(sub) \in Nat /\ Len(f[d][skip][i]) = Len(sub) + 1
            /\ Len(sub) <= Len(path)
            /\ \A j \in 1..Len(sub) : path[j] = sub[j]
            /\ path[Len(sub) + 1] = sib
            /\ climb[Len(sub) + 1] = Rung(climb, entry, path, Len(sub) + 1)
        BY <3>3, <4>1, <4>3
      <4>5. climb[Len(sub)] = Slice(leaves, skip + k, d - k)
        <5>1. Climbs(leaves, f, entry, path, climb, d - k)
          BY <2>0, <4>2
        <5>2. leaves[skip + k + (i - k) + 1] = LeafHash(entry)
          <6>1. skip + k + (i - k) + 1 = skip + i + 1
            BY <3>1, <3>2
          <6> QED
            BY <6>1
        <5> QED
          BY <3>2, <4>2, <4>4, <5>1, <5>2 DEF Climbs, sub
      <4>6. sib.side = "left" /\ sib.sibling = Slice(leaves, skip, k)
        BY DEF sib, Sibling
      <4>7. Rung(climb, entry, path, Len(sub) + 1) = NodeHash(sib.sibling, climb[Len(sub)])
        BY <4>4, <4>6 DEF Rung
      <4> QED
        BY <3>2, <4>4, <4>5, <4>6, <4>7
    <3> QED
      BY <3>2, <3>4, <3>5
  <2> QED
    BY <2>1, <2>2
<1> HIDE DEF S
<1>2. Nat \subseteq S
  BY <1>1, CompleteInduction
<1> QED
  BY <1>2 DEF S

\* The proof a log generates for one of its leaves verifies.
LEMMA InclusionVerifies ==
  ASSUME NEW H, NEW leaves \in Seq(H), NEW seq \in 0..(Len(leaves) - 1), NEW entry,
         leaves[seq + 1] = LeafHash(entry)
  PROVE  /\ InclusionProof(leaves, seq).path \in Seq(Siblings(leaves))
         /\ VerifyInclusion(entry, InclusionProof(leaves, seq), Mth(leaves))
<1> DEFINE n == Len(leaves)
           proof == InclusionProof(leaves, seq)
<1>1. n \in Nat /\ n # 0 /\ IsSlice(leaves, 0, n)
  BY LenProperties DEF IsSlice
<1>2. proof.leaf_index = seq /\ proof.tree_size = n /\ proof.path = InclusionPath(seq, leaves)
  BY DEF InclusionProof
<1>3. PICK f : ArePaths(f, leaves, n) /\ InclusionPath(seq, leaves) = f[n][0][seq]
  BY InclusionPathIsOne
<1>4. proof.path \in Seq(Siblings(leaves))
  BY <1>1, <1>2, <1>3, PathTyped
<1>5. Len(proof.path) \in Nat
  BY <1>4, LenProperties
<1> HIDE DEF proof, n
<1>6. PICK climb :
        /\ IsClimb(climb, entry, proof.path, Len(proof.path))
        /\ VerifyInclusion(entry, proof, Mth(leaves)) <=>
             proof.leaf_index < proof.tree_size /\ climb[Len(proof.path)] = Mth(leaves)
  BY <1>5, InclusionIsClimb
<1>7. Climbs(leaves, f, entry, proof.path, climb, n)
  BY <1>1, <1>3, <1>5, <1>6, PathsClimb DEF n
<1>8. climb[Len(proof.path)] = Slice(leaves, 0, n)
  <2>1. 0 + seq + 1 = seq + 1 /\ seq \in 0..(n - 1)
    BY DEF n
  <2>2. leaves[0 + seq + 1] = LeafHash(entry)
    BY <2>1
  <2>3. /\ Len(f[n][0][seq]) <= Len(proof.path)
        /\ \A j \in 1..Len(f[n][0][seq]) : proof.path[j] = f[n][0][seq][j]
    BY <1>2, <1>3, <1>5
  <2>4. climb[Len(f[n][0][seq])] = Slice(leaves, 0, n)
    BY <1>1, <1>7, <2>1, <2>2, <2>3 DEF Climbs
  <2> QED
    BY <1>2, <1>3, <2>4
<1>9. Slice(leaves, 0, n) = Mth(leaves)
  BY SliceOfAll DEF n
<1>10. proof.leaf_index < proof.tree_size
  BY <1>1, <1>2 DEF n
<1> QED
  BY <1>4, <1>6, <1>8, <1>9, <1>10 DEF proof

\* The leaves of a log are the hashes of its entries.
LEMMA LeavesAreHashes ==
  ASSUME NEW E, NEW es \in Seq(E)
  PROVE  /\ Leaves(es) \in Seq({LeafHash(e) : e \in E})
         /\ Len(Leaves(es)) = Len(es)
         /\ \A i \in 1..Len(es) : Leaves(es)[i] = LeafHash(es[i])
<1>1. Len(es) \in Nat /\ DOMAIN es = 1..Len(es) /\ \A i \in 1..Len(es) : es[i] \in E
  BY LenProperties, ElementOfSeq
<1>2. Leaves(es) \in [1..Len(es) -> {LeafHash(e) : e \in E}]
  BY <1>1 DEF Leaves
<1>3. Leaves(es) \in Seq({LeafHash(e) : e \in E})
  BY <1>1, <1>2
<1>4. DOMAIN Leaves(es) = 1..Len(es)
  BY <1>1 DEF Leaves
<1>5. Len(Leaves(es)) = Len(es)
  BY <1>1, <1>3, <1>4, LenProperties
<1> QED
  BY <1>1, <1>3, <1>5 DEF Leaves

\* Leaves are told from inner nodes, and a node says what it was hashed from.
LEMMA HashesTell ==
  /\ \A entry, left, right : LeafHash(entry) # NodeHash(left, right)
  /\ \A a, b, c, d : NodeHash(a, b) = NodeHash(c, d) => a = c /\ b = d
  /\ \A a, b : LeafHash(a) = LeafHash(b) => a = b
BY DEF LeafHash, NodeHash

\* A climb starts at a leaf and goes through inner nodes.
LEMMA RungIsHash ==
  ASSUME NEW climb, NEW entry, NEW path, NEW i \in Nat
  PROVE  /\ i = 0 => Rung(climb, entry, path, i) = LeafHash(entry)
         /\ i # 0 => \E left, right : /\ Rung(climb, entry, path, i) = NodeHash(left, right)
                                     /\ climb[i - 1] \in {left, right}
BY DEF Rung

\* What a climb reaches inside a tree it reaches from a leaf below.
Reaches(es, entry, path, climb, size) ==
  \A skip : IsSlice(Leaves(es), skip, size) =>
    \A j \in 0..Len(path) : climb[j] = Slice(Leaves(es), skip, size) =>
      \E i \in 1..size : es[skip + i] = entry

\* By induction over the tree, from its root down.
LEMMA ClimbsFromLeaves ==
  ASSUME NEW E, NEW es \in Seq(E), NEW entry, NEW path, Len(path) \in Nat,
         NEW climb, IsClimb(climb, entry, path, Len(path))
  PROVE  \A size \in Nat : Reaches(es, entry, path, climb, size)
<1> DEFINE S == {d \in Nat : Reaches(es, entry, path, climb, d)}
           leaves == Leaves(es)
           H == {LeafHash(e) : e \in E}
<1>0. /\ leaves \in Seq(H) /\ Len(leaves) = Len(es) /\ Len(es) \in Nat
      /\ \A i \in 1..Len(es) : leaves[i] = LeafHash(es[i])
  BY LeavesAreHashes, LenProperties
<1> HIDE DEF leaves, H
<1>1. ASSUME NEW d \in Nat, \A e \in 0..(d - 1) : e \in S PROVE d \in S
  <2> SUFFICES ASSUME NEW skip, IsSlice(leaves, skip, d), NEW j \in 0..Len(path),
                      climb[j] = Slice(leaves, skip, d)
               PROVE  \E i \in 1..d : es[skip + i] = entry
    BY DEF Reaches, leaves
  <2>0. \A e \in 0..(d - 1) : Reaches(es, entry, path, climb, e)
    BY <1>1
  <2>1. skip \in Nat /\ d >= 1 /\ skip + 1 \in 1..Len(es)
    BY <1>0 DEF IsSlice
  <2>2. climb[j] = Rung(climb, entry, path, j)
    BY DEF IsClimb
  <2>3. CASE d = 1
    <3>1. climb[j] = LeafHash(es[skip + 1])
      <4>1. Slice(leaves, skip, 1) = leaves[skip + 1]
        BY <1>0, <2>3, SliceOfOne DEF IsSlice
      <4> QED
        BY <1>0, <2>1, <2>3, <4>1
    <3>2. j = 0
      BY <2>2, <3>1 DEF Rung, LeafHash, NodeHash
    <3>3. LeafHash(entry) = LeafHash(es[skip + 1])
      BY <2>2, <3>1, <3>2 DEF Rung
    <3>4. entry = es[skip + 1]
      BY <3>3 DEF LeafHash
    <3> QED
      BY <2>3, <3>4
  <2>4. CASE d # 1
    <3> DEFINE k == Split(d)
    <3>1. /\ k \in 1..(d - 1) /\ IsSlice(leaves, skip, k) /\ IsSlice(leaves, skip + k, d - k)
          /\ Slice(leaves, skip, d)
               = NodeHash(Slice(leaves, skip, k), Slice(leaves, skip + k, d - k))
      <4>1. d >= 2 /\ IsSlice(leaves, skip, d)
        BY <2>1, <2>4
      <4> QED
        BY <1>0, <4>1, SliceOfMore
    <3> HIDE DEF k
    <3>2. j # 0
      <4>1. climb[j] = NodeHash(Slice(leaves, skip, k), Slice(leaves, skip + k, d - k))
        BY <3>1
      <4>2. j = 0 => climb[j] = LeafHash(entry)
        BY <2>2 DEF Rung
      <4> QED
        BY <4>1, <4>2, HashesTell
    <3>3. climb[j - 1] = Slice(leaves, skip, k) \/ climb[j - 1] = Slice(leaves, skip + k, d - k)
      <4>1. PICK left, right : /\ Rung(climb, entry, path, j) = NodeHash(left, right)
                               /\ climb[j - 1] \in {left, right}
        BY <3>2, RungIsHash
      <4>2. NodeHash(left, right)
              = NodeHash(Slice(leaves, skip, k), Slice(leaves, skip + k, d - k))
        BY <2>2, <3>1, <4>1
      <4>3. left = Slice(leaves, skip, k) /\ right = Slice(leaves, skip + k, d - k)
        BY <4>2, HashesTell
      <4> QED
        BY <4>1, <4>3
    <3>4. j - 1 \in 0..Len(path)
      BY <3>2
    <3>5. CASE climb[j - 1] = Slice(leaves, skip, k)
      <4>1. Reaches(es, entry, path, climb, k)
        BY <2>0, <3>1
      <4>2. PICK i \in 1..k : es[skip + i] = entry
        BY <3>1, <3>4, <3>5, <4>1 DEF Reaches, leaves
      <4> QED
        BY <3>1, <4>2
    <3>6. CASE climb[j - 1] = Slice(leaves, skip + k, d - k)
      <4>1. Reaches(es, entry, path, climb, d - k)
        BY <2>0, <3>1
      <4>2. PICK i \in 1..(d - k) : es[skip + k + i] = entry
        BY <3>1, <3>4, <3>6, <4>1 DEF Reaches, leaves
      <4>3. k + i \in 1..d /\ skip + (k + i) = skip + k + i
        BY <2>1, <3>1
      <4> QED
        BY <4>2, <4>3
    <3> QED
      BY <3>3, <3>5, <3>6
  <2> QED
    BY <2>3, <2>4
<1> HIDE DEF S
<1>2. Nat \subseteq S
  BY <1>1, CompleteInduction
<1> QED
  BY <1>2 DEF S

\* Under the root of a log only its entries can be proved, whatever the proof is.
LEMMA IncludedIsLogged ==
  ASSUME NEW E, NEW es \in Seq(E), Len(es) # 0, NEW entry, NEW proof, Len(proof.path) \in Nat,
         VerifyInclusion(entry, proof, Mth(Leaves(es)))
  PROVE  \E i \in 1..Len(es) : es[i] = entry
<1> DEFINE n == Len(es)
<1>1. /\ Leaves(es) \in Seq({LeafHash(e) : e \in E}) /\ Len(Leaves(es)) = n /\ n \in Nat
  BY LeavesAreHashes, LenProperties
<1>2. IsSlice(Leaves(es), 0, n)
  BY <1>1 DEF IsSlice
<1>3. Slice(Leaves(es), 0, n) = Mth(Leaves(es))
  BY <1>1, SliceOfAll
<1>4. PICK climb :
        /\ IsClimb(climb, entry, proof.path, Len(proof.path))
        /\ climb[Len(proof.path)] = Mth(Leaves(es))
  BY InclusionIsClimb
<1>5. Reaches(es, entry, proof.path, climb, n)
  BY <1>1, <1>4, ClimbsFromLeaves
<1>6. Len(proof.path) \in 0..Len(proof.path)
  OBVIOUS
<1> HIDE DEF n
<1>7. PICK i \in 1..n : es[0 + i] = entry
  BY <1>2, <1>3, <1>4, <1>5, <1>6 DEF Reaches
<1> QED
  BY <1>7 DEF n

-----------------------------------------------------------------------------
(* Prefixes of a tree *)

\* The nodes that sub_proof finds.
NodesOf(nodes, leaves, size, skip, i) ==
  LET k == Split(size) IN
  IF i = size
  THEN IF skip = 0 THEN <<>> ELSE <<Slice(leaves, skip, size)>>
  ELSE IF i <= k
  THEN Append(nodes[k][skip][i], Slice(leaves, skip + k, size - k))
  ELSE Append(nodes[size - k][skip + k][i - k], Slice(leaves, skip, k))

NodesAt(nodes, leaves, size) ==
  [skip \in 0..(Len(leaves) - size) |->
     [i \in 1..size |-> NodesOf(nodes, leaves, size, skip, i)]]

AreNodes(nodes, leaves, d) == nodes = [size \in 1..d |-> NodesAt(nodes, leaves, size)]

\* There are such nodes.
LEMMA NodesExist ==
  ASSUME NEW leaves, NEW n \in Nat
  PROVE  \E nodes : AreNodes(nodes, leaves, n)
<1> DEFINE S == {d \in Nat : \E nodes : AreNodes(nodes, leaves, d)}
<1>1. ASSUME NEW d \in Nat, \A e \in 0..(d - 1) : e \in S PROVE d \in S
  <2>1. CASE d = 0
    <3>1. AreNodes([size \in 1..0 |-> 0], leaves, 0)
      BY DEF AreNodes
    <3> QED
      BY <2>1, <3>1
  <2>2. CASE d # 0
    <3>1. PICK f : AreNodes(f, leaves, d - 1)
      BY <1>1, <2>2
    <3> DEFINE g == [size \in 1..d |-> NodesAt(f, leaves, size)]
    <3>2. \A size \in 1..(d - 1) : f[size] = NodesAt(f, leaves, size)
      BY <3>1 DEF AreNodes
    <3>3. ASSUME NEW size \in 1..d PROVE NodesAt(f, leaves, size) = NodesAt(g, leaves, size)
      <4>1. CASE size = 1
        BY <4>1 DEF NodesAt, NodesOf
      <4>2. CASE size # 1
        <5>1. Split(size) \in 1..(size - 1)
          BY <4>2, SplitInside
        <5>2. Split(size) \in 1..(d - 1) /\ size - Split(size) \in 1..(d - 1)
          BY <5>1
        <5>3. f[Split(size)] = g[Split(size)] /\ f[size - Split(size)] = g[size - Split(size)]
          BY <3>2, <5>2
        <5> HIDE DEF g
        <5> QED
          BY <5>3 DEF NodesAt, NodesOf
      <4> QED
        BY <4>1, <4>2
    <3>4. AreNodes(g, leaves, d)
      BY <3>3 DEF AreNodes
    <3> QED
      BY <3>4
  <2> QED
    BY <2>1, <2>2
<1> HIDE DEF S
<1>2. Nat \subseteq S
  BY <1>1, CompleteInduction
<1> QED
  BY <1>2 DEF S

\* What sub_proof returns is among them.
LEMMA SubProofIsNodes ==
  ASSUME NEW H, NEW leaves \in Seq(H), NEW m
  PROVE  \E nodes : AreNodes(nodes, leaves, Len(leaves))
                    /\ SubProof(m, leaves) = nodes[Len(leaves)][0][m]
<1> DEFINE n == Len(leaves)
           nodes[size \in 1..n] ==
             [skip \in 0..(n - size) |-> [i \in 1..size |->
                LET k == Split(size) IN
                IF i = size
                THEN IF skip = 0 THEN <<>> ELSE <<Slice(leaves, skip, size)>>
                ELSE IF i <= k
                THEN Append(nodes[k][skip][i], Slice(leaves, skip + k, size - k))
                ELSE Append(nodes[size - k][skip + k][i - k], Slice(leaves, skip, k))]]
<1>1. \E f : AreNodes(f, leaves, n)
  BY NodesExist, LenProperties
<1>2. AreNodes(nodes, leaves, n)
  BY <1>1 DEF AreNodes, NodesAt, NodesOf
<1>3. SubProof(m, leaves) = nodes[n][0][m]
  BY DEF SubProof
<1> QED
  BY <1>2, <1>3

\* What sub_verify makes of a proof.
NodeAt(proof, i) == IF i \in DOMAIN proof THEN proof[i] ELSE None

Known(old_root) == {<<>>, <<old_root>>}

WalkOf(walk, proof, old_root, size, i, known_old) ==
  LET k == Split(size)
      left == walk[k][i][known_old]
      right == walk[size - k][i - k][<<>>]
  IN IF i = size
     THEN IF known_old = <<>>
          THEN [old |-> NodeAt(proof, 1), new |-> NodeAt(proof, 1), used |-> 1]
          ELSE [old |-> old_root, new |-> old_root, used |-> 0]
     ELSE IF i <= k
     THEN [old  |-> left.old,
           new  |-> NodeHash(left.new, NodeAt(proof, left.used + 1)),
           used |-> left.used + 1]
     ELSE [old  |-> NodeHash(NodeAt(proof, right.used + 1), right.old),
           new  |-> NodeHash(NodeAt(proof, right.used + 1), right.new),
           used |-> right.used + 1]

WalkAt(walk, proof, old_root, size) ==
  [i \in 1..size |->
     [known_old \in Known(old_root) |-> WalkOf(walk, proof, old_root, size, i, known_old)]]

IsWalk(walk, proof, old_root, d) ==
  walk = [size \in 1..d |-> WalkAt(walk, proof, old_root, size)]

\* There is such a walk.
LEMMA WalkExists ==
  ASSUME NEW proof, NEW old_root, NEW n \in Nat
  PROVE  \E walk : IsWalk(walk, proof, old_root, n)
<1> DEFINE S == {d \in Nat : \E walk : IsWalk(walk, proof, old_root, d)}
<1>1. ASSUME NEW d \in Nat, \A e \in 0..(d - 1) : e \in S PROVE d \in S
  <2>1. CASE d = 0
    <3>1. IsWalk([size \in 1..0 |-> 0], proof, old_root, 0)
      BY DEF IsWalk
    <3> QED
      BY <2>1, <3>1
  <2>2. CASE d # 0
    <3>1. PICK f : IsWalk(f, proof, old_root, d - 1)
      BY <1>1, <2>2
    <3> DEFINE g == [size \in 1..d |-> WalkAt(f, proof, old_root, size)]
    <3>2. \A size \in 1..(d - 1) : f[size] = WalkAt(f, proof, old_root, size)
      BY <3>1 DEF IsWalk
    <3>3. ASSUME NEW size \in 1..d
          PROVE  WalkAt(f, proof, old_root, size) = WalkAt(g, proof, old_root, size)
      <4>1. CASE size = 1
        <5>1. \A i \in 1..size : \A known_old :
                WalkOf(f, proof, old_root, size, i, known_old)
                  = WalkOf(g, proof, old_root, size, i, known_old)
          <6> HIDE DEF g
          <6> QED
            BY <4>1 DEF WalkOf
        <5> HIDE DEF g
        <5> QED
          BY <5>1 DEF WalkAt
      <4>2. CASE size # 1
        <5>1. Split(size) \in 1..(size - 1)
          BY <4>2, SplitInside
        <5>2. Split(size) \in 1..(d - 1) /\ size - Split(size) \in 1..(d - 1)
          BY <5>1
        <5>3. f[Split(size)] = g[Split(size)] /\ f[size - Split(size)] = g[size - Split(size)]
          BY <3>2, <5>2
        <5> HIDE DEF g
        <5> QED
          BY <5>3 DEF WalkAt, WalkOf
      <4> QED
        BY <4>1, <4>2
    <3>4. IsWalk(g, proof, old_root, d)
      BY <3>3 DEF IsWalk
    <3> QED
      BY <3>4
  <2> QED
    BY <2>1, <2>2
<1> HIDE DEF S
<1>2. Nat \subseteq S
  BY <1>1, CompleteInduction
<1> QED
  BY <1>2 DEF S

\* What sub_verify returns is where it ends.
LEMMA SubVerifyIsWalk ==
  ASSUME NEW m, NEW n \in Nat, NEW proof, NEW old_root
  PROVE  \E walk : IsWalk(walk, proof, old_root, n)
                   /\ SubVerify(m, n, proof, old_root) = walk[n][m][<<old_root>>]
<1> DEFINE node(i) == IF i \in DOMAIN proof THEN proof[i] ELSE None
           walk[size \in 1..n] ==
             [i \in 1..size |-> [known_old \in {<<>>, <<old_root>>} |->
                LET k == Split(size)
                    left == walk[k][i][known_old]
                    right == walk[size - k][i - k][<<>>]
                IN IF i = size
                   THEN IF known_old = <<>>
                        THEN [old |-> node(1), new |-> node(1), used |-> 1]
                        ELSE [old |-> old_root, new |-> old_root, used |-> 0]
                   ELSE IF i <= k
                   THEN [old  |-> left.old,
                         new  |-> NodeHash(left.new, node(left.used + 1)),
                         used |-> left.used + 1]
                   ELSE [old  |-> NodeHash(node(right.used + 1), right.old),
                         new  |-> NodeHash(node(right.used + 1), right.new),
                         used |-> right.used + 1]]]
<1>1. \E f : IsWalk(f, proof, old_root, n)
  BY WalkExists
<1>2. IsWalk(walk, proof, old_root, n)
  BY <1>1 DEF IsWalk, WalkAt, WalkOf, Known, NodeAt
<1>3. SubVerify(m, n, proof, old_root) = walk[n][m][<<old_root>>]
  BY DEF SubVerify
<1> QED
  BY <1>2, <1>3

\* A walk over a slice is that over one half and one node more.
LEMMA WalkUnfolds ==
  ASSUME NEW walk, NEW proof, NEW old_root, NEW n \in Nat, IsWalk(walk, proof, old_root, n),
         NEW size \in 1..n, NEW i \in 1..size, NEW known_old \in Known(old_root)
  PROVE  walk[size][i][known_old] = WalkOf(walk, proof, old_root, size, i, known_old)
BY DEF IsWalk, WalkAt

\* So are the nodes.
LEMMA NodesUnfold ==
  ASSUME NEW H, NEW leaves \in Seq(H), NEW f, AreNodes(f, leaves, Len(leaves)),
         NEW skip, NEW size, IsSlice(leaves, skip, size), NEW i \in 1..size
  PROVE  f[size][skip][i] = NodesOf(f, leaves, size, skip, i)
<1>1. Len(leaves) \in Nat /\ size \in 1..Len(leaves) /\ skip \in 0..(Len(leaves) - size)
  BY LenProperties DEF IsSlice
<1>2. f[size] = NodesAt(f, leaves, size)
  BY <1>1 DEF AreNodes
<1> QED
  BY <1>1, <1>2 DEF NodesAt

\* When a walk ends in the root of a slice, it took the prefix from there too.
Follow(leaves, walk, old_root, size) ==
  \A skip : IsSlice(leaves, skip, size) =>
    \A i \in 1..size : \A known_old \in Known(old_root) :
      walk[size][i][known_old].new = Slice(leaves, skip, size) =>
        walk[size][i][known_old].old = Slice(leaves, skip, i)

\* By induction over the tree.
LEMMA WalksFollow ==
  ASSUME NEW H, NEW leaves \in Seq(H), NEW proof, NEW old_root,
         NEW walk, IsWalk(walk, proof, old_root, Len(leaves))
  PROVE  \A size \in Nat : Follow(leaves, walk, old_root, size)
<1> DEFINE S == {d \in Nat : Follow(leaves, walk, old_root, d)}
<1>0. Len(leaves) \in Nat
  BY LenProperties
<1>1. ASSUME NEW d \in Nat, \A e \in 0..(d - 1) : e \in S PROVE d \in S
  <2> SUFFICES ASSUME NEW skip, IsSlice(leaves, skip, d), NEW i \in 1..d,
                      NEW known_old \in Known(old_root),
                      walk[d][i][known_old].new = Slice(leaves, skip, d)
               PROVE  walk[d][i][known_old].old = Slice(leaves, skip, i)
    BY DEF Follow
  <2>0. \A e \in 0..(d - 1) : Follow(leaves, walk, old_root, e)
    BY <1>1
  <2>1. d \in 1..Len(leaves) /\ skip \in Nat
    BY <1>0 DEF IsSlice
  <2>2. walk[d][i][known_old] = WalkOf(walk, proof, old_root, d, i, known_old)
    BY <1>0, <2>1, WalkUnfolds
  <2>3. CASE i = d
    BY <2>2, <2>3 DEF WalkOf
  <2>4. CASE i # d
    <3> DEFINE k == Split(d)
               sub == IF i <= k THEN walk[k][i][known_old] ELSE walk[d - k][i - k][<<>>]
               next == NodeAt(proof, sub.used + 1)
    <3>1. d >= 2
      BY <2>1, <2>4
    <3>2. /\ k \in 1..(d - 1) /\ IsSlice(leaves, skip, k) /\ IsSlice(leaves, skip + k, d - k)
          /\ Slice(leaves, skip, d)
               = NodeHash(Slice(leaves, skip, k), Slice(leaves, skip + k, d - k))
      BY <3>1, SliceOfMore
    <3>3. CASE i <= k
      <4>1. /\ walk[d][i][known_old].new = NodeHash(sub.new, next)
            /\ walk[d][i][known_old].old = sub.old
        BY <2>2, <2>4, <3>3 DEF WalkOf
      <4> HIDE DEF next
      <4>2. sub.new = Slice(leaves, skip, k)
        <5>1. NodeHash(sub.new, next)
                = NodeHash(Slice(leaves, skip, k), Slice(leaves, skip + k, d - k))
          BY <3>2, <4>1
        <5> QED
          BY <5>1, HashesTell
      <4>3. sub.old = Slice(leaves, skip, i)
        <5>1. Follow(leaves, walk, old_root, k) /\ i \in 1..k
          BY <2>0, <3>2, <3>3
        <5>2. sub = walk[k][i][known_old]
          BY <3>3
        <5> HIDE DEF sub
        <5> QED
          BY <3>2, <4>2, <5>1, <5>2 DEF Follow
      <4> QED
        BY <4>1, <4>3
    <3>4. CASE ~(i <= k)
      <4>1. /\ walk[d][i][known_old].new = NodeHash(next, sub.new)
            /\ walk[d][i][known_old].old = NodeHash(next, sub.old)
        BY <2>2, <2>4, <3>4 DEF WalkOf
      <4> HIDE DEF next
      <4>2. next = Slice(leaves, skip, k) /\ sub.new = Slice(leaves, skip + k, d - k)
        <5>1. NodeHash(next, sub.new)
                = NodeHash(Slice(leaves, skip, k), Slice(leaves, skip + k, d - k))
          BY <3>2, <4>1
        <5> QED
          BY <5>1, HashesTell
      <4>3. sub.old = Slice(leaves, skip + k, i - k)
        <5>1. /\ Follow(leaves, walk, old_root, d - k)
              /\ i - k \in 1..(d - k) /\ <<>> \in Known(old_root)
          BY <2>0, <3>2, <3>4 DEF Known
        <5>2. sub = walk[d - k][i - k][<<>>]
          BY <3>4
        <5> HIDE DEF sub
        <5> QED
          BY <3>2, <4>2, <5>1, <5>2 DEF Follow
      <4>4. Slice(leaves, skip, i) = NodeHash(Slice(leaves, skip, k), Slice(leaves, skip + k, i - k))
        <5>1. i >= 2 /\ i > k /\ IsSlice(leaves, skip, i)
          BY <1>0, <2>1, <3>2, <3>4 DEF IsSlice
        <5>2. Split(i) = k
          BY <3>1, <5>1, SplitOfPrefix
        <5>3. Slice(leaves, skip, i)
                = NodeHash(Slice(leaves, skip, Split(i)),
                           Slice(leaves, skip + Split(i), i - Split(i)))
          BY <5>1, SliceOfMore
        <5> QED
          BY <5>2, <5>3
      <4> QED
        BY <4>1, <4>2, <4>3, <4>4
    <3> QED
      BY <3>3, <3>4
  <2> QED
    BY <2>3, <2>4
<1> HIDE DEF S
<1>2. Nat \subseteq S
  BY <1>1, CompleteInduction
<1> QED
  BY <1>2 DEF S

\* A proof that verifies against the root of a tree names the root of its prefix,
\* whatever the proof is.
LEMMA ConsistentIsPrefix ==
  ASSUME NEW H, NEW leaves \in Seq(H), NEW m \in 1..Len(leaves), NEW old_root, NEW proof,
         VerifyConsistency(m, old_root, Len(leaves), Mth(leaves), proof)
  PROVE  old_root = Slice(leaves, 0, m)
<1> DEFINE n == Len(leaves)
<1>1. n \in Nat /\ IsSlice(leaves, 0, n)
  BY LenProperties DEF IsSlice
<1>2. Slice(leaves, 0, n) = Mth(leaves)
  BY SliceOfAll
<1>3. CASE m = n
  BY <1>2, <1>3 DEF VerifyConsistency
<1>4. CASE m # n
  <2>1. PICK walk : /\ IsWalk(walk, proof, old_root, n)
                    /\ SubVerify(m, n, proof, old_root) = walk[n][m][<<old_root>>]
    BY <1>1, SubVerifyIsWalk
  <2>2. /\ SubVerify(m, n, proof, old_root).old = old_root
        /\ SubVerify(m, n, proof, old_root).new = Mth(leaves)
    BY <1>1, <1>4 DEF VerifyConsistency
  <2>3. Follow(leaves, walk, old_root, n)
    BY <1>1, <2>1, WalksFollow
  <2>4. <<old_root>> \in Known(old_root) /\ m \in 1..n
    BY DEF Known
  <2> HIDE DEF n
  <2>5. walk[n][m][<<old_root>>].old = Slice(leaves, 0, m)
    BY <1>1, <1>2, <2>1, <2>2, <2>3, <2>4 DEF Follow
  <2> QED
    BY <2>1, <2>2, <2>5
<1> QED
  BY <1>3, <1>4

\* The hashes of slices, which the nodes of a proof are.
SliceRoots(leaves) == {Slice(leaves, skip, size) : skip \in Nat, size \in Nat}

NodesTyped(leaves, nodes, size) ==
  \A skip : IsSlice(leaves, skip, size) =>
    \A i \in 1..size : nodes[size][skip][i] \in Seq(SliceRoots(leaves))

\* Every node of a proof is the root of a slice.
LEMMA NodesAreSlices ==
  ASSUME NEW H, NEW leaves \in Seq(H), NEW nodes, AreNodes(nodes, leaves, Len(leaves))
  PROVE  \A size \in Nat : NodesTyped(leaves, nodes, size)
<1> DEFINE S == {d \in Nat : NodesTyped(leaves, nodes, d)}
<1>1. ASSUME NEW d \in Nat, \A e \in 0..(d - 1) : e \in S PROVE d \in S
  <2> SUFFICES ASSUME NEW skip, IsSlice(leaves, skip, d), NEW i \in 1..d
               PROVE  nodes[d][skip][i] \in Seq(SliceRoots(leaves))
    BY DEF NodesTyped
  <2> DEFINE k == Split(d)
  <2>0. \A e \in 0..(d - 1) : NodesTyped(leaves, nodes, e)
    BY <1>1
  <2>1. nodes[d][skip][i] = NodesOf(nodes, leaves, d, skip, i)
    BY NodesUnfold
  <2>2. skip \in Nat /\ Slice(leaves, skip, d) \in SliceRoots(leaves)
    BY DEF IsSlice, SliceRoots
  <2>3. CASE i = d /\ skip = 0
    BY <2>1, <2>3, EmptySeq DEF NodesOf
  <2>4. CASE i = d /\ skip # 0
    <3>1. nodes[d][skip][i] = <<Slice(leaves, skip, d)>>
      BY <2>1, <2>4 DEF NodesOf
    <3> QED
      BY <2>2, <3>1
  <2>5. CASE i # d
    <3>1. d >= 2
      BY <2>5
    <3>2. k \in 1..(d - 1) /\ IsSlice(leaves, skip, k) /\ IsSlice(leaves, skip + k, d - k)
      BY <3>1, SliceOfMore
    <3>3. skip + k \in Nat /\ k \in Nat /\ d - k \in Nat
      BY <2>2, <3>2
    <3>4. CASE i <= k
      <4>1. nodes[d][skip][i] = Append(nodes[k][skip][i], Slice(leaves, skip + k, d - k))
        BY <2>1, <2>5, <3>4 DEF NodesOf
      <4>2. nodes[k][skip][i] \in Seq(SliceRoots(leaves))
        <5>1. NodesTyped(leaves, nodes, k) /\ i \in 1..k
          BY <2>0, <3>2, <3>4
        <5> QED
          BY <3>2, <5>1 DEF NodesTyped
      <4>3. Slice(leaves, skip + k, d - k) \in SliceRoots(leaves)
        BY <3>3 DEF SliceRoots
      <4> QED
        BY <4>1, <4>2, <4>3, AppendProperties
    <3>5. CASE ~(i <= k)
      <4>1. nodes[d][skip][i]
              = Append(nodes[d - k][skip + k][i - k], Slice(leaves, skip, k))
        BY <2>1, <2>5, <3>5 DEF NodesOf
      <4>2. nodes[d - k][skip + k][i - k] \in Seq(SliceRoots(leaves))
        <5>1. NodesTyped(leaves, nodes, d - k) /\ i - k \in 1..(d - k)
          BY <2>0, <3>2, <3>5
        <5> QED
          BY <3>2, <5>1 DEF NodesTyped
      <4>3. Slice(leaves, skip, k) \in SliceRoots(leaves)
        BY <2>2, <3>3 DEF SliceRoots
      <4> QED
        BY <4>1, <4>2, <4>3, AppendProperties
    <3> QED
      BY <3>4, <3>5
  <2> QED
    BY <2>3, <2>4, <2>5
<1> HIDE DEF S
<1>2. Nat \subseteq S
  BY <1>1, CompleteInduction
<1> QED
  BY <1>2 DEF S

\* Whether a proof begins with some nodes.
Begins(part, proof) ==
  /\ Len(part) \in Nat
  /\ \A j \in 1..Len(part) : NodeAt(proof, j) = part[j]

\* What a walk knows of the prefix: its root where nothing was skipped.
Anchored(leaves, old_root, skip, i, known_old) ==
  IF skip = 0
  THEN known_old = <<old_root>> /\ old_root = Slice(leaves, 0, i)
  ELSE known_old = <<>>

\* A walk of a proof that begins with the nodes of a slice ends in its roots.
Rebuilds(leaves, nodes, walk, proof, old_root, size) ==
  \A skip : IsSlice(leaves, skip, size) =>
    \A i \in 1..size : \A known_old :
      Begins(nodes[size][skip][i], proof) /\ Anchored(leaves, old_root, skip, i, known_old) =>
        /\ walk[size][i][known_old].old = Slice(leaves, skip, i)
        /\ walk[size][i][known_old].new = Slice(leaves, skip, size)
        /\ walk[size][i][known_old].used = Len(nodes[size][skip][i])

\* A proof that begins with some nodes and one more has that one after them.
LEMMA BeginsMore ==
  ASSUME NEW N, NEW part \in Seq(N), NEW node \in N, NEW proof,
         Begins(Append(part, node), proof)
  PROVE  /\ Begins(part, proof)
         /\ Len(part) \in Nat
         /\ Len(Append(part, node)) = Len(part) + 1
         /\ NodeAt(proof, Len(part) + 1) = node
<1>1. /\ Len(part) \in Nat
      /\ Len(Append(part, node)) = Len(part) + 1
      /\ \A j \in 1..Len(part) : Append(part, node)[j] = part[j]
      /\ Append(part, node)[Len(part) + 1] = node
  BY AppendProperties, LenProperties
<1> QED
  BY <1>1 DEF Begins

\* By induction over the tree.
LEMMA WalksRebuild ==
  ASSUME NEW H, NEW leaves \in Seq(H), NEW proof, NEW old_root,
         NEW nodes, AreNodes(nodes, leaves, Len(leaves)),
         NEW walk, IsWalk(walk, proof, old_root, Len(leaves))
  PROVE  \A size \in Nat : Rebuilds(leaves, nodes, walk, proof, old_root, size)
<1> DEFINE S == {d \in Nat : Rebuilds(leaves, nodes, walk, proof, old_root, d)}
<1>0. Len(leaves) \in Nat
  BY LenProperties
<1>1. ASSUME NEW d \in Nat, \A e \in 0..(d - 1) : e \in S PROVE d \in S
  <2> DEFINE Ends(skip, i, known_old) ==
        /\ walk[d][i][known_old].old = Slice(leaves, skip, i)
        /\ walk[d][i][known_old].new = Slice(leaves, skip, d)
        /\ walk[d][i][known_old].used = Len(nodes[d][skip][i])
  <2> SUFFICES ASSUME NEW skip, IsSlice(leaves, skip, d), NEW i \in 1..d, NEW known_old,
                      Begins(nodes[d][skip][i], proof),
                      Anchored(leaves, old_root, skip, i, known_old)
               PROVE  Ends(skip, i, known_old)
    BY DEF Rebuilds
  <2> HIDE DEF Ends
  <2>0. \A e \in 0..(d - 1) : Rebuilds(leaves, nodes, walk, proof, old_root, e)
    BY <1>1
  <2>1. d \in 1..Len(leaves) /\ skip \in Nat /\ known_old \in Known(old_root)
    BY <1>0 DEF IsSlice, Anchored, Known
  <2>2. /\ walk[d][i][known_old] = WalkOf(walk, proof, old_root, d, i, known_old)
        /\ nodes[d][skip][i] = NodesOf(nodes, leaves, d, skip, i)
    BY <1>0, <2>1, WalkUnfolds, NodesUnfold
  <2>3. CASE i = d /\ skip = 0
    <3>1. known_old = <<old_root>> /\ old_root = Slice(leaves, 0, d)
      BY <2>3 DEF Anchored
    <3>4. known_old # <<>>
      <4>1. Len(<<old_root>>) = 1 /\ Len(<<>>) = 0
        OBVIOUS
      <4> QED
        BY <3>1, <4>1
    <3>2. walk[d][i][known_old] = [old |-> old_root, new |-> old_root, used |-> 0]
      BY <2>2, <2>3, <3>1, <3>4 DEF WalkOf
    <3>3. Len(nodes[d][skip][i]) = 0
      BY <2>2, <2>3 DEF NodesOf
    <3> QED
      BY <2>3, <3>1, <3>2, <3>3 DEF Ends
  <2>4. CASE i = d /\ skip # 0
    <3>1. known_old = <<>>
      BY <2>4 DEF Anchored
    <3>2. walk[d][i][known_old]
            = [old |-> NodeAt(proof, 1), new |-> NodeAt(proof, 1), used |-> 1]
      BY <2>2, <2>4, <3>1 DEF WalkOf
    <3>3. nodes[d][skip][i] = <<Slice(leaves, skip, d)>>
      BY <2>2, <2>4 DEF NodesOf
    <3>4. Len(nodes[d][skip][i]) = 1 /\ NodeAt(proof, 1) = Slice(leaves, skip, d)
      BY <3>3 DEF Begins
    <3> QED
      BY <2>4, <3>2, <3>4 DEF Ends
  <2>5. CASE i # d
    <3> DEFINE k == Split(d)
    <3>1. d >= 2
      BY <2>1, <2>5
    <3>2. /\ k \in 1..(d - 1) /\ IsSlice(leaves, skip, k) /\ IsSlice(leaves, skip + k, d - k)
          /\ Slice(leaves, skip, d)
               = NodeHash(Slice(leaves, skip, k), Slice(leaves, skip + k, d - k))
      BY <3>1, SliceOfMore
    <3>3. /\ skip + k \in Nat /\ skip + k # 0 /\ k \in Nat /\ d - k \in Nat
          /\ k \in 0..(d - 1) /\ d - k \in 0..(d - 1)
      BY <2>1, <3>2
    <3>4. CASE i <= k
      <4> DEFINE part == nodes[k][skip][i]
                 node == Slice(leaves, skip + k, d - k)
                 sub == walk[k][i][known_old]
      <4>1. nodes[d][skip][i] = Append(part, node)
        BY <2>2, <2>5, <3>4 DEF NodesOf
      <4>2. i \in 1..k
        BY <3>2, <3>4
      <4>3. part \in Seq(SliceRoots(leaves)) /\ node \in SliceRoots(leaves)
        <5>1. NodesTyped(leaves, nodes, k)
          BY <3>3, NodesAreSlices
        <5> QED
          BY <3>2, <3>3, <4>2, <5>1 DEF NodesTyped, SliceRoots
      <4>4. /\ walk[d][i][known_old].old = sub.old
            /\ walk[d][i][known_old].new = NodeHash(sub.new, NodeAt(proof, sub.used + 1))
            /\ walk[d][i][known_old].used = sub.used + 1
        BY <2>2, <2>5, <3>4 DEF WalkOf
      <4>5. /\ Begins(part, proof)
            /\ Len(part) \in Nat
            /\ Len(Append(part, node)) = Len(part) + 1
            /\ NodeAt(proof, Len(part) + 1) = node
        <5> HIDE DEF part, node
        <5> QED
          BY <4>1, <4>3, BeginsMore
      <4>6. /\ sub.old = Slice(leaves, skip, i)
            /\ sub.new = Slice(leaves, skip, k)
            /\ sub.used = Len(part)
        <5>1. Rebuilds(leaves, nodes, walk, proof, old_root, k)
          BY <2>0, <3>3
        <5> QED
          BY <3>2, <4>2, <4>5, <5>1 DEF Rebuilds
      <4> HIDE DEF part, node, sub
      <4>7. NodeAt(proof, sub.used + 1) = node
        BY <4>5, <4>6
      <4> QED
        BY <3>2, <4>1, <4>4, <4>5, <4>6, <4>7 DEF Ends, node
    <3>5. CASE ~(i <= k)
      <4> DEFINE part == nodes[d - k][skip + k][i - k]
                 node == Slice(leaves, skip, k)
                 sub == walk[d - k][i - k][<<>>]
      <4>1. nodes[d][skip][i] = Append(part, node)
        BY <2>2, <2>5, <3>5 DEF NodesOf
      <4>2. i - k \in 1..(d - k)
        BY <3>2, <3>5
      <4>3. part \in Seq(SliceRoots(leaves)) /\ node \in SliceRoots(leaves)
        <5>1. NodesTyped(leaves, nodes, d - k)
          BY <3>3, NodesAreSlices
        <5>2. node \in SliceRoots(leaves)
          BY <2>1, <3>3 DEF SliceRoots
        <5> QED
          BY <3>2, <4>2, <5>1, <5>2 DEF NodesTyped
      <4>4. /\ walk[d][i][known_old].old = NodeHash(NodeAt(proof, sub.used + 1), sub.old)
            /\ walk[d][i][known_old].new = NodeHash(NodeAt(proof, sub.used + 1), sub.new)
            /\ walk[d][i][known_old].used = sub.used + 1
        BY <2>2, <2>5, <3>5 DEF WalkOf
      <4>5. /\ Begins(part, proof)
            /\ Len(part) \in Nat
            /\ Len(Append(part, node)) = Len(part) + 1
            /\ NodeAt(proof, Len(part) + 1) = node
        <5> HIDE DEF part, node
        <5> QED
          BY <4>1, <4>3, BeginsMore
      <4>6. /\ sub.old = Slice(leaves, skip + k, i - k)
            /\ sub.new = Slice(leaves, skip + k, d - k)
            /\ sub.used = Len(part)
        <5>1. Rebuilds(leaves, nodes, walk, proof, old_root, d - k)
          BY <2>0, <3>3
        <5>2. Anchored(leaves, old_root, skip + k, i - k, <<>>)
          BY <3>3 DEF Anchored
        <5> QED
          BY <3>2, <4>2, <4>5, <5>1, <5>2 DEF Rebuilds
      <4> HIDE DEF part, node, sub
      <4>7. NodeAt(proof, sub.used + 1) = node
        BY <4>5, <4>6
      <4>8. Slice(leaves, skip, i) = NodeHash(Slice(leaves, skip, k), Slice(leaves, skip + k, i - k))
        <5>1. i >= 2 /\ i > k /\ IsSlice(leaves, skip, i)
          BY <1>0, <2>1, <3>2, <3>5 DEF IsSlice
        <5>2. Split(i) = k
          BY <3>1, <5>1, SplitOfPrefix
        <5>3. Slice(leaves, skip, i)
                = NodeHash(Slice(leaves, skip, Split(i)),
                           Slice(leaves, skip + Split(i), i - Split(i)))
          BY <5>1, SliceOfMore
        <5> QED
          BY <5>2, <5>3
      <4> QED
        BY <3>2, <4>1, <4>4, <4>5, <4>6, <4>7, <4>8 DEF Ends, node
    <3> QED
      BY <3>4, <3>5
  <2> QED
    BY <2>3, <2>4, <2>5
<1> HIDE DEF S
<1>2. Nat \subseteq S
  BY <1>1, CompleteInduction
<1> QED
  BY <1>2 DEF S

\* The proof a log generates for a size it had verifies against both roots.
LEMMA ConsistencyVerifies ==
  ASSUME NEW H, NEW leaves \in Seq(H), NEW m \in 1..Len(leaves)
  PROVE  VerifyConsistency(m, Slice(leaves, 0, m), Len(leaves), Mth(leaves),
                           ConsistencyProof(leaves, m))
<1> DEFINE n == Len(leaves)
           old_root == Slice(leaves, 0, m)
           proof == ConsistencyProof(leaves, m)
<1>1. n \in Nat /\ m \in Nat /\ m # 0 /\ m <= n /\ IsSlice(leaves, 0, n)
  BY LenProperties DEF IsSlice
<1>2. PICK nodes : AreNodes(nodes, leaves, n) /\ SubProof(m, leaves) = nodes[n][0][m]
  BY SubProofIsNodes
<1>3. proof = nodes[n][0][m]
  BY <1>1, <1>2 DEF ConsistencyProof
<1>4. Slice(leaves, 0, n) = Mth(leaves)
  BY SliceOfAll
<1>5. CASE m = n
  <2>1. nodes[n][0][m] = NodesOf(nodes, leaves, n, 0, m)
    BY <1>1, <1>2, NodesUnfold
  <2>2. proof = <<>>
    BY <1>3, <1>5, <2>1 DEF NodesOf
  <2>3. old_root = Mth(leaves)
    BY <1>4, <1>5
  <2> HIDE DEF proof, old_root
  <2>4. VerifyConsistency(m, old_root, n, Mth(leaves), proof)
    <3> HIDE DEF n
    <3> QED
      BY <1>1, <1>5, <2>2, <2>3 DEF VerifyConsistency
  <2> QED
    BY <2>4 DEF proof, old_root
<1>6. CASE m # n
  <2>1. PICK walk : /\ IsWalk(walk, proof, old_root, n)
                    /\ SubVerify(m, n, proof, old_root) = walk[n][m][<<old_root>>]
    BY <1>1, SubVerifyIsWalk
  <2>2. proof \in Seq(SliceRoots(leaves))
    <3>1. NodesTyped(leaves, nodes, n)
      BY <1>1, <1>2, NodesAreSlices
    <3> QED
      BY <1>1, <1>3, <3>1 DEF NodesTyped
  <2> HIDE DEF proof, old_root
  <2>3. Begins(proof, proof)
    BY <2>2, LenProperties DEF Begins, NodeAt
  <2>4. Anchored(leaves, old_root, 0, m, <<old_root>>)
    BY DEF Anchored, old_root
  <2>5. Rebuilds(leaves, nodes, walk, proof, old_root, n)
    BY <1>1, <1>2, <2>1, WalksRebuild
  <2>6. /\ walk[n][m][<<old_root>>].old = old_root
        /\ walk[n][m][<<old_root>>].new = Mth(leaves)
        /\ walk[n][m][<<old_root>>].used = Len(proof)
    <3> HIDE DEF n
    <3> QED
      BY <1>1, <1>3, <1>4, <2>3, <2>4, <2>5 DEF Rebuilds, old_root
  <2>7. VerifyConsistency(m, old_root, n, Mth(leaves), proof)
    <3> HIDE DEF n
    <3> QED
      BY <1>1, <1>6, <2>1, <2>6 DEF VerifyConsistency
  <2> QED
    BY <2>7 DEF proof, old_root
<1> QED
  BY <1>5, <1>6

-----------------------------------------------------------------------------
(* The inductive invariant *)

LogsTyped ==
  /\ entries \in [Log -> Seq(Commitment)]
  /\ \A l \in Log : Len(entries[l]) <= MaxEntries
  /\ \A l \in FaultyLog : entries[l] = <<>>

MasterTyped ==
  /\ master \in Seq({"witness"} \X Log \X Nat \X Root)
  /\ seq_by_log \in [Log -> Seq(Nat)]
  /\ IndexCoversMaster

ReceiptsTyped == \A r \in receipts : r.log_id \in Log /\ r.spine_digest \in Commitment

IInv ==
  /\ LogsTyped
  /\ heads \subseteq SignedTreeHead
  /\ pinned \in [Log -> {None} \cup SignedTreeHead]
  /\ ReceiptsTyped
  /\ MasterTyped
  /\ HonestHeads

LEMMA InvTyped == ASSUME IInv PROVE TypeOK
<1>1. \A n \in DOMAIN master : master[n] \in {"witness"} \X Log \X Nat \X Root
  BY LenProperties, ElementOfSeq DEF IInv, MasterTyped
<1> QED
  BY <1>1 DEF IInv, LogsTyped, MasterTyped, ReceiptsTyped, TypeOK

LEMMA InitInv == Init => IInv
<1> SUFFICES ASSUME Init PROVE IInv
  OBVIOUS
<1>1. LogsTyped
  BY BoundAssumption, LogAssumption, EmptySeq DEF Init, LogsTyped
<1>2. MasterTyped
  <2>1. master = <<>> /\ \A l \in Log : seq_by_log[l] = <<>>
    BY DEF Init
  <2>2. IndexCoversMaster
    BY <2>1 DEF IndexCoversMaster
  <2> QED
    BY <2>2, EmptySeq DEF Init, MasterTyped
<1>3. HonestHeads /\ ReceiptsTyped
  BY DEF Init, HonestHeads, ReceiptsTyped
<1> QED
  BY <1>1, <1>2, <1>3 DEF Init, IInv

-----------------------------------------------------------------------------
(* Heads and prefixes *)

\* Entries, as a function of their number or as a sequence.
LEMMA EntriesAreSeqs ==
  ASSUME NEW s \in AnyEntries
  PROVE  s \in Seq(Commitment) /\ Len(s) \in Nat \ {0}
<1>1. PICK n \in 1..MaxTree : s \in [1..n -> Commitment]
  BY DEF AnyEntries
<1>2. n \in Nat
  BY <1>1, BoundAssumption
<1>3. s \in Seq(Commitment)
  BY <1>1, <1>2
<1>4. Len(s) = n
  BY <1>1, <1>2, <1>3, LenProperties
<1> QED
  BY <1>1, <1>2, <1>3, <1>4

LEMMA LogsAreEntries ==
  ASSUME LogsTyped, NEW l \in Log, entries[l] # <<>>
  PROVE  entries[l] \in AnyEntries
<1>1. entries[l] \in Seq(Commitment)
  BY DEF LogsTyped
<1>2. Len(entries[l]) \in Nat \ {0} /\ Len(entries[l]) <= MaxEntries
  BY <1>1, EmptySeq DEF LogsTyped
<1>3. entries[l] \in [1..Len(entries[l]) -> Commitment]
  BY <1>1, LenProperties
<1>4. Len(entries[l]) \in 1..MaxTree
  BY <1>2, BoundAssumption
<1> QED
  BY <1>3, <1>4 DEF AnyEntries

LEMMA HeadTyped ==
  ASSUME NEW s \in AnyEntries, NEW log_id \in Log, NEW operator \in Log, NEW at \in Time
  PROVE  HeadOf(s, log_id, operator, at) \in SignedTreeHead
<1>1. Len(s) \in Nat
  BY EntriesAreSeqs
<1>2. Mth(Leaves(s)) \in Root
  BY DEF Root
<1> QED
  BY <1>1, <1>2 DEF HeadOf, Signed, CanonicalBytes, SignedTreeHead

\* Whether a head is the root of a prefix of its log, as signed by its operator.
IsPrefixHead(sth, l) ==
  /\ sth.signature = <<l, HeadBytes(sth)>>
  /\ sth.log_id = l
  /\ sth.tree_size \in 1..Len(entries[l])
  /\ sth.root = RootAtSize(entries[l], sth.tree_size)

LEMMA HonestMeans ==
  HonestHeads <=> \A sth \in heads : \A l \in Honest : sth.signature[1] = l => IsPrefixHead(sth, l)
BY DEF HonestHeads, IsPrefixHead

LEMMA HeadOfIsPrefix ==
  ASSUME LogsTyped, NEW l \in Log, entries[l] # <<>>, NEW at
  PROVE  IsPrefixHead(HeadOf(entries[l], l, l, at), l)
<1> DEFINE sth == HeadOf(entries[l], l, l, at)
<1>1. entries[l] \in Seq(Commitment)
  BY DEF LogsTyped
<1>2. Len(entries[l]) \in Nat \ {0}
  BY <1>1, EmptySeq
<1>3. SubSeq(entries[l], 1, Len(entries[l])) = entries[l]
  BY <1>1, SubSeqFull
<1>4. /\ sth.log_id = l
      /\ sth.tree_size = Len(entries[l])
      /\ sth.timestamp = at
      /\ sth.root = Mth(Leaves(entries[l]))
      /\ sth.signature = <<l, CanonicalBytes(l, Len(entries[l]), at, Mth(Leaves(entries[l])))>>
  BY DEF HeadOf, Signed
<1> HIDE DEF sth
<1>5. sth.signature = <<l, HeadBytes(sth)>>
  BY <1>4 DEF HeadBytes
<1>6. sth.root = RootAtSize(entries[l], sth.tree_size)
  BY <1>3, <1>4 DEF RootAtSize
<1> QED
  BY <1>2, <1>4, <1>5, <1>6 DEF IsPrefixHead, sth

\* Appending changes the root of no size the log had.
LEMMA PrefixStays ==
  ASSUME NEW s \in Seq(Commitment), NEW c \in Commitment, NEW n \in 1..Len(s)
  PROVE  RootAtSize(Append(s, c), n) = RootAtSize(s, n)
<1> DEFINE t == Append(s, c)
<1>1. Len(s) \in Nat /\ n \in Nat
  BY LenProperties
<1>2. t \in Seq(Commitment) /\ \A i \in 1..Len(s) : t[i] = s[i]
  BY AppendProperties
<1>3. \A i \in 1..n : s[i] \in Commitment /\ t[i] = s[i]
  BY <1>1, <1>2, ElementOfSeq
<1> HIDE DEF t
<1>4. /\ SubSeq(s, 1, n) \in Seq(Commitment)
      /\ Len(SubSeq(s, 1, n)) = n
      /\ \A i \in 1..n : SubSeq(s, 1, n)[i] = s[i]
  <2>1. \A i \in 1..n : s[i] \in Commitment
    BY <1>3
  <2> QED
    BY <1>1, <2>1, SubSeqProperties
<1>5. /\ SubSeq(t, 1, n) \in Seq(Commitment)
      /\ Len(SubSeq(t, 1, n)) = n
      /\ \A i \in 1..n : SubSeq(t, 1, n)[i] = t[i]
  <2>1. \A i \in 1..n : t[i] \in Commitment
    BY <1>3
  <2> QED
    BY <1>1, <2>1, SubSeqProperties
<1>6. SubSeq(t, 1, n) = SubSeq(s, 1, n)
  BY <1>3, <1>4, <1>5, SeqEqual
<1> QED
  BY <1>6 DEF RootAtSize, t

-----------------------------------------------------------------------------
(* Steps *)

LEMMA AppendInv ==
  ASSUME IInv, NEW l \in Log, NEW c \in Commitment, AppendEntry(l, c)
  PROVE  IInv'
<1>1. /\ entries' = [entries EXCEPT ![l] = Append(entries[l], c)]
      /\ l \in Honest /\ Len(entries[l]) < MaxEntries
      /\ UNCHANGED <<heads, pinned, receipts, master, seq_by_log>>
  BY DEF AppendEntry
<1>2. /\ entries \in [Log -> Seq(Commitment)]
      /\ entries[l] \in Seq(Commitment) /\ Len(entries[l]) \in Nat
  BY LenProperties DEF IInv, LogsTyped
<1>3. /\ Append(entries[l], c) \in Seq(Commitment)
      /\ Len(Append(entries[l], c)) = Len(entries[l]) + 1
  BY <1>2, AppendProperties
<1>4. /\ entries' \in [Log -> Seq(Commitment)]
      /\ entries'[l] = Append(entries[l], c)
      /\ \A o \in Log \ {l} : entries'[o] = entries[o]
  BY <1>1, <1>2, <1>3
<1>5. LogsTyped'
  <2>1. \A o \in Log : Len(entries'[o]) <= MaxEntries
    BY <1>1, <1>2, <1>3, <1>4, BoundAssumption DEF IInv, LogsTyped
  <2>2. \A o \in FaultyLog : entries'[o] = <<>>
    BY <1>1, <1>4, LogAssumption DEF IInv, LogsTyped, Honest
  <2> QED
    BY <1>4, <2>1, <2>2 DEF LogsTyped
<1>6. ASSUME NEW sth \in heads, NEW o \in Honest, sth.signature[1] = o
      PROVE  IsPrefixHead(sth, o)'
  <2>1. IsPrefixHead(sth, o)
    BY <1>6, HonestMeans DEF IInv
  <2>2. CASE o = l
    <3>1. RootAtSize(entries'[l], sth.tree_size) = RootAtSize(entries[l], sth.tree_size)
      BY <1>2, <1>4, <2>1, <2>2, PrefixStays DEF IsPrefixHead
    <3>2. sth.tree_size \in 1..Len(entries'[l])
      BY <1>2, <1>3, <1>4, <2>1, <2>2 DEF IsPrefixHead
    <3> QED
      BY <2>1, <2>2, <3>1, <3>2 DEF IsPrefixHead
  <2>3. CASE o # l
    BY <1>4, <2>1, <2>3 DEF IsPrefixHead, Honest
  <2> QED
    BY <2>2, <2>3
<1>7. HonestHeads'
  BY <1>1, <1>6 DEF HonestHeads, IsPrefixHead
<1>8. MasterTyped' /\ ReceiptsTyped'
  BY <1>1 DEF IInv, MasterTyped, ReceiptsTyped, IndexCoversMaster
<1> QED
  BY <1>1, <1>5, <1>7, <1>8 DEF IInv

\* Heads are signed: by an operator that keeps to its log, or by a faulty one.
LEMMA SignInv ==
  ASSUME IInv, NEW sth \in SignedTreeHead, heads' = heads \cup {sth},
         \A l \in Honest : sth.signature[1] = l => IsPrefixHead(sth, l),
         UNCHANGED <<entries, pinned, receipts, master, seq_by_log>>
  PROVE  IInv'
<1>1. HonestHeads'
  <2> SUFFICES ASSUME NEW x \in heads', NEW l \in Honest, x.signature[1] = l
               PROVE  IsPrefixHead(x, l)'
    BY DEF HonestHeads, IsPrefixHead
  <2>1. IsPrefixHead(x, l)
    <3>1. CASE x \in heads
      BY <3>1, HonestMeans DEF IInv
    <3>2. CASE x = sth
      BY <3>2
    <3> QED
      BY <3>1, <3>2
  <2> QED
    BY <2>1 DEF IsPrefixHead
<1>2. LogsTyped' /\ MasterTyped' /\ ReceiptsTyped'
  BY DEF IInv, LogsTyped, MasterTyped, ReceiptsTyped, IndexCoversMaster
<1> QED
  BY <1>1, <1>2 DEF IInv

LEMMA SignHeadInv ==
  ASSUME IInv, NEW l \in Log, NEW at \in Time, SignTreeHead(l, at)
  PROVE  IInv'
<1> DEFINE sth == HeadOf(entries[l], l, l, at)
<1>1. entries[l] # <<>> /\ LogsTyped
  BY DEF SignTreeHead, IInv
<1>2. sth \in SignedTreeHead
  BY <1>1, LogsAreEntries, HeadTyped
<1>3. IsPrefixHead(sth, l)
  BY <1>1, HeadOfIsPrefix
<1>4. sth.signature[1] = l
  BY <1>3 DEF IsPrefixHead
<1>5. /\ heads' = heads \cup {sth}
      /\ UNCHANGED <<entries, pinned, receipts, master, seq_by_log>>
  BY DEF SignTreeHead
<1> HIDE DEF sth
<1> QED
  BY <1>2, <1>3, <1>4, <1>5, SignInv

LEMMA SignRewrittenInv ==
  ASSUME IInv, NEW l \in Log, NEW log_id \in Log, NEW history \in History, NEW at \in Time,
         SignRewritten(l, log_id, history, at)
  PROVE  IInv'
<1> DEFINE sth == HeadOf(history, log_id, l, at)
<1>1. sth \in SignedTreeHead
  BY HistoryAssumption, HeadTyped
<1>2. sth.signature[1] = l /\ l \in FaultyLog
  BY DEF HeadOf, Signed, SignRewritten
<1>3. /\ heads' = heads \cup {sth}
      /\ UNCHANGED <<entries, pinned, receipts, master, seq_by_log>>
  BY DEF SignRewritten
<1>4. \A o \in Honest : sth.signature[1] # o
  BY <1>2 DEF Honest
<1> HIDE DEF sth
<1> QED
  BY <1>1, <1>3, <1>4, SignInv

LEMMA AnchorInv ==
  ASSUME IInv, NEW sth \in heads, NEW method \in Method, AnchorExternally(sth, method)
  PROVE  IInv'
<1> DEFINE anchored == [sth EXCEPT !.external_anchor = ExternalAnchorPayload(sth, method)]
<1>1. sth \in SignedTreeHead
  BY DEF IInv
<1>2. HeadBytes(sth) \in Log \X Nat \X Time \X Root
  BY <1>1 DEF SignedTreeHead, HeadBytes, CanonicalBytes
<1>3. anchored \in SignedTreeHead
  BY <1>1, <1>2 DEF SignedTreeHead, ExternalAnchorPayload, Anchor
<1>4. /\ anchored.signature = sth.signature /\ anchored.log_id = sth.log_id
      /\ anchored.tree_size = sth.tree_size /\ anchored.root = sth.root
      /\ anchored.timestamp = sth.timestamp
  BY <1>1 DEF SignedTreeHead
<1>5. /\ heads' = (heads \ {sth}) \cup {anchored}
      /\ UNCHANGED <<entries, pinned, receipts, master, seq_by_log>>
  BY DEF AnchorExternally
<1> HIDE DEF anchored
<1>6. HonestHeads'
  <2> SUFFICES ASSUME NEW x \in heads', NEW l \in Honest, x.signature[1] = l
               PROVE  IsPrefixHead(x, l)'
    BY DEF HonestHeads, IsPrefixHead
  <2>1. IsPrefixHead(x, l)
    <3>1. CASE x \in heads
      BY <3>1, HonestMeans DEF IInv
    <3>2. CASE x = anchored
      <4>1. IsPrefixHead(sth, l)
        BY <1>4, <3>2, HonestMeans DEF IInv
      <4> QED
        BY <1>4, <3>2, <4>1 DEF IsPrefixHead, HeadBytes
    <3> QED
      BY <1>5, <3>1, <3>2
  <2> QED
    BY <1>5, <2>1 DEF IsPrefixHead
<1>7. LogsTyped' /\ MasterTyped' /\ ReceiptsTyped'
  BY <1>5 DEF IInv, LogsTyped, MasterTyped, ReceiptsTyped, IndexCoversMaster
<1> QED
  BY <1>3, <1>5, <1>6, <1>7 DEF IInv

LEMMA ServeInv ==
  ASSUME IInv, NEW l \in Log, NEW seq \in 0..(MaxEntries - 1), NEW at \in Time,
         ServeReceipt(l, seq, at)
  PROVE  IInv'
<1>1. /\ receipts' = receipts \cup {ReceiptOf(l, seq, at)}
      /\ UNCHANGED <<entries, heads, pinned, master, seq_by_log>>
  BY DEF ServeReceipt
<1>2. ReceiptOf(l, seq, at).log_id = l
      /\ ReceiptOf(l, seq, at).spine_digest = entries[l][seq + 1]
  BY DEF ReceiptOf
<1>3. entries[l][seq + 1] \in Commitment
  <2>1. entries[l] \in Seq(Commitment) /\ seq \in Nat /\ seq < Len(entries[l])
    BY BoundAssumption DEF IInv, LogsTyped, ServeReceipt
  <2>2. seq + 1 \in 1..Len(entries[l])
    BY <2>1, LenProperties
  <2> QED
    BY <2>1, <2>2, ElementOfSeq
<1>4. ReceiptsTyped'
  BY <1>1, <1>2, <1>3 DEF IInv, ReceiptsTyped
<1>5. LogsTyped' /\ MasterTyped' /\ HonestHeads'
  BY <1>1 DEF IInv, LogsTyped, MasterTyped, IndexCoversMaster, HonestHeads
<1> QED
  BY <1>1, <1>4, <1>5 DEF IInv

LEMMA ShownTyped ==
  ASSUME heads \subseteq SignedTreeHead, NEW sth \in heads, NEW shown \in Shown(sth)
  PROVE  shown \in SignedTreeHead
BY DEF Shown, SignedTreeHead

LEMMA PinInv ==
  ASSUME IInv, NEW sth \in heads, NEW shown \in Shown(sth), Pin(shown)
  PROVE  IInv'
<1>1. shown \in SignedTreeHead
  BY ShownTyped DEF IInv
<1>2. /\ pinned' = [pinned EXCEPT ![shown.log_id] = shown]
      /\ UNCHANGED <<entries, heads, receipts, master, seq_by_log>>
  BY DEF Pin
<1>3. pinned' \in [Log -> {None} \cup SignedTreeHead]
  BY <1>1, <1>2 DEF IInv
<1>4. LogsTyped' /\ MasterTyped' /\ HonestHeads' /\ ReceiptsTyped'
  BY <1>2 DEF IInv, LogsTyped, MasterTyped, IndexCoversMaster, HonestHeads, ReceiptsTyped
<1> QED
  BY <1>2, <1>3, <1>4 DEF IInv

\* The master log takes a leaf at its end, and the index of its log that place.
LEMMA WitnessInv ==
  ASSUME IInv, NEW sth \in heads, AppendWitnessSth(sth)
  PROVE  IInv'
<1> DEFINE L == sth.log_id
           leaf == LolCommitment(sth)
           n == Len(master)
<1>1. /\ master' = Append(master, leaf)
      /\ seq_by_log' = [seq_by_log EXCEPT ![L] = Append(seq_by_log[L], n)]
      /\ UNCHANGED <<entries, heads, pinned, receipts>>
  BY DEF AppendWitnessSth
<1>2. L \in Log /\ leaf \in {"witness"} \X Log \X Nat \X Root /\ leaf[2] = L
  BY DEF IInv, SignedTreeHead, LolCommitment
<1>3. /\ master \in Seq({"witness"} \X Log \X Nat \X Root)
      /\ n \in Nat
      /\ DOMAIN master = 1..n
      /\ seq_by_log \in [Log -> Seq(Nat)]
      /\ IndexCoversMaster
  BY LenProperties DEF IInv, MasterTyped
<1> HIDE DEF L, leaf
<1>4. /\ master' \in Seq({"witness"} \X Log \X Nat \X Root)
      /\ Len(master') = n + 1
      /\ \A m \in 1..n : master'[m] = master[m]
      /\ master'[n + 1] = leaf
  BY <1>1, <1>2, <1>3, AppendProperties
<1>5. DOMAIN master' = 1..(n + 1)
  BY <1>3, <1>4, LenProperties
<1> DEFINE s == seq_by_log[L]
           t == Append(s, n)
<1>6. s \in Seq(Nat)
  BY <1>2, <1>3
<1>7. /\ t \in Seq(Nat) /\ Len(t) = Len(s) + 1
      /\ \A i \in 1..Len(s) : t[i] = s[i]
      /\ t[Len(s) + 1] = n
  BY <1>3, <1>6, AppendProperties
<1>8. Len(s) \in Nat /\ DOMAIN s = 1..Len(s) /\ DOMAIN t = 1..(Len(s) + 1)
  BY <1>6, <1>7, LenProperties
<1>9. /\ seq_by_log' \in [Log -> Seq(Nat)]
      /\ seq_by_log'[L] = t
      /\ \A o \in Log \ {L} : seq_by_log'[o] = seq_by_log[o]
  BY <1>1, <1>2, <1>3, <1>7
<1>N. n \in Nat /\ DOMAIN master = 1..n /\ DOMAIN master' = 1..(n + 1)
  BY <1>3, <1>5
<1>M. master'[n + 1] = leaf /\ \A m \in 1..n : master'[m] = master[m]
  BY <1>4
<1> HIDE DEF n, t
<1>10. ASSUME NEW o \in Log, NEW i \in DOMAIN seq_by_log[o]
       PROVE  /\ seq_by_log[o][i] \in Nat /\ seq_by_log[o][i] < n
              /\ seq_by_log[o][i] + 1 \in 1..n
              /\ master[seq_by_log[o][i] + 1][2] = o
              /\ \A j \in 1..(i - 1) : seq_by_log[o][j] < seq_by_log[o][i]
  <2>1. seq_by_log[o] \in Seq(Nat)
    BY <1>3
  <2>2. seq_by_log[o][i] \in Nat
    BY <2>1, LenProperties, ElementOfSeq
  <2>3. /\ seq_by_log[o][i] + 1 \in 1..n
        /\ master[seq_by_log[o][i] + 1][2] = o
        /\ \A j \in 1..(i - 1) : seq_by_log[o][j] < seq_by_log[o][i]
    BY <1>3 DEF IndexCoversMaster
  <2> QED
    BY <1>N, <2>2, <2>3
<1>11. ASSUME NEW o \in Log, NEW i \in DOMAIN seq_by_log'[o]
       PROVE  /\ seq_by_log'[o][i] + 1 \in DOMAIN master'
              /\ master'[seq_by_log'[o][i] + 1][2] = o
              /\ \A j \in 1..(i - 1) : seq_by_log'[o][j] < seq_by_log'[o][i]
  <2>1. CASE o # L
    <3>1. seq_by_log'[o] = seq_by_log[o] /\ i \in DOMAIN seq_by_log[o]
      BY <1>9, <2>1
    <3> QED
      BY <1>N, <1>M, <1>10, <3>1
  <2>2. CASE o = L /\ i \in DOMAIN s
    <3>1. seq_by_log'[o][i] = seq_by_log[o][i] /\ i \in 1..Len(s)
      BY <1>7, <1>8, <1>9, <2>2
    <3>2. \A j \in 1..(i - 1) : seq_by_log'[o][j] = seq_by_log[o][j]
      BY <1>7, <1>8, <1>9, <2>2
    <3> QED
      BY <1>N, <1>M, <1>10, <2>2, <3>1, <3>2
  <2>3. CASE o = L /\ i = Len(s) + 1
    <3>1. seq_by_log'[o][i] = n
      BY <1>7, <1>9, <2>3
    <3>2. ASSUME NEW j \in 1..(i - 1) PROVE seq_by_log'[o][j] < n
      <4>1. j \in DOMAIN s /\ seq_by_log'[o][j] = s[j]
        BY <1>7, <1>8, <1>9, <2>3
      <4> QED
        BY <1>2, <1>10, <4>1
    <3> QED
      BY <1>2, <1>3, <1>4, <1>5, <2>3, <3>1, <3>2
  <2> QED
    BY <1>8, <1>9, <2>1, <2>2, <2>3
<1>12. ASSUME NEW m \in DOMAIN master'
       PROVE  \E i \in DOMAIN seq_by_log'[master'[m][2]] :
                seq_by_log'[master'[m][2]][i] = m - 1
  <2>1. CASE m = n + 1
    <3>1. master'[m][2] = L /\ seq_by_log'[L] = t
      BY <1>2, <1>M, <1>9, <2>1
    <3>2. Len(s) + 1 \in DOMAIN t /\ t[Len(s) + 1] = m - 1
      BY <1>N, <1>7, <1>8, <2>1
    <3> QED
      BY <3>1, <3>2
  <2>2. CASE m \in 1..n
    <3>1. master'[m] = master[m] /\ m \in DOMAIN master
      BY <1>3, <1>4, <2>2
    <3>2. PICK i \in DOMAIN seq_by_log[master[m][2]] : seq_by_log[master[m][2]][i] = m - 1
      BY <1>3, <3>1 DEF IndexCoversMaster
    <3>3. master[m][2] \in Log
      <4>1. master[m] \in {"witness"} \X Log \X Nat \X Root
        BY <1>3, <2>2, ElementOfSeq DEF n
      <4> QED
        BY <4>1
    <3>4. CASE master[m][2] = L
      <4>1. i \in DOMAIN s /\ s[i] = m - 1
        BY <3>2, <3>4
      <4>2. i \in DOMAIN t /\ t[i] = m - 1
        BY <1>7, <1>8, <4>1
      <4> QED
        BY <1>9, <3>1, <3>4, <4>2
    <3>5. CASE master[m][2] # L
      BY <1>9, <3>1, <3>2, <3>3, <3>5
    <3> QED
      BY <3>4, <3>5
  <2> QED
    BY <1>3, <1>5, <2>1, <2>2
<1>13. MasterTyped'
  BY <1>4, <1>9, <1>11, <1>12 DEF MasterTyped, IndexCoversMaster
<1>14. LogsTyped' /\ HonestHeads' /\ ReceiptsTyped'
  BY <1>1 DEF IInv, LogsTyped, HonestHeads, ReceiptsTyped
<1> QED
  BY <1>1, <1>13, <1>14 DEF IInv

LEMMA StepInv == ASSUME IInv, [Next]_vars PROVE IInv'
<1>1. ASSUME NEW l \in Log, NEW c \in Commitment, AppendEntry(l, c) PROVE IInv'
  BY <1>1, AppendInv
<1>2. ASSUME NEW l \in Log, NEW at \in Time, SignTreeHead(l, at) PROVE IInv'
  BY <1>2, SignHeadInv
<1>3. ASSUME NEW l \in Log, NEW log_id \in Log, NEW history \in History, NEW at \in Time,
             SignRewritten(l, log_id, history, at)
      PROVE  IInv'
  BY <1>3, SignRewrittenInv
<1>4. ASSUME NEW sth \in heads, NEW method \in Method, AnchorExternally(sth, method) PROVE IInv'
  BY <1>4, AnchorInv
<1>5. ASSUME NEW l \in Log, NEW seq \in 0..(MaxEntries - 1), NEW at \in Time,
             ServeReceipt(l, seq, at)
      PROVE  IInv'
  BY <1>5, ServeInv
<1>6. ASSUME NEW sth \in heads, NEW shown \in Shown(sth), Pin(shown) PROVE IInv'
  BY <1>6, PinInv
<1>7. ASSUME NEW sth \in heads, AppendWitnessSth(sth) PROVE IInv'
  BY <1>7, WitnessInv
<1>8. CASE UNCHANGED vars
  BY <1>8 DEF vars, IInv, LogsTyped, MasterTyped, IndexCoversMaster, HonestHeads, ReceiptsTyped
<1> QED
  BY <1>1, <1>2, <1>3, <1>4, <1>5, <1>6, <1>7, <1>8 DEF Next

LEMMA Invariance == Spec => []IInv
<1>1. IInv /\ [Next]_vars => IInv'
  BY StepInv
<1> QED
  BY InitInv, <1>1, PTL DEF Spec

\* Whatever is logged, signed, shown and anchored, the index of the master log
\* covers its leaves, each under the log it is of and in its order.
THEOREM TypeCorrect == Spec => []TypeOK
<1>1. IInv => TypeOK
  BY InvTyped
<1> QED
  BY Invariance, <1>1, PTL

\* However long it goes on appending and however its heads are anchored outside,
\* every head of a log that only appends is the root of a prefix of what it has.
THEOREM HeadsStand == Spec => []HonestHeads
<1>1. IInv => HonestHeads
  BY DEF IInv
<1> QED
  BY Invariance, <1>1, PTL

-----------------------------------------------------------------------------
(* The roots of a log *)

\* The root of a log's prefix is that of a slice of its leaves.
LEMMA PrefixIsSlice ==
  ASSUME NEW E, NEW es \in Seq(E), NEW n \in 1..Len(es)
  PROVE  RootAtSize(es, n) = Slice(Leaves(es), 0, n)
<1> DEFINE H == {LeafHash(e) : e \in E}
           prefix == SubSeq(es, 1, n)
           leaves == Leaves(es)
<1>1. Len(es) \in Nat /\ n \in Nat /\ n <= Len(es)
  BY LenProperties
<1>2. /\ prefix \in Seq(E) /\ Len(prefix) = n
      /\ \A i \in 1..n : prefix[i] = es[i]
  <2>1. \A i \in 1..n : es[i] \in E
    BY <1>1, ElementOfSeq
  <2> QED
    BY <1>1, <2>1, SubSeqProperties
<1>3. /\ leaves \in Seq(H) /\ Len(leaves) = Len(es)
      /\ \A i \in 1..Len(es) : leaves[i] = LeafHash(es[i])
  BY LeavesAreHashes
<1> HIDE DEF prefix, leaves, H
<1>4. /\ Leaves(prefix) \in Seq(H) /\ Len(Leaves(prefix)) = n
      /\ \A i \in 1..n : Leaves(prefix)[i] = LeafHash(prefix[i])
  BY <1>2, LeavesAreHashes DEF H
<1>5. /\ SubSeq(leaves, 1, n) \in Seq(H) /\ Len(SubSeq(leaves, 1, n)) = n
      /\ \A i \in 1..n : SubSeq(leaves, 1, n)[i] = leaves[i]
  <2>1. \A i \in 1..n : leaves[i] \in H
    BY <1>1, <1>3, ElementOfSeq
  <2> QED
    BY <1>1, <2>1, SubSeqProperties
<1>6. Leaves(prefix) = SubSeq(leaves, 1, n)
  <2>1. \A i \in 1..n : Leaves(prefix)[i] = SubSeq(leaves, 1, n)[i]
    BY <1>1, <1>2, <1>3, <1>4, <1>5
  <2> QED
    BY <1>4, <1>5, <2>1, SeqEqual
<1>7. 0 + 1 = 1 /\ 0 + n = n
  BY <1>1
<1>8. Slice(leaves, 0, n) = Mth(SubSeq(leaves, 1, n))
  BY <1>7 DEF Slice
<1> QED
  BY <1>6, <1>8 DEF RootAtSize, prefix, leaves

\* The proofs that a log generates of an entry and of a size it had verify.
LEMMA LogProofsVerify ==
  ASSUME NEW E, NEW es \in Seq(E), NEW m \in 1..Len(es)
  PROVE  /\ VerifyConsistency(m, RootAtSize(es, m), Len(Leaves(es)), Mth(Leaves(es)),
                              ConsistencyProof(Leaves(es), m))
         /\ VerifyInclusion(es[m], InclusionProof(Leaves(es), m - 1), Mth(Leaves(es)))
         /\ Len(InclusionProof(Leaves(es), m - 1).path) \in Nat
<1> DEFINE H == {LeafHash(e) : e \in E}
           leaves == Leaves(es)
<1>1. /\ leaves \in Seq(H) /\ Len(leaves) = Len(es) /\ Len(es) \in Nat
      /\ leaves[m] = LeafHash(es[m])
  BY LeavesAreHashes, LenProperties
<1>2. m \in 1..Len(leaves) /\ m - 1 \in 0..(Len(leaves) - 1) /\ (m - 1) + 1 = m
  BY <1>1
<1>3. RootAtSize(es, m) = Slice(leaves, 0, m)
  BY PrefixIsSlice
<1> HIDE DEF leaves, H
<1>4. VerifyConsistency(m, Slice(leaves, 0, m), Len(leaves), Mth(leaves),
                        ConsistencyProof(leaves, m))
  BY <1>1, <1>2, ConsistencyVerifies
<1>5. leaves[(m - 1) + 1] = LeafHash(es[m])
  BY <1>1, <1>2
<1>6. /\ InclusionProof(leaves, m - 1).path \in Seq(Siblings(leaves))
      /\ VerifyInclusion(es[m], InclusionProof(leaves, m - 1), Mth(leaves))
  BY <1>1, <1>2, <1>5, InclusionVerifies
<1>7. Len(InclusionProof(leaves, m - 1).path) \in Nat
  BY <1>6, LenProperties
<1> QED
  BY <1>3, <1>4, <1>6, <1>7 DEF leaves

-----------------------------------------------------------------------------
(* What heads, pins and receipts stand for *)

HasTree(size, root) == \E s \in AnyEntries : Len(s) = size /\ Mth(Leaves(s)) = root

\* Every anchor commits to its head.
AnchorsCommit ==
  \A h \in heads : h.external_anchor # None => VerifyExternalAnchor(h.external_anchor, h)

\* Every operator, faulty or not, signs the tree of some entries.
TreesSigned == \A h \in heads : HasTree(h.signature[2][2], h.signature[2][4])

\* What is pinned is such a tree, and that of a prefix if the log only appends.
PinnedStands ==
  \A l \in Log : pinned[l] # None =>
    /\ pinned[l].log_id = l
    /\ HasTree(pinned[l].tree_size, pinned[l].root)
    /\ l \in Honest => /\ pinned[l].tree_size \in 1..Len(entries[l])
                       /\ pinned[l].root = RootAtSize(entries[l], pinned[l].tree_size)

\* A receipt of a log that only appends verifies and tells an entry it has.
ReceiptStands(receipt) ==
  receipt.log_id \in Honest =>
    /\ ReceiptVerifies(receipt, receipt.log_id)
    /\ receipt.seq + 1 \in DOMAIN entries[receipt.log_id]
    /\ entries[receipt.log_id][receipt.seq + 1] = receipt.spine_digest

StandInv ==
  /\ AnchorsCommit
  /\ TreesSigned
  /\ PinnedStands
  /\ \A receipt \in receipts : ReceiptStands(receipt)

LEMMA InitStand == Init => StandInv
BY DEF Init, StandInv, AnchorsCommit, TreesSigned, PinnedStands

\* Appending keeps what a log has.
LEMMA AppendKeeps ==
  ASSUME IInv, NEW l \in Log, NEW c \in Commitment, AppendEntry(l, c), NEW o \in Log
  PROVE  /\ DOMAIN entries[o] = 1..Len(entries[o]) /\ Len(entries[o]) \in Nat
         /\ DOMAIN entries'[o] = 1..Len(entries'[o]) /\ Len(entries'[o]) \in Nat
         /\ Len(entries[o]) <= Len(entries'[o])
         /\ \A i \in 1..Len(entries[o]) : /\ entries'[o][i] = entries[o][i]
                                          /\ RootAtSize(entries'[o], i) = RootAtSize(entries[o], i)
<1>1. /\ entries' = [entries EXCEPT ![l] = Append(entries[l], c)]
      /\ entries \in [Log -> Seq(Commitment)]
  BY DEF AppendEntry, IInv, LogsTyped
<1>2. CASE o = l
  <2>1. entries'[o] = Append(entries[o], c) /\ entries[o] \in Seq(Commitment)
    BY <1>1, <1>2
  <2>2. /\ Append(entries[o], c) \in Seq(Commitment)
        /\ Len(Append(entries[o], c)) = Len(entries[o]) + 1
        /\ \A i \in 1..Len(entries[o]) : Append(entries[o], c)[i] = entries[o][i]
    BY <2>1, AppendProperties
  <2>3. \A i \in 1..Len(entries[o]) :
          RootAtSize(Append(entries[o], c), i) = RootAtSize(entries[o], i)
    BY <2>1, PrefixStays
  <2> QED
    BY <2>1, <2>2, <2>3, LenProperties
<1>3. CASE o # l
  <2>1. entries'[o] = entries[o] /\ entries[o] \in Seq(Commitment)
    BY <1>1, <1>3
  <2> QED
    BY <2>1, LenProperties
<1> QED
  BY <1>2, <1>3

LEMMA AppendStand ==
  ASSUME IInv, StandInv, NEW l \in Log, NEW c \in Commitment, AppendEntry(l, c)
  PROVE  StandInv'
<1>1. UNCHANGED <<heads, pinned, receipts>>
  BY DEF AppendEntry
<1>2. AnchorsCommit' /\ TreesSigned'
  BY <1>1 DEF StandInv, AnchorsCommit, TreesSigned
<1>3. PinnedStands'
  <2> SUFFICES ASSUME NEW o \in Log, pinned[o] # None
               PROVE  /\ pinned[o].log_id = o
                      /\ HasTree(pinned[o].tree_size, pinned[o].root)
                      /\ o \in Honest =>
                           /\ pinned[o].tree_size \in 1..Len(entries'[o])
                           /\ pinned[o].root = RootAtSize(entries'[o], pinned[o].tree_size)
    BY <1>1 DEF PinnedStands
  <2> QED
    BY AppendKeeps DEF StandInv, PinnedStands
<1>4. ASSUME NEW receipt \in receipts PROVE ReceiptStands(receipt)'
  <2>1. receipt.log_id \in Log /\ ReceiptStands(receipt)
    BY DEF StandInv, IInv, ReceiptsTyped
  <2> QED
    BY <2>1, AppendKeeps DEF ReceiptStands
<1> QED
  BY <1>1, <1>2, <1>3, <1>4 DEF StandInv

\* Whoever signs the tree of some entries.
LEMMA SignStand ==
  ASSUME StandInv, NEW s \in AnyEntries, NEW log_id, NEW operator, NEW at,
         heads' = heads \cup {HeadOf(s, log_id, operator, at)},
         UNCHANGED <<entries, pinned, receipts>>
  PROVE  StandInv'
<1> DEFINE sth == HeadOf(s, log_id, operator, at)
<1>1. /\ sth.external_anchor = None
      /\ sth.signature[2][2] = Len(s) /\ sth.signature[2][4] = Mth(Leaves(s))
  BY DEF HeadOf, Signed, CanonicalBytes
<1>2. HasTree(Len(s), Mth(Leaves(s)))
  BY DEF HasTree
<1> HIDE DEF sth
<1>3. heads' = heads \cup {sth}
  BY DEF sth
<1>4. AnchorsCommit' /\ TreesSigned'
  BY <1>1, <1>2, <1>3 DEF StandInv, AnchorsCommit, TreesSigned
<1> QED
  BY <1>4 DEF StandInv, PinnedStands, ReceiptStands

LEMMA AnchorStand ==
  ASSUME IInv, StandInv, NEW sth \in heads, NEW method, AnchorExternally(sth, method)
  PROVE  StandInv'
<1> DEFINE anchored == [sth EXCEPT !.external_anchor = ExternalAnchorPayload(sth, method)]
<1>1. sth \in SignedTreeHead
  BY DEF IInv
<1>2. /\ anchored.signature = sth.signature
      /\ HeadBytes(anchored) = HeadBytes(sth)
      /\ anchored.external_anchor = ExternalAnchorPayload(sth, method)
  BY <1>1 DEF SignedTreeHead, HeadBytes
<1>3. /\ heads' = (heads \ {sth}) \cup {anchored}
      /\ UNCHANGED <<entries, pinned, receipts>>
  BY DEF AnchorExternally
<1> HIDE DEF anchored
<1>4. VerifyExternalAnchor(anchored.external_anchor, anchored)
  BY <1>2 DEF VerifyExternalAnchor, ExternalAnchorPayload
<1>5. HasTree(anchored.signature[2][2], anchored.signature[2][4])
  BY <1>2 DEF StandInv, TreesSigned
<1>6. AnchorsCommit' /\ TreesSigned'
  BY <1>3, <1>4, <1>5 DEF StandInv, AnchorsCommit, TreesSigned
<1> QED
  BY <1>3, <1>6 DEF StandInv, PinnedStands, ReceiptStands

LEMMA ServeStand ==
  ASSUME IInv, StandInv, NEW l \in Log, NEW seq \in 0..(MaxEntries - 1), NEW at,
         ServeReceipt(l, seq, at)
  PROVE  StandInv'
<1> DEFINE receipt == ReceiptOf(l, seq, at)
           m == seq + 1
<1>1. /\ receipts' = receipts \cup {receipt}
      /\ UNCHANGED <<entries, heads, pinned>>
      /\ seq < Len(entries[l])
  BY DEF ServeReceipt
<1>2. entries[l] \in Seq(Commitment) /\ Len(entries[l]) \in Nat /\ seq \in Nat
  BY BoundAssumption, LenProperties DEF IInv, LogsTyped
<1>3. m \in 1..Len(entries[l]) /\ m - 1 = seq /\ DOMAIN entries[l] = 1..Len(entries[l])
  BY <1>1, <1>2, LenProperties
<1>4. VerifyInclusion(entries[l][m], InclusionProof(Leaves(entries[l]), seq),
                      Mth(Leaves(entries[l])))
  BY <1>2, <1>3, LogProofsVerify
<1>5. /\ receipt.log_id = l /\ receipt.seq = seq /\ receipt.spine_digest = entries[l][m]
      /\ receipt.proof = InclusionProof(Leaves(entries[l]), seq)
      /\ receipt.head = HeadOf(entries[l], l, l, at)
  BY DEF ReceiptOf
<1> HIDE DEF receipt
<1>6. HeadVerifies(receipt.head, l) /\ receipt.head.root = Mth(Leaves(entries[l]))
  BY <1>5 DEF HeadVerifies, HeadOf, Signed, HeadBytes
<1>7. ReceiptStands(receipt)
  BY <1>3, <1>4, <1>5, <1>6 DEF ReceiptStands, ReceiptVerifies
<1> QED
  BY <1>1, <1>7 DEF StandInv, AnchorsCommit, TreesSigned, PinnedStands, ReceiptStands

\* A head that verifies, whatever it is shown with, is the tree its operator signed.
LEMMA ShownHasTree ==
  ASSUME IInv, StandInv, NEW h \in heads, NEW sth \in Shown(h), NEW l, HeadVerifies(sth, l)
  PROVE  HasTree(sth.tree_size, sth.root)
<1>1. h \in SignedTreeHead
  BY DEF IInv
<1>2. sth.signature = h.signature
  BY <1>1 DEF Shown, SignedTreeHead
<1>3. sth.signature = <<l, HeadBytes(sth)>>
  BY DEF HeadVerifies
<1>4. h.signature[2][2] = sth.tree_size /\ h.signature[2][4] = sth.root
  BY <1>2, <1>3 DEF HeadBytes, CanonicalBytes
<1> QED
  BY <1>4 DEF StandInv, TreesSigned

\* Of a log that only appends, it is the tree of a prefix.
LEMMA ShownIsPrefix ==
  ASSUME IInv, NEW h \in heads, NEW sth \in Shown(h), NEW l \in Honest,
         sth.log_id = l, HeadVerifies(sth, l)
  PROVE  /\ sth.tree_size \in 1..Len(entries[l])
         /\ sth.root = RootAtSize(entries[l], sth.tree_size)
<1>1. h \in SignedTreeHead
  BY DEF IInv
<1>2. sth.signature = h.signature
  BY <1>1 DEF Shown, SignedTreeHead
<1>3. sth.signature = <<l, HeadBytes(sth)>>
  BY DEF HeadVerifies
<1>4. h.signature[1] = l
  BY <1>2, <1>3
<1>5. IsPrefixHead(h, l)
  BY <1>4, HonestMeans DEF IInv
<1>6. HeadBytes(h) = HeadBytes(sth)
  <2>1. h.signature = <<l, HeadBytes(h)>>
    BY <1>5 DEF IsPrefixHead
  <2>2. <<l, HeadBytes(h)>> = <<l, HeadBytes(sth)>>
    BY <1>2, <1>3, <2>1
  <2> QED
    BY <2>2
<1>7. h.tree_size = sth.tree_size /\ h.root = sth.root
  BY <1>6 DEF HeadBytes, CanonicalBytes
<1> QED
  BY <1>5, <1>7 DEF IsPrefixHead

LEMMA PinStand ==
  ASSUME IInv, StandInv, NEW h \in heads, NEW sth \in Shown(h), Pin(sth)
  PROVE  StandInv'
<1> DEFINE l == sth.log_id
<1>1. l \in Log
  BY ShownTyped DEF IInv, SignedTreeHead
<1>2. /\ pinned' = [pinned EXCEPT ![l] = sth]
      /\ UNCHANGED <<entries, heads, receipts>>
      /\ HeadVerifies(sth, l)
  BY DEF Pin
<1>3. /\ HasTree(sth.tree_size, sth.root)
      /\ l \in Honest => /\ sth.tree_size \in 1..Len(entries[l])
                         /\ sth.root = RootAtSize(entries[l], sth.tree_size)
  BY <1>2, ShownHasTree, ShownIsPrefix
<1>4. pinned'[l] = sth /\ \A o \in Log \ {l} : pinned'[o] = pinned[o]
  BY <1>1, <1>2 DEF IInv
<1>5. PinnedStands'
  <2> SUFFICES ASSUME NEW o \in Log, pinned'[o] # None
               PROVE  /\ pinned'[o].log_id = o
                      /\ HasTree(pinned'[o].tree_size, pinned'[o].root)
                      /\ o \in Honest =>
                           /\ pinned'[o].tree_size \in 1..Len(entries[o])
                           /\ pinned'[o].root = RootAtSize(entries[o], pinned'[o].tree_size)
    BY <1>2 DEF PinnedStands
  <2>1. CASE o = l
    BY <1>3, <1>4, <2>1
  <2>2. CASE o # l
    BY <1>4, <2>2 DEF StandInv, PinnedStands
  <2> QED
    BY <2>1, <2>2
<1> QED
  BY <1>2, <1>5 DEF StandInv, AnchorsCommit, TreesSigned, ReceiptStands

LEMMA StepStand == ASSUME IInv, StandInv, [Next]_vars PROVE StandInv'
<1>1. ASSUME NEW l \in Log, NEW c \in Commitment, AppendEntry(l, c) PROVE StandInv'
  BY <1>1, AppendStand
<1>2. ASSUME NEW l \in Log, NEW at \in Time, SignTreeHead(l, at) PROVE StandInv'
  <2>1. entries[l] \in AnyEntries
    BY <1>2, LogsAreEntries DEF SignTreeHead, IInv
  <2> QED
    BY <1>2, <2>1, SignStand DEF SignTreeHead
<1>3. ASSUME NEW l \in Log, NEW log_id \in Log, NEW history \in History, NEW at \in Time,
             SignRewritten(l, log_id, history, at)
      PROVE  StandInv'
  <2>1. history \in AnyEntries
    BY HistoryAssumption
  <2> QED
    BY <1>3, <2>1, SignStand DEF SignRewritten
<1>4. ASSUME NEW sth \in heads, NEW method \in Method, AnchorExternally(sth, method)
      PROVE  StandInv'
  BY <1>4, AnchorStand
<1>5. ASSUME NEW l \in Log, NEW seq \in 0..(MaxEntries - 1), NEW at \in Time,
             ServeReceipt(l, seq, at)
      PROVE  StandInv'
  BY <1>5, ServeStand
<1>6. ASSUME NEW sth \in heads, NEW shown \in Shown(sth), Pin(shown) PROVE StandInv'
  BY <1>6, PinStand
<1>7. ASSUME UNCHANGED <<entries, heads, pinned, receipts>> PROVE StandInv'
  BY <1>7 DEF StandInv, AnchorsCommit, TreesSigned, PinnedStands, ReceiptStands
<1>8. ASSUME NEW sth \in heads, AppendWitnessSth(sth) PROVE StandInv'
  BY <1>7, <1>8 DEF AppendWitnessSth
<1>9. CASE UNCHANGED vars
  BY <1>7, <1>9 DEF vars
<1> QED
  BY <1>1, <1>2, <1>3, <1>4, <1>5, <1>6, <1>8, <1>9 DEF Next

LEMMA Standing == Spec => []StandInv
<1>1. IInv /\ StandInv /\ [Next]_vars => StandInv'
  BY StepStand
<1> QED
  BY Invariance, InitStand, <1>1, PTL DEF Spec

-----------------------------------------------------------------------------
(* Logs that only append *)

\* The last leaf a log has in the master log is the one its index ends with.
LEMMA LastWitness ==
  ASSUME IInv, NEW l \in Log, seq_by_log[l] # <<>>,
         NEW i, i = seq_by_log[l][Len(seq_by_log[l])] + 1
  PROVE  /\ i \in 1..Len(master)
         /\ master[i][2] = l
         /\ \A j \in (i + 1)..Len(master) : master[j][2] # l
<1> DEFINE last == Len(seq_by_log[l])
<1>1. /\ IndexCoversMaster
      /\ seq_by_log[l] \in Seq(Nat)
      /\ DOMAIN master = 1..Len(master) /\ Len(master) \in Nat
  BY LenProperties DEF IInv, MasterTyped
<1>2. last \in Nat \ {0} /\ DOMAIN seq_by_log[l] = 1..last
  BY <1>1, EmptySeq, LenProperties
<1>3. \A k \in 1..last : seq_by_log[l][k] \in Nat
  BY <1>1, <1>2, ElementOfSeq
<1> HIDE DEF last
<1>4. i = seq_by_log[l][last] + 1 /\ last \in DOMAIN seq_by_log[l]
  BY <1>2 DEF last
<1>5. i \in 1..Len(master) /\ master[i][2] = l
  BY <1>1, <1>4 DEF IndexCoversMaster
<1>6. ASSUME NEW j \in (i + 1)..Len(master), master[j][2] = l PROVE FALSE
  <2>1. j \in DOMAIN master /\ j > i /\ j \in Nat /\ i \in Nat
    BY <1>1, <1>5
  <2>2. PICK k \in 1..last : seq_by_log[l][k] = j - 1
    BY <1>1, <1>2, <1>6, <2>1 DEF IndexCoversMaster
  <2>3. seq_by_log[l][k] > seq_by_log[l][last]
    <3>1. seq_by_log[l][last] \in Nat
      BY <1>2, <1>3, <1>4
    <3> QED
      BY <1>4, <2>1, <2>2, <3>1
  <2>4. k # last => seq_by_log[l][k] < seq_by_log[l][last]
    BY <1>1, <1>2, <1>4, <2>2 DEF IndexCoversMaster
  <2> QED
    BY <1>2, <1>3, <2>2, <2>3, <2>4
<1> QED
  BY <1>5, <1>6

LEMMA NeverAccused == ASSUME IInv, StandInv PROVE HonestLogIsNeverAccused
<1>1. ASSUME NEW l \in Honest
      PROVE  \E leaves \in {Leaves(entries[l])} : \E root \in {Mth(leaves)} :
               /\ \A m \in DOMAIN leaves :
                    /\ VerifyConsistency(m, RootAtSize(entries[l], m), Len(leaves), root,
                                         ConsistencyProof(leaves, m))
                    /\ VerifyInclusion(entries[l][m], InclusionProof(leaves, m - 1), root)
               /\ \A sth \in {h \in heads : h.signature[1] = l} :
                    /\ HeadVerifies(sth, sth.log_id)
                    /\ sth.root = RootAtSize(entries[l], sth.tree_size)
                    /\ sth.external_anchor # None => VerifyExternalAnchor(sth.external_anchor, sth)
  <2> DEFINE leaves == Leaves(entries[l])
  <2>1. entries[l] \in Seq(Commitment)
    BY DEF IInv, LogsTyped, Honest
  <2>2. DOMAIN leaves = 1..Len(entries[l])
    BY <2>1, LeavesAreHashes, LenProperties
  <2>3. ASSUME NEW m \in DOMAIN leaves
        PROVE  /\ VerifyConsistency(m, RootAtSize(entries[l], m), Len(leaves), Mth(leaves),
                                    ConsistencyProof(leaves, m))
               /\ VerifyInclusion(entries[l][m], InclusionProof(leaves, m - 1), Mth(leaves))
    BY <2>1, <2>2, LogProofsVerify
  <2>4. ASSUME NEW sth \in heads, sth.signature[1] = l
        PROVE  /\ HeadVerifies(sth, sth.log_id)
               /\ sth.root = RootAtSize(entries[l], sth.tree_size)
               /\ sth.external_anchor # None => VerifyExternalAnchor(sth.external_anchor, sth)
    BY <2>4 DEF IInv, HonestHeads, HeadVerifies, StandInv, AnchorsCommit
  <2> HIDE DEF leaves
  <2> QED
    BY <2>3, <2>4 DEF leaves
<1>2. ASSUME NEW l \in Log, seq_by_log[l] # <<>>
      PROVE  \E i \in DOMAIN master :
               /\ master[i][2] = l
               /\ \A j \in (i + 1)..Len(master) : master[j][2] # l
               /\ VerifyInclusion(master[i], WitnessProof(l), MasterRoot)
  <2> DEFINE last == seq_by_log[l][Len(seq_by_log[l])]
             i == last + 1
  <2>1. /\ i \in 1..Len(master)
        /\ master[i][2] = l
        /\ \A j \in (i + 1)..Len(master) : master[j][2] # l
    BY <1>2, LastWitness
  <2>2. master \in Seq({"witness"} \X Log \X Nat \X Root) /\ DOMAIN master = 1..Len(master)
    BY LenProperties DEF IInv, MasterTyped
  <2>3. VerifyInclusion(master[i], InclusionProof(Leaves(master), i - 1), Mth(Leaves(master)))
    BY <2>1, <2>2, LogProofsVerify
  <2>4. last = i - 1
    <3>1. seq_by_log[l] \in Seq(Nat)
      BY DEF IInv, MasterTyped
    <3>2. last \in Nat
      BY <1>2, <3>1, EmptySeq, LenProperties, ElementOfSeq
    <3> QED
      BY <3>2
  <2>5. VerifyInclusion(master[i], WitnessProof(l), MasterRoot)
    BY <2>3, <2>4 DEF WitnessProof, MasterRoot
  <2> QED
    BY <2>1, <2>2, <2>5
<1> QED
  BY <1>1, <1>2 DEF HonestLogIsNeverAccused

\* A log that only appends is never accused: every head it signed verifies and is
\* the root of its prefix, every proof it generates verifies, and the last head a
\* log anchored in the master log can be proved there.
THEOREM HonestStandsUnaccused == Spec => []HonestLogIsNeverAccused
<1>1. IInv /\ StandInv => HonestLogIsNeverAccused
  BY NeverAccused
<1> QED
  BY Invariance, Standing, <1>1, PTL

-----------------------------------------------------------------------------
(* Inclusion *)

\* Whatever part of its path a proof is shown with, the path has a length.
LEMMA ShownTypedPath ==
  ASSUME IInv, NEW proof \in ShownProofs
  PROVE  Len(proof.path) \in Nat
<1>0. PICK l \in Log : \E m \in DOMAIN entries[l] :
        proof \in Shortened(InclusionProof(Leaves(entries[l]), m - 1))
  BY DEF ShownProofs
<1>1. PICK m \in DOMAIN entries[l] :
        proof \in Shortened(InclusionProof(Leaves(entries[l]), m - 1))
  BY <1>0
<1> DEFINE whole == InclusionProof(Leaves(entries[l]), m - 1)
<1>2. entries[l] \in Seq(Commitment) /\ m \in 1..Len(entries[l])
  BY LenProperties DEF IInv, LogsTyped
<1>3. whole.path \in Seq(Siblings(Leaves(entries[l])))
  <2> DEFINE H == {LeafHash(e) : e \in Commitment}
  <2>1. /\ Leaves(entries[l]) \in Seq(H) /\ Len(Leaves(entries[l])) = Len(entries[l])
        /\ Len(entries[l]) \in Nat
        /\ Leaves(entries[l])[m] = LeafHash(entries[l][m])
    BY <1>2, LeavesAreHashes, LenProperties
  <2>2. m - 1 \in 0..(Len(Leaves(entries[l])) - 1) /\ (m - 1) + 1 = m
    BY <1>2, <2>1
  <2> HIDE DEF H
  <2>3. Leaves(entries[l])[(m - 1) + 1] = LeafHash(entries[l][m])
    BY <2>1, <2>2
  <2> QED
    BY <2>1, <2>2, <2>3, InclusionVerifies
<1>4. PICK n \in 1..(Len(whole.path) + 1) :
        proof = [whole EXCEPT !.path = SubSeq(whole.path, n, Len(whole.path))]
  BY <1>1 DEF Shortened
<1>5. proof.path = SubSeq(whole.path, n, Len(whole.path))
  BY <1>4 DEF InclusionProof
<1> HIDE DEF whole
<1>6. Len(whole.path) \in Nat /\ n \in Nat
  BY <1>3, LenProperties
<1>7. \A i \in n..Len(whole.path) : whole.path[i] \in Siblings(Leaves(entries[l]))
  BY <1>3, <1>6, ElementOfSeq
<1>8. proof.path \in Seq(Siblings(Leaves(entries[l])))
  BY <1>3, <1>5, <1>6, <1>7, SubSeqProperties
<1> QED
  BY <1>8, LenProperties

\* What verifies under the root of a prefix is one of its entries.
LEMMA PrefixHasIt ==
  ASSUME NEW E, NEW es \in Seq(E), NEW n \in 1..Len(es), NEW entry, NEW proof,
         Len(proof.path) \in Nat, VerifyInclusion(entry, proof, RootAtSize(es, n))
  PROVE  \E i \in 1..n : es[i] = entry
<1> DEFINE prefix == SubSeq(es, 1, n)
<1>1. Len(es) \in Nat /\ n \in Nat /\ n # 0 /\ n <= Len(es)
  BY LenProperties
<1>2. /\ prefix \in Seq(E) /\ Len(prefix) = n
      /\ \A i \in 1..n : prefix[i] = es[i]
  <2>1. \A i \in 1..n : es[i] \in E
    BY <1>1, ElementOfSeq
  <2> QED
    BY <1>1, <2>1, SubSeqProperties
<1>3. VerifyInclusion(entry, proof, Mth(Leaves(prefix)))
  BY DEF RootAtSize
<1> HIDE DEF prefix
<1>4. \E i \in 1..Len(prefix) : prefix[i] = entry
  BY <1>1, <1>2, <1>3, IncludedIsLogged
<1> QED
  BY <1>2, <1>4

LEMMA InclusionHolds == ASSUME IInv, StandInv PROVE InclusionMeansAnchored
<1>1. ASSUME NEW l \in Honest, pinned[l] # None, NEW c,
             NEW proof \in ShownProofs, VerifyInclusion(c, proof, pinned[l].root)
      PROVE  \E i \in 1..pinned[l].tree_size : entries[l][i] = c
  <2>1. /\ pinned[l].tree_size \in 1..Len(entries[l])
        /\ pinned[l].root = RootAtSize(entries[l], pinned[l].tree_size)
    BY <1>1 DEF StandInv, PinnedStands, Honest
  <2>2. entries[l] \in Seq(Commitment)
    BY DEF IInv, LogsTyped, Honest
  <2>3. Len(proof.path) \in Nat
    BY ShownTypedPath
  <2> QED
    BY <1>1, <2>1, <2>2, <2>3, PrefixHasIt
<1>2. \A receipt \in receipts : receipt.log_id \in Honest =>
        /\ ReceiptVerifies(receipt, receipt.log_id)
        /\ receipt.seq + 1 \in DOMAIN entries[receipt.log_id]
        /\ entries[receipt.log_id][receipt.seq + 1] = receipt.spine_digest
  BY DEF StandInv, ReceiptStands
<1> QED
  BY <1>1, <1>2 DEF InclusionMeansAnchored

\* What is proved under the pinned head of a log that only appends is an entry it
\* has, whatever proofs are shown; a receipt such a log served verifies, and its
\* spine is still the entry it says.
THEOREM IncludedIsAnchored == Spec => []InclusionMeansAnchored
<1>1. IInv /\ StandInv => InclusionMeansAnchored
  BY InclusionHolds
<1> QED
  BY Invariance, Standing, <1>1, PTL

-----------------------------------------------------------------------------
(* Consistency *)

LEMMA PinFollows ==
  ASSUME IInv, StandInv, NEW h \in heads, NEW sth \in Shown(h), Pin(sth), NEW l \in Log,
         pinned[l] # None, pinned'[l] # pinned[l]
  PROVE  \E s \in AnyEntries :
           /\ Len(s) = pinned'[l].tree_size
           /\ Mth(Leaves(s)) = pinned'[l].root
           /\ pinned[l].tree_size \in DOMAIN s
           /\ RootAtSize(s, pinned[l].tree_size) = pinned[l].root
<1>1. /\ pinned' = [pinned EXCEPT ![sth.log_id] = sth]
      /\ HeadVerifies(sth, sth.log_id)
      /\ pinned[sth.log_id] # None => Follows(pinned[sth.log_id], sth)
  BY DEF Pin
<1>2. l = sth.log_id /\ pinned'[l] = sth
  BY <1>1 DEF IInv
<1>3. PICK s \in AnyEntries : Len(s) = sth.tree_size /\ Mth(Leaves(s)) = sth.root
  BY <1>1, ShownHasTree DEF HasTree
<1>4. PICK t \in AnyEntries : Len(t) = pinned[l].tree_size
  BY DEF StandInv, PinnedStands, HasTree
<1>5. PICK proof :
        VerifyConsistency(pinned[l].tree_size, pinned[l].root, sth.tree_size, sth.root, proof)
  BY <1>1, <1>2 DEF Follows
<1> DEFINE m == pinned[l].tree_size
           leaves == Leaves(s)
           H == {LeafHash(e) : e \in Commitment}
<1>6. s \in Seq(Commitment) /\ Len(s) \in Nat /\ DOMAIN s = 1..Len(s) /\ m \in Nat \ {0}
  BY <1>4, EntriesAreSeqs, LenProperties
<1>7. leaves \in Seq(H) /\ Len(leaves) = Len(s)
  BY <1>6, LeavesAreHashes
<1>8. m <= sth.tree_size
  BY <1>5 DEF VerifyConsistency
<1>9. m \in 1..Len(s)
  BY <1>3, <1>6, <1>8
<1> HIDE DEF leaves, H
<1>10. VerifyConsistency(m, pinned[l].root, Len(leaves), Mth(leaves), proof)
  BY <1>3, <1>5, <1>7 DEF leaves
<1> HIDE DEF m
<1>11. pinned[l].root = Slice(leaves, 0, m)
  BY <1>7, <1>9, <1>10, ConsistentIsPrefix
<1>12. RootAtSize(s, m) = Slice(leaves, 0, m)
  BY <1>6, <1>9, PrefixIsSlice DEF leaves
<1> QED
  BY <1>2, <1>3, <1>6, <1>9, <1>11, <1>12 DEF m

\* Whatever an operator rewrites and signs, what a verifier pins never forks: the
\* next pinned head is the root of entries that begin with entries whose root
\* was pinned.
THEOREM PinsNeverFork == Spec => PinnedHistoryNeverForks
<1> DEFINE NoFork ==
      \A l \in Log :
        pinned[l] # None /\ pinned'[l] # pinned[l] =>
          \E s \in AnyEntries :
            /\ Len(s) = pinned'[l].tree_size
            /\ Mth(Leaves(s)) = pinned'[l].root
            /\ pinned[l].tree_size \in DOMAIN s
            /\ RootAtSize(s, pinned[l].tree_size) = pinned[l].root
<1>1. ASSUME IInv, StandInv, [Next]_vars PROVE [NoFork]_vars
  <2>1. CASE UNCHANGED pinned
    BY <2>1
  <2>2. CASE \E sth \in heads : \E shown \in Shown(sth) : Pin(shown)
    BY <1>1, <2>2, PinFollows
  <2>3. UNCHANGED pinned \/ \E sth \in heads : \E shown \in Shown(sth) : Pin(shown)
    BY <1>1 DEF Next, vars, AppendEntry, SignTreeHead, SignRewritten, AnchorExternally,
                ServeReceipt, AppendWitnessSth
  <2> QED
    BY <2>1, <2>2, <2>3
<1> QED
  BY Invariance, Standing, <1>1, PTL DEF Spec, PinnedHistoryNeverForks

-----------------------------------------------------------------------------
(* The witness quorum *)

\* Logs that are good or faulty are as many as a quorum only if the good ones are
\* what the faulty ones leave of it.
LEMMA GoodAreLeft ==
  ASSUME NEW logs, NEW good, good \subseteq Log, logs \subseteq good \cup FaultyLog,
         NEW m \in Nat, Cardinality(logs) >= m
  PROVE  Cardinality(good) >= m - Cardinality(FaultyLog)
<1>1. IsFiniteSet(good) /\ IsFiniteSet(FaultyLog)
  BY LogAssumption, FS_Subset
<1>2. /\ IsFiniteSet(good \cup FaultyLog)
      /\ Cardinality(good \cup FaultyLog)
           = Cardinality(good) + Cardinality(FaultyLog) - Cardinality(good \cap FaultyLog)
  BY <1>1, FS_Union
<1>3. Cardinality(logs) <= Cardinality(good \cup FaultyLog) /\ IsFiniteSet(logs)
  BY <1>2, FS_Subset
<1>4. IsFiniteSet(good \cap FaultyLog)
  BY <1>1, FS_Intersection
<1>5. /\ Cardinality(logs) \in Nat /\ Cardinality(good) \in Nat
      /\ Cardinality(FaultyLog) \in Nat /\ Cardinality(good \cap FaultyLog) \in Nat
      /\ Cardinality(good \cup FaultyLog) \in Nat
  BY <1>1, <1>2, <1>3, <1>4, FS_CardinalityType
<1> QED
  BY <1>2, <1>3, <1>5

\* The logs that only append of which an item shows a tree they really had.
HonestWitnesses(items) ==
  {l \in Honest : \E item \in items : /\ item.sth.log_id = l
                                     /\ item.sth.root = RootAtSize(entries[l], item.sth.tree_size)}

\* A quorum that is accepted, from heads each shown with the key of its log.
QuorumStands ==
  \A items, root : \A m \in Nat :
    /\ \A item \in items : /\ item.sth \in UNION {Shown(h) : h \in heads}
                           /\ item.operator = item.sth.log_id
    /\ VerifyMasterQuorum(root, items, m)
    => Cardinality(HonestWitnesses(items)) >= m - Cardinality(FaultyLog)

LEMMA QuorumHolds == ASSUME IInv PROVE QuorumStands
<1> SUFFICES ASSUME NEW items, NEW root, NEW m \in Nat,
                    \A item \in items : /\ item.sth \in UNION {Shown(h) : h \in heads}
                                        /\ item.operator = item.sth.log_id,
                    VerifyMasterQuorum(root, items, m)
             PROVE  Cardinality(HonestWitnesses(items)) >= m - Cardinality(FaultyLog)
  BY DEF QuorumStands
<1> DEFINE logs == {item.sth.log_id : item \in items}
           good == HonestWitnesses(items)
<1>1. logs \subseteq good \cup FaultyLog
  <2> SUFFICES ASSUME NEW item \in items, item.sth.log_id \notin FaultyLog
               PROVE  item.sth.log_id \in good
    OBVIOUS
  <2>1. PICK h \in heads : item.sth \in Shown(h)
    OBVIOUS
  <2>2. item.sth.log_id \in Honest
    BY <2>1, ShownTyped DEF IInv, SignedTreeHead, Honest
  <2>3. HeadVerifies(item.sth, item.sth.log_id)
    BY DEF VerifyMasterQuorum, ItemVerifies
  <2>4. item.sth.root = RootAtSize(entries[item.sth.log_id], item.sth.tree_size)
    BY <2>1, <2>2, <2>3, ShownIsPrefix
  <2> QED
    BY <2>2, <2>4 DEF HonestWitnesses
<1>2. Cardinality(logs) >= m
  BY DEF VerifyMasterQuorum
<1>3. good \subseteq Log
  BY DEF HonestWitnesses, Honest
<1> HIDE DEF logs, good
<1>4. Cardinality(good) >= m - Cardinality(FaultyLog)
  BY <1>1, <1>2, <1>3, GoodAreLeft
<1> QED
  BY <1>4 DEF good

\* Whatever the fields of the heads are mixed to and whatever the root, a quorum
\* that a verifier accepts holds as many logs that only append as the faulty ones
\* leave of it, each with a tree it really had.
THEOREM QuorumIsHonest == Spec => []QuorumStands
<1>1. IInv => QuorumStands
  BY QuorumHolds
<1> QED
  BY Invariance, <1>1, PTL

\* The leaf of a head that verifies under the master root is in the master log.
LEMMA ItemIsAnchored ==
  ASSUME IInv, NEW item, NEW n \in DOMAIN master,
         item.proof = InclusionProof(Leaves(master), n - 1), ItemVerifies(item, MasterRoot)
  PROVE  \E k \in DOMAIN master : master[k] = LolCommitment(item.sth)
<1> DEFINE M == {"witness"} \X Log \X Nat \X Root
<1>1. /\ master \in Seq(M) /\ Len(master) \in Nat /\ DOMAIN master = 1..Len(master)
  BY LenProperties DEF IInv, MasterTyped
<1> HIDE DEF M
<1>2. Len(master) # 0 /\ n \in 1..Len(master)
  BY <1>1
<1>3. Len(item.proof.path) \in Nat
  BY <1>1, <1>2, LogProofsVerify
<1>4. VerifyInclusion(LolCommitment(item.sth), item.proof, Mth(Leaves(master)))
  BY DEF ItemVerifies, MasterRoot
<1>5. \E k \in 1..Len(master) : master[k] = LolCommitment(item.sth)
  BY <1>1, <1>2, <1>3, <1>4, IncludedIsLogged
<1> QED
  BY <1>1, <1>5

LEMMA AnchoredQuorumHolds == ASSUME IInv, StandInv PROVE QuorumHasHonestWitnesses
<1> DEFINE items == {[sth |-> sth, operator |-> sth.log_id,
                      proof |-> InclusionProof(Leaves(master), n - 1)] :
                       sth \in UNION {Shown(h) : h \in heads}, n \in DOMAIN master}
           Good(chosen) ==
             {l \in Honest : \E item \in chosen :
                /\ item.sth.log_id = l
                /\ item.sth.root = RootAtSize(entries[l], item.sth.tree_size)
                /\ \E n \in DOMAIN master : master[n] = LolCommitment(item.sth)}
<1>1. ASSUME NEW chosen \in SUBSET items, VerifyMasterQuorum(MasterRoot, chosen, Quorum)
      PROVE  Cardinality(Good(chosen)) >= Quorum - Cardinality(FaultyLog)
  <2> DEFINE logs == {item.sth.log_id : item \in chosen}
             good == Good(chosen)
  <2>1. \A item \in chosen : ItemVerifies(item, MasterRoot)
    BY <1>1 DEF VerifyMasterQuorum
  <2>2. Cardinality(logs) >= Quorum
    BY <1>1 DEF VerifyMasterQuorum
  <2>3. ASSUME NEW item \in chosen, item.sth.log_id \notin FaultyLog
        PROVE  item.sth.log_id \in good
    <3>1. PICK sth \in UNION {Shown(h) : h \in heads}, n \in DOMAIN master :
            item = [sth |-> sth, operator |-> sth.log_id,
                    proof |-> InclusionProof(Leaves(master), n - 1)]
      OBVIOUS
    <3>2. PICK h \in heads : sth \in Shown(h)
      OBVIOUS
    <3>3. /\ item.sth = sth /\ item.operator = sth.log_id
          /\ item.proof = InclusionProof(Leaves(master), n - 1)
      BY <3>1
    <3> HIDE DEF items
    <3>4. sth.log_id \in Honest
      BY <2>3, <3>2, <3>3, ShownTyped DEF IInv, SignedTreeHead, Honest
    <3>5. HeadVerifies(sth, sth.log_id)
      BY <2>1, <3>3 DEF ItemVerifies
    <3>6. sth.root = RootAtSize(entries[sth.log_id], sth.tree_size)
      BY <3>2, <3>4, <3>5, ShownIsPrefix
    <3>7. \E k \in DOMAIN master : master[k] = LolCommitment(item.sth)
      BY <2>1, <3>3, ItemIsAnchored
    <3> QED
      BY <3>3, <3>4, <3>6, <3>7
  <2>4. logs \subseteq good \cup FaultyLog
    BY <2>3
  <2>5. good \subseteq Log
    BY DEF Honest
  <2> HIDE DEF logs, good
  <2>6. Cardinality(good) >= Quorum - Cardinality(FaultyLog)
    BY <2>2, <2>4, <2>5, LogAssumption, GoodAreLeft
  <2> QED
    BY <2>6 DEF good
<1> QED
  BY <1>1 DEF QuorumHasHonestWitnesses

\* A quorum of the master list that a verifier accepts, from heads each shown with
\* the key of its log, holds at least as many logs that only append as the faulty
\* ones leave of it, each anchored with a tree it really had.
THEOREM QuorumIsAnchored == Spec => []QuorumHasHonestWitnesses
<1>1. IInv /\ StandInv => QuorumHasHonestWitnesses
  BY AnchoredQuorumHolds
<1> QED
  BY Invariance, Standing, <1>1, PTL

=============================================================================
