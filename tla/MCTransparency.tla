--------------------------- MODULE MCTransparency ---------------------------
(* A log that only appends and a faulty one, whose tree grows to the size    *)
(* where a prefix ends inside the right half, and the master log of both.    *)
EXTENDS Transparency

CONSTANTS kept, faulty, f1, s1, spine

a == SaltedCommitment(f1, s1)
b == SpineDigest(spine)

\* A history that grows, one that is cut short and one that forks where the old
\* tree ends inside the right half of the new one.
Histories == {<<a>>, <<a, b, a>>, <<a, b, a, b>>, <<a, b, b, b>>}

\* What the proofs of a log claim holds at every size up to nine, with leaves that
\* are all different.
Distinct(n) == [i \in 1..n |-> LeafHash(i)]

ASSUME ProofsVerify ==
  \A n \in 1..9 : \A m \in 0..n :
    /\ VerifyConsistency(m, Slice(Distinct(n), 0, m), n, Mth(Distinct(n)),
                         ConsistencyProof(Distinct(n), m))
    /\ m < n => VerifyInclusion(m + 1, InclusionProof(Distinct(n), m), Mth(Distinct(n)))

=============================================================================
