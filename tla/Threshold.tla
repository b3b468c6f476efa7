----------------------------- MODULE Threshold -----------------------------
(***************************************************************************)
(* The threshold signature of threshold.rs, over the scalars modulo a      *)
(* prime Q.  A point is written as the scalar that the base point is       *)
(* multiplied by: what the code compares are points, and it never divides  *)
(* by the base.  challenge is the hash of the nonce point, the group key   *)
(* and the message; the last two are fixed, so it is a function of the     *)
(* first.                                                                  *)
(***************************************************************************)
EXTENDS Integers, Sequences, FiniteSets, FiniteSetsExt

CONSTANT Q

Scalar == 0..(Q - 1)

Invert(x) == CHOOSE y \in Scalar : (x * y) % Q = 1

\* Sums and products of the values of f over the positions of a sequence.
SumOver(S, f(_)) == MapThenSumSet(f, S) % Q

Times(x, y) == (x * y) % Q

\* lagrange_zero: the coefficient of index at 0, over the list of signers.
LagrangeZero(index, signers) ==
  LET factor(k) == Times(signers[k], Invert((signers[k] - index) % Q))
  IN MapThenFoldSet(Times, 1, factor, LAMBDA T : CHOOSE k \in T : TRUE,
                    {k \in DOMAIN signers : signers[k] # index})

\* The commitments, or the coefficients, evaluated at an index.
Evaluate(coefficients, index) ==
  SumOver(DOMAIN coefficients, LAMBDA j : coefficients[j] * index ^ (j - 1))

\* generate, refused for a degenerate quorum.
MayGenerate(threshold, members) == threshold \in 1..members

Generate(coefficients, members) ==
  [threshold |-> Len(coefficients), members |-> members,
   group_public |-> coefficients[1], commitments |-> coefficients]

Share(coefficients, index) == Evaluate(coefficients, index)

\* verify_share.
VerifyShare(group, index, share) ==
  /\ index \in 1..group.members
  /\ Len(group.commitments) = group.threshold
  /\ share = Evaluate(group.commitments, index)

\* sign_partial: over the nonce points that the member was shown, as many as the
\* threshold or more, its own among them.
MaySign(group, index, nonce_points) ==
  /\ Len(nonce_points) >= group.threshold
  /\ \E k \in DOMAIN nonce_points : nonce_points[k].index = index

SignPartial(group, index, share, nonce, nonce_points, challenge) ==
  LET signers == [k \in DOMAIN nonce_points |-> nonce_points[k].index]
      r == SumOver(DOMAIN nonce_points, LAMBDA k : nonce_points[k].point)
  IN [index |-> index, nonce |-> nonce,
      partial |-> (nonce + challenge[r] * LagrangeZero(index, signers) * share) % Q]

Signers(partials) == [k \in DOMAIN partials |-> partials[k].index]

\* A partial is right for the partials it is combined with.
PartialHolds(group, partials, k, challenge) ==
  LET r == SumOver(DOMAIN partials, LAMBDA j : partials[j].nonce)
      p == partials[k]
  IN p.partial = (p.nonce + challenge[r] * LagrangeZero(p.index, Signers(partials))
                              * Evaluate(group.commitments, p.index)) % Q

\* combine: refused for another number than the threshold and for a member that
\* contributes twice; else the first partial that is not right is the culprit's.
MayCombine(group, partials) ==
  /\ Len(partials) = group.threshold
  /\ \A j, k \in DOMAIN partials : partials[j].index = partials[k].index => j = k

Culprits(group, partials, challenge) ==
  {partials[k].index : k \in {k \in DOMAIN partials :
     /\ ~PartialHolds(group, partials, k, challenge)
     /\ \A j \in 1..(k - 1) : PartialHolds(group, partials, j, challenge)}}

Combined(partials) ==
  [r |-> SumOver(DOMAIN partials, LAMBDA k : partials[k].nonce),
   s |-> SumOver(DOMAIN partials, LAMBDA k : partials[k].partial),
   signers |-> {partials[k].index : k \in DOMAIN partials}]

\* verify.
SignatureVerifies(group, signature, challenge) ==
  /\ Cardinality(signature.signers) = group.threshold
  /\ (signature.s - challenge[signature.r] * group.group_public) % Q = signature.r

=============================================================================
