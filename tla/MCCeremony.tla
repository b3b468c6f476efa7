----------------------------- MODULE MCCeremony -----------------------------
(***************************************************************************)
(* Instances of Ceremony for TLC.  Nodes 1 to 3 are directors and node 4   *)
(* sits on another quorum; member orders differ from the sorted order on   *)
(* purpose.                                                                *)
(***************************************************************************)
EXTENDS Ceremony

TwoOfThree == [quorum_id |-> "root", threshold |-> 2, members |-> <<2, 1, 3>>]

\* Two specs that create_session must refuse.
Degenerate == [quorum_id |-> "root", threshold |-> 3, members |-> <<1, 2>>]
Duplicated == [quorum_id |-> "root", threshold |-> 1, members |-> <<1, 1>>]

\* Specs that share an id and differ in threshold, or in members.
OneOfOne == [quorum_id |-> "root", threshold |-> 1, members |-> <<2>>]
OneOfTwo == [quorum_id |-> "root", threshold |-> 1, members |-> <<1, 2>>]
TwoOfTwo == [quorum_id |-> "root", threshold |-> 2, members |-> <<2, 1>>]

\* A quorum with an id of its own, in which an outsider of the first sits.
WithOutsider == [quorum_id |-> "leaf", threshold |-> 2, members |-> <<3, 1, 4>>]

TwoQuorums == {TwoOfThree, WithOutsider, Degenerate, Duplicated}
ReusedId == {OneOfOne, OneOfTwo, TwoOfTwo}
OneQuorum == {TwoOfThree}

\* The members of a quorum are interchangeable only as far as their order
\* does not matter; it does (it names the culprit), so no symmetry is used.

-----------------------------------------------------------------------------
(* What Ceremony takes for granted of the group's arithmetic, over the       *)
(* scalars modulo 5: for every polynomial of a quorum of two of three, in    *)
(* every order of the two signers, for their nonces and some challenges.     *)
F == INSTANCE Threshold WITH Q <- 5

Polynomials == {<<a, b>> : a, b \in F!Scalar}

Orders == {<<i, j>> : i, j \in 1..3} \ {<<i, i>> : i \in 1..3}

Challenges == {[r \in F!Scalar |-> (a * r + b) % 5] : a, b \in 1..2}

\* What two members contribute, each shown the nonce points of the list.
Contributed(f, order, shown, nonces, h) ==
  [k \in 1..2 |->
     F!SignPartial(F!Generate(f, 3), order[k], F!Share(f, order[k]), nonces[k],
                   [l \in DOMAIN shown |-> [index |-> shown[l], point |-> nonces[l]]], h)]

\* A share is right when it is the one that was dealt.
ASSUME SharesVerify ==
  \A f \in Polynomials, i \in 0..4, share \in F!Scalar :
    F!VerifyShare(F!Generate(f, 3), i, share) <=> i \in 1..3 /\ share = F!Share(f, i)

\* Members that were shown each other's nonces combine to a signature that the
\* group key verifies, and no other scalar does; a partial that is changed is the
\* culprit's, the first when both are.
ASSUME PartialsCombine ==
  \A f \in Polynomials, order \in Orders, h \in Challenges, n \in {<<0, 3>>, <<2, 4>>} :
    LET group == F!Generate(f, 3)
        partials == Contributed(f, order, order, n, h)
        signature == F!Combined(partials)
    IN /\ F!MayCombine(group, partials)
       /\ F!Culprits(group, partials, h) = {}
       /\ \A s \in F!Scalar :
            F!SignatureVerifies(group, [signature EXCEPT !.s = s], h) <=> s = signature.s
       /\ \A k \in 1..2, d \in 1..4 :
            LET changed == [partials EXCEPT ![k].partial = (@ + d) % 5]
            IN F!Culprits(group, changed, h) = {order[k]}
       /\ F!Culprits(group, [partials EXCEPT ![1].partial = (@ + 1) % 5,
                                             ![2].partial = (@ + 1) % 5], h) = {order[1]}

\* A member is honest and a culprit: the nonces of all three were shown, as
\* sign_partial allows, and combine takes two.
ASSUME WiderListIsBlamed ==
  \E f \in Polynomials, h \in Challenges :
    LET order == <<1, 2>>
        shown == <<1, 2, 3>>
        nonces == <<2, 4, 1>>
    IN /\ F!MaySign(F!Generate(f, 3), 1, [l \in 1..3 |-> [index |-> shown[l], point |-> nonces[l]]])
       /\ F!Culprits(F!Generate(f, 3), Contributed(f, order, shown, nonces, h), h) # {}

-----------------------------------------------------------------------------
(* The files of two ceremonies in one directory: the second init, of another  *)
(* polynomial and for fewer members, may have been cut off after any file.    *)
D == INSTANCE CeremonyFiles WITH Q <- 5

Left(f, g, n) == D!Written(D!Written(D!NoFiles, f, 3, 4), g, 2, n)

Inits == {<<1, 2>>, <<3, 0>>, <<4, 4>>} \X ({<<2>>, <<3>>} \cup Polynomials) \X (0..3)

\* Any shares of the directory, as many as the group in it asks for.
Chosen(dir, group) == [1..group.threshold -> Range(dir.member)]

\* sign makes a signature just of different shares that fit the commitments of
\* the group it finds, and the group verifies it; a share that is left of the
\* other ceremony is noticed, by verify-share too, which asks for more: the
\* third member's share may fit, and be of no member.
ASSUME MixedFilesAreNoticed ==
  \A x \in Inits, c \in {1, 3} :
    \E dir \in {Left(x[1], x[2], x[3])} : \A group \in dir.group :
      LET nonce == [s \in D!Scalar |-> (2 * s + 1) % 5]
          challenge == [r \in D!Scalar |-> c]
          fits(file) == file.share = D!Evaluate(group.commitments, file.index)
      IN /\ \A file \in Range(dir.member) :
              D!VerifyShare(group, file.index, file.share)
                <=> fits(file) /\ file.index \in 1..group.members
         /\ \A files \in Chosen(dir, group) :
              LET signed == D!Sign(group, files, nonce, challenge) IN
              /\ signed # {} <=> IsInjective(files) /\ \A file \in Range(files) : fits(file)
              /\ \A signature \in signed : D!SignatureVerifies(group, signature, challenge)

-----------------------------------------------------------------------------
(* The mock coordinator: the sessions of a quorum of two of three that any    *)
(* calls lead to, with and without a deadline that may have passed.           *)
Mock == INSTANCE MockCeremony

Called(ss) ==
  UNION {{Mock!SubmitCommitment(ss, now, m), Mock!SubmitShare(ss, now, m), Mock!Aggregate(ss, now)} :
           m \in 1..4, now \in {None, 1, 2}}

\* Nine calls are enough: a tenth leads to no other session.
MockSessions ==
  LET after[n \in 0..9] ==
        IF n = 0 THEN {Mock!Create(TwoOfThree, deadline) : deadline \in {None, 1}}
        ELSE after[n - 1] \cup UNION {Called(ss) : ss \in after[n - 1]}
  IN after[9]

\* Who signs committed first, and enough members did; but of the lifecycle this
\* is all: a share is taken while commitments are still awaited, and one more
\* commitment takes a completed session back to its first round.
ASSUME MockCounts ==
  \E found \in {MockSessions} :
    /\ UNION {Called(ss) : ss \in found} \subseteq found
    /\ \A ss \in found :
         /\ ss.shares \subseteq ss.committed /\ ss.committed \subseteq 1..3
         /\ ss.state \in {"SharesCollected", "Completed"} => Cardinality(ss.shares) >= 2
         /\ ss.abort # None => ss.abort.offender = 4 \/ ss.abort.offense = "uncommitted"
    /\ \E ss \in found : ss.state = "Pending" /\ ss.shares # {}
    /\ \E ss \in found :
         /\ ss.state = "Completed"
         /\ Mock!SubmitCommitment(ss, None, 3).state = "CommitmentsCollected"

=============================================================================
