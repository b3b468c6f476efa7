------------------------------ MODULE Coverage ------------------------------
(***************************************************************************)
(* What evidence counts for: the acceptance policy of the receiving        *)
(* profile (acceptance.rs), and the grading of an ancestry (provenance.rs).*)
(***************************************************************************)
EXTENDS Evidence

CoverageGrade == {"verified-direct", "attested-by-authority", "explicitly-unavailable"}

TruthMode == {"require-direct", "accept-attestation", "tolerate-unavailable"}

\* mode_for.
ModeFor(policy, element) ==
  IF element \in DOMAIN policy.element_modes THEN policy.element_modes[element]
  ELSE "accept-attestation"

AdmitsAttestation(mode) == mode # "require-direct"

\* The threshold that the attestation states, 0 without a quorum.
StatedThreshold(a) == IF a.quorum = None THEN 0 ELSE a.quorum.threshold

\* Mutant: how many there are in the quorum is not asked.
CountsAnyQuorum(policy, a, element, now) ==
  /\ AdmitsAttestation(ModeFor(policy, element))
  /\ a.service \in policy.attestation_services
  /\ a.statement.claim \in policy.accepted_claims
  /\ policy.max_age_secs # None => now - a.statement.as_of \in 0..policy.max_age_secs

\* The conditions that grade checks in turn.  It verifies no signature.
Counts(policy, a, element, now) ==
  /\ AdmitsAttestation(ModeFor(policy, element))
  /\ a.service \in policy.attestation_services
  /\ a.statement.claim \in policy.accepted_claims
  /\ HighStakes(a.statement.claim) => StatedThreshold(a) >= policy.minimum_quorum
  /\ policy.max_age_secs # None => now - a.statement.as_of \in 0..policy.max_age_secs

\* AcceptancePolicy::grade.
Grade(policy, a, element, now) ==
  IF Counts(policy, a, element, now) THEN "attested-by-authority" ELSE "explicitly-unavailable"

-----------------------------------------------------------------------------
(* Ancestry *)

\* The grade of one edge by the evidence held for it: open, a sealed attestation
\* or nothing.
EdgeGrade(keys, evidence) ==
  IF evidence.kind = "open" THEN "verified-direct"
  ELSE IF evidence.kind = "sealed" /\ AttestationVerifies(keys, evidence.attestation)
  THEN "attested-by-authority" ELSE "explicitly-unavailable"

\* The edges into current that the inner loop grades: in the order of the list,
\* each to an ancestor that was not visited, which marks it visited.
Graded(ancestry, current, visited) ==
  SelectSeq([i \in DOMAIN ancestry |-> i],
            LAMBDA i : /\ ancestry[i].descendant = current
                       /\ ancestry[i].ancestor \notin visited
                       /\ \A j \in 1..(i - 1) : ancestry[j].descendant = current =>
                            ancestry[j].ancestor # ancestry[i].ancestor)

\* One turn of the loop: the last of the frontier is taken and its edges are graded.
Walk(ancestry, at) ==
  LET current == at.frontier[Len(at.frontier)]
      graded == Graded(ancestry, current, at.visited)
      found == [i \in DOMAIN graded |-> ancestry[graded[i]].ancestor]
  IN IF at.frontier = <<>> THEN at
     ELSE [visited |-> at.visited \cup {found[i] : i \in DOMAIN found},
           frontier |-> SubSeq(at.frontier, 1, Len(at.frontier) - 1) \o found,
           edges |-> at.edges \o graded]

\* traverse: the edges that are graded, by their place in the ancestry.  Every
\* edge grades one ancestor more, so the frontier is empty after as many turns
\* as there are edges, and one.
Traverse(subject, ancestry) ==
  LET after[n \in 0..(Len(ancestry) + 1)] ==
        IF n = 0 THEN [visited |-> {subject}, frontier |-> <<subject>>, edges |-> <<>>]
        ELSE Walk(ancestry, after[n - 1])
  IN after[Len(ancestry) + 1].edges

=============================================================================
