----------------------------- MODULE MCAirgap -----------------------------
(* Two epochs, two policy versions and one or two attestations.  A list of    *)
(* members names one member twice; a journal answers what was not asked.      *)
EXTENDS Airgap, TLC

CONSTANTS kc, ka, ks, k1, k2, kv, cust, auth, serv, qa, qb, vera, pack, telemetry

Holder == [n \in NodeId |->
             IF n = cust THEN kc ELSE IF n = auth THEN ka ELSE IF n = serv THEN ks
             ELSE IF n = qa THEN k1 ELSE IF n = qb THEN k2 ELSE kv]

Suites == [k \in Key |-> IF k = kc THEN "ecdsa-p256" ELSE "ed25519"]

Lists == {<<k1, k2>>, <<k1, k1>>}

OneRequest == [id |-> 1, subject |-> pack, class |-> telemetry]

AllRequests == {OneRequest}

Answered ==
  SignResponse([request |-> OneRequest, custodian |-> cust, outcome |-> "attestation-offer",
                policy |-> 1], kc)

Carried == {<<SignRequest(OneRequest, vera, kv), Answered>>, <<Answered>>}

Profile ==
  [attestation_services |-> {serv}, accepted_claims |-> {"conformity"},
   minimum_quorum |-> 2, max_age_secs |-> 1, element_modes |-> [e \in {} |-> "require-direct"]]

States == Permutations(State)

(* The ancestry of a subject, for every list of at most three edges over three *)
(* others: one edge to each ancestor that is reachable is graded, and none     *)
(* other; of the edges into one descendant the first is.                       *)
Passports == 0..3

Edge == [ancestor : Passports, descendant : Passports]

RECURSIVE Upstream(_, _)
Upstream(ancestry, found) ==
  LET more == found \cup {ancestry[i].ancestor :
                            i \in {i \in DOMAIN ancestry : ancestry[i].descendant \in found}}
  IN IF more = found THEN found ELSE Upstream(ancestry, more)

ASSUME EveryAncestorIsGraded ==
  \A n \in 0..2 : \A ancestry \in [1..n -> Edge] :
    LET edges == Traverse(0, ancestry) IN
    /\ {ancestry[edges[i]].ancestor : i \in DOMAIN edges} = Upstream(ancestry, {0}) \ {0}
    /\ Len(edges) = Cardinality(Upstream(ancestry, {0}) \ {0})

-----------------------------------------------------------------------------
(* Co-signatures of one key for each suite, with and without ML-DSA: every    *)
(* one that two operations can assemble, under every directory.               *)
Signers == {"ed25519", "ecdsa-p256", "ml-dsa-65"}

Co(features) == INSTANCE CoSigning WITH
  Key <- Signers, SuiteOf <- [k \in Signers |-> k], Feature <- features

Steps == {<<how, keys>> : how \in {"sign", "frame", "compose"},
                          keys \in UNION {[1..n -> Signers] : n \in 0..2}}

Step(features, co, step) ==
  CASE step[1] = "compose" -> Co(features)!SignCompositeBy(co, step[2])
    [] step[1] # "compose" /\ step[2] = <<>> -> co
    [] step[1] = "sign" /\ step[2] # <<>> -> Co(features)!SignBy(co, step[2][1])
    [] step[1] = "frame" /\ step[2] # <<>> -> Co(features)!FrameBy(co, step[2][1])

\* The suites that a step is good for when the directory holds its keys.
Earned(features, directory, step) ==
  LET keys == {step[2][i] : i \in DOMAIN step[2]}
      able == {k \in directory : k # "ml-dsa-65" \/ "ml-dsa" \in features}
  IN CASE step[1] = "sign" /\ keys # {} -> {step[2][1]} \cap able
       [] step[1] = "compose" /\ keys \subseteq able -> keys
       [] OTHER -> {}

ASSUME SuitesAreEarned ==
  \A features \in {{}, {"ml-dsa"}}, one, two \in Steps, directory \in SUBSET Signers :
    LET made == Step(features, Step(features, Co(features)!CoSignature("quorum", pack), one), two)
        report == Co(features)!Report(made, directory)
        earned == Earned(features, directory, one) \cup Earned(features, directory, two)
    IN /\ report.verified_suites = earned
       /\ Co(features)!Accepting(Co(features)!AnyComputed, report) # {}
            <=> earned \cap {"ed25519", "ecdsa-p256"} # {}
       /\ Co(features)!Accepting(Co(features)!MultiSigned, report) # {}
            <=> {"ed25519", "ecdsa-p256"} \subseteq earned
       /\ Co(features)!Accepting(Co(features)!Only({"ml-dsa-65"}), report) # {}
            <=> "ml-dsa-65" \in earned

(* A composite over other bytes is not attached; one that is carried in all   *)
(* the same, as decoding allows, counts.                                      *)
ASSUME OnlyAttachingCompares ==
  LET co == Co({})!CoSignature("quorum", pack)
      foreign == Co({})!CompositeSignature("quorum", telemetry,
                   <<Co({})!Slot("ed25519", "quorum", telemetry)>>)
  IN /\ Co({})!AttachComposite(co, foreign) = co
     /\ Co({})!Report([co EXCEPT !.composites = <<foreign>>], Signers).verified_suites = {"ed25519"}

(* A roll-up is signed by the keys of suites that compute and that the core   *)
(* has a carrier for, and checks against that key and that body only.         *)
ASSUME RollupsCheck ==
  \A k, anchor \in Signers, body \in {pack, telemetry} :
    LET slots == Co({"ml-dsa"})!SignRollup(k, pack) IN
    /\ slots = {} <=> k = "ed25519"
    /\ \A slot \in slots :
         Co({"ml-dsa"})!RollupVerifies(slot, body, anchor) <=> anchor = k /\ body = pack

=============================================================================
