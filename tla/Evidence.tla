------------------------------ MODULE Evidence ------------------------------
(***************************************************************************)
(* The signed objects that a custodian hands over and a verifier checks    *)
(* with nothing but its own graph: policies and spines (grid.rs),          *)
(* sovereign attestations (sovereign.rs) with the quorum of revoke.rs, the *)
(* dossier that carries them (dossier.rs) and the frozen view around it    *)
(* (frozen.rs).                                                            *)
(*                                                                         *)
(* keys is a verifier's graph: the keys it knows of each node.             *)
(***************************************************************************)
EXTENDS Choreography, FiniteSets

CONSTANTS
  Segment,     \* segments of the subjects
  State,       \* contents of a segment
  PolicyId     \* ids of governing policies

-----------------------------------------------------------------------------
(* Policies and spines *)

CommitState(state) == <<"state", state>>

\* Of another crate: a spine is made over the commitments of its segments, and
\* its digest covers its epoch and its root.
SpineOver(epoch, commitments) ==
  [epoch |-> epoch, commitments |-> commitments, root |-> <<"root", commitments>>]

SpineDigest(spine) == <<spine.epoch, spine.root>>

\* Of another crate too: the proof that a root covers a commitment of a segment.
SpineProof(spine, segment) ==
  [segment_id |-> segment, commitment |-> spine.commitments[segment], path |-> spine.commitments]

ProofVerifies(proof, root) ==
  /\ proof.path[proof.segment_id] = proof.commitment
  /\ root = <<"root", proof.path>>

\* Of another crate: what a policy says of a version of it.
StatusFor(policy, version) ==
  IF policy.superseded_by = None THEN "current" ELSE <<"stale", version, policy.superseded_by>>

\* SignedPolicy::issue, verify and verify_with_freshness.
SignPolicy(policy, key) ==
  [policy |-> policy, signature |-> Slot(key, "segment-policy", policy)]

PolicyVerifies(keys, p) ==
  SignedBy(keys, p.policy.authority, p.signature, "segment-policy", p.policy)

Freshness(p) == StatusFor(p.policy, p.policy.version)

\* SignedSpine::issue and verify: the digest is what is signed.
SignSpine(spine, custodian, key) ==
  [spine |-> spine, custodian |-> custodian,
   signature |-> Slot(key, "spine-root", SpineDigest(spine))]

SpineVerifies(keys, s) ==
  SignedBy(keys, s.custodian, s.signature, "spine-root", SpineDigest(s.spine))

-----------------------------------------------------------------------------
(* Attestations *)

ClaimClass == {"conformity", "commitment-hash", "freshness"}

HighStakes(claim) == claim = "conformity"

\* AttestationStatement; it is its own canonical bytes.  The value is left out.
Statement ==
  [segment : Segment, state_commitment : {CommitState(s) : s \in State}, claim : ClaimClass,
   as_of : Nat, governing_policy : PolicyId, governing_policy_version : Nat, subject : Subject]

\* QuorumAttestation::canonical_bytes.
QuorumBytes(statement, quorum, threshold) == <<quorum, threshold, statement>>

\* mint_sign: one slot of each key given, one given twice included.
MintSign(quorum, threshold, statement, members) ==
  [quorum |-> quorum, threshold |-> threshold,
   signatures |-> [i \in DOMAIN members |->
                     Slot(members[i], "quorum", QuorumBytes(statement, quorum, threshold))]]

\* The keys whose slots of the attestation verify.
QuorumKeys(keys, q, statement) ==
  {k \in UNION {keys[n] : n \in NodeId} :
     \E i \in DOMAIN q.signatures :
       /\ q.signatures[i].key_id = k
       /\ SlotVerifies(q.signatures[i], "quorum",
                       QuorumBytes(statement, q.quorum, q.threshold), k)}

\* Mutant: slots are counted, not keys.
SlotsAreQuorate(keys, q, statement) ==
  Cardinality({i \in DOMAIN q.signatures :
                 q.signatures[i].key_id \in QuorumKeys(keys, q, statement)}) >= q.threshold

\* is_quorate: the threshold is the attestation's own.
IsQuorate(keys, q, statement) == Cardinality(QuorumKeys(keys, q, statement)) >= q.threshold

\* A high-stakes claim is refused without a quorum.
MayAttest(statement, quorum) == HighStakes(statement.claim) => quorum # None

\* Mutant: the quorum of every claim is kept.
AttestWithQuorum(statement, service, key, quorum) ==
  [statement |-> statement, service |-> service,
   signature |-> Slot(key, "sovereign-attestation", statement),
   quorum |-> MintSign(quorum.id, quorum.threshold, statement, quorum.members)]

\* SovereignAttestation::issue.  The quorum of any other claim is dropped.
Attest(statement, service, key, quorum) ==
  [statement |-> statement, service |-> service,
   signature |-> Slot(key, "sovereign-attestation", statement),
   quorum |-> IF HighStakes(statement.claim)
              THEN MintSign(quorum.id, quorum.threshold, statement, quorum.members) ELSE None]

\* verify.
AttestationVerifies(keys, a) ==
  /\ SignedBy(keys, a.service, a.signature, "sovereign-attestation", a.statement)
  /\ HighStakes(a.statement.claim) =>
       /\ a.quorum # None
       /\ IsQuorate(keys, a.quorum, a.statement)

BindsPolicy(a, policy) ==
  /\ a.statement.governing_policy = policy.policy_id
  /\ a.statement.governing_policy_version = policy.version

-----------------------------------------------------------------------------
(* Dossiers *)

\* Dossier::verify.  The state an attestation is about is not compared with the
\* spine; of a receipt only the digest is looked at.
DossierVerifies(keys, d) ==
  /\ \A p \in d.policies : PolicyVerifies(keys, p)
  /\ SpineVerifies(keys, d.spine)
  /\ \A proof \in d.proofs : ProofVerifies(proof, d.spine.spine.root)
  /\ \A a \in d.attestations :
       /\ AttestationVerifies(keys, a)
       /\ \E p \in d.policies : BindsPolicy(a, p.policy)
  /\ d.receipt # None => d.receipt = SpineDigest(d.spine.spine)
  /\ Replay(keys, d.journal).ok

\* DossierCheck.
DossierCheck(keys, d) ==
  [policies_ok |-> Cardinality(d.policies), proofs_ok |-> Cardinality(d.proofs),
   attestations_ok |-> Cardinality(d.attestations),
   journal_decisions |-> Replay(keys, d.journal).decisions]

-----------------------------------------------------------------------------
(* Frozen views *)

\* freeze: a continuous view, or one without instructions, is refused.
MayFreeze(temporal, instructions) == temporal = "point-in-time" /\ instructions

Freeze(subject, payload, lens, inputs, bundle, at) ==
  [subject |-> subject, payload |-> payload, lens |-> lens, inputs |-> inputs,
   bundle |-> bundle, notarized_at |-> at]

\* canonical_bytes: of the bundle, only the digest of its spine.
ViewBytes(v) ==
  <<v.subject, v.lens, v.payload,
    {<<input.name, CommitState(input.bytes)>> : input \in v.inputs},
    v.notarized_at, SpineDigest(v.bundle.spine.spine)>>

\* Mutant: the bytes of an input are not compared with what was committed.
InputIsNamed(v, input) ==
  /\ input.segment \in DOMAIN v.bundle.spine.spine.commitments
  /\ <<input.name, input.segment>> \in v.lens.input_segments

\* An input of a view is what the bundle's spine commits to, in a channel of the lens.
InputIsCommitted(v, input) ==
  /\ input.segment \in DOMAIN v.bundle.spine.spine.commitments
  /\ CommitState(input.bytes) = v.bundle.spine.spine.commitments[input.segment]
  /\ <<input.name, input.segment>> \in v.lens.input_segments

\* FrozenView::verify.  The payload is not looked at.
ViewVerifies(keys, v) ==
  /\ DossierVerifies(keys, v.bundle)
  /\ \A input \in v.inputs : InputIsCommitted(v, input)

\* A deterministic lens: what it renders of its inputs.
Render(lens, inputs) == <<lens.profile, {<<i.name, i.bytes>> : i \in inputs}>>

\* re_executes, under the lens of the view.
ReExecutes(v) == Render(v.lens, v.inputs) = v.payload

=============================================================================
