------------------------------ MODULE CoSigning ------------------------------
(***************************************************************************)
(* Co-signatures (sign.rs): how slots and composites are collected over    *)
(* one payload, the verdict of each under a directory of keys, the suites  *)
(* that count and the policies that count them; and the attestation of a   *)
(* roll-up, which carries one slot of the core (rollup.rs).                *)
(*                                                                         *)
(* An operation that fails leaves the co-signature as it was.              *)
(***************************************************************************)
EXTENDS Signing, Sequences, FiniteSets

CompositeSignature(domain, payload, members) ==
  [domain |-> domain, payload |-> payload, members |-> members]

\* CoSignature::new.
CoSignature(domain, payload) ==
  [domain |-> domain, payload |-> payload, slots |-> <<>>, composites |-> <<>>]

\* sign_by and frame_by.
SignBy(co, key) ==
  IF CanSign(key)
  THEN [co EXCEPT !.slots = Append(@, Slot(key, co.domain, co.payload))]
  ELSE co

FrameBy(co, key) == [co EXCEPT !.slots = Append(@, Placeholder(key))]

\* attach_composite: what covers other bytes is refused.
AttachComposite(co, composite) ==
  IF composite.domain = co.domain /\ composite.payload = co.payload
  THEN [co EXCEPT !.composites = Append(@, composite)]
  ELSE co

\* sign_composite_by: every key signs, or nothing is attached.
SignCompositeBy(co, keys) ==
  IF \A i \in DOMAIN keys : CanSign(keys[i])
  THEN AttachComposite(co, CompositeSignature(co.domain, co.payload,
                             [i \in DOMAIN keys |-> Slot(keys[i], co.domain, co.payload)]))
  ELSE co

-----------------------------------------------------------------------------

\* slot_verdict, under the keys of a directory.
SlotVerdict(slot, domain, payload, directory) ==
  CASE slot.key_id \notin directory -> "unknown-key"
    [] slot.key_id \in directory /\ (Unsupported(slot.suite) \/ Deferred(slot.suite)) -> "deferred"
    [] OTHER -> IF SlotVerifies(slot, domain, payload, slot.key_id) THEN "verified" ELSE "invalid"

\* CompositeSignature::verify: over what the composite says that it covers.
CompositeVerified(composite, directory) ==
  /\ composite.members # <<>>
  /\ \A i \in DOMAIN composite.members :
       SlotVerdict(composite.members[i], composite.domain, composite.payload, directory)
         = "verified"

MemberSuites(composite) == {composite.members[i].suite : i \in DOMAIN composite.members}

\* CoSignature::verify: the verdicts of the slots and the suites that count.
Report(co, directory) ==
  LET verdict == [i \in DOMAIN co.slots |->
                    SlotVerdict(co.slots[i], co.domain, co.payload, directory)]
      counted == {c \in DOMAIN co.composites : CompositeVerified(co.composites[c], directory)}
  IN [slots |-> verdict,
      verified_suites |->
        {co.slots[i].suite : i \in {i \in DOMAIN co.slots : verdict[i] = "verified"}}
          \cup UNION {MemberSuites(co.composites[c]) : c \in counted}]

-----------------------------------------------------------------------------

\* AcceptancePolicy::any_computed, only and multi_signed.
AnyComputed == [allowed_suites |-> {"ed25519", "ecdsa-p256"}, min_verified_suites |-> 1]
Only(suites) == [allowed_suites |-> suites, min_verified_suites |-> 1]
MultiSigned == [allowed_suites |-> {"ed25519", "ecdsa-p256"}, min_verified_suites |-> 2]

\* evaluate: the suites that carried the acceptance, if it is one.
Accepting(policy, report) ==
  LET allowed == report.verified_suites \cap policy.allowed_suites IN
  IF Cardinality(allowed) >= policy.min_verified_suites THEN allowed ELSE {}

-----------------------------------------------------------------------------

\* to_sig_slot: the slots that the core can carry; from_sig_slot gives them back.
CoreSlot(slot) == {s \in {slot} : s.suite \in CoreSuite}

\* sign_rollup: the slot that is installed over the body, if any.
SignRollup(key, body) ==
  UNION {CoreSlot(Slot(k, "rollup-attestation", body)) : k \in {k \in {key} : CanSign(k)}}

\* check_rollup_signature, against the anchor that the verifier pinned.
RollupVerifies(slot, body, anchor) == SlotVerifies(slot, "rollup-attestation", body, anchor)

=============================================================================
