------------------------------- MODULE Signing -------------------------------
(***************************************************************************)
(* What every signed object is verified with: the suites and their         *)
(* features, the signing domains, the signature slot of sign.rs, and the   *)
(* lookup of the declared signer's key that the verify of each object      *)
(* begins with.                                                            *)
(*                                                                         *)
(* A signature value is the term only its key could make: the key, the     *)
(* domain and the payload.  A payload is the tuple of the fields that the  *)
(* object's canonical bytes hold.                                          *)
(***************************************************************************)
EXTENDS Integers

CONSTANTS
  Key,       \* keys, each with its content-derived id
  SuiteOf,   \* the suite of each key
  Feature,   \* the crate features that are enabled
  NodeId,    \* nodes of the trust graph
  None

-----------------------------------------------------------------------------
(* Suites *)

Suite ==
  {"ed25519", "ecdsa-p256", "sm2", "ml-dsa-44", "ml-dsa-65", "ml-dsa-87",
   "slh-dsa-128s", "slh-dsa-192s"}

ASSUME KeyAssumption == SuiteOf \in [Key -> Suite]

ASSUME FeatureAssumption == Feature \subseteq {"sm2", "ml-dsa", "slh-dsa", "ml-kem"}

IsComputed(suite) ==
  \/ suite \in {"ed25519", "ecdsa-p256"}
  \/ suite = "sm2" /\ "sm2" \in Feature
  \/ suite = "ml-dsa-65" /\ "ml-dsa" \in Feature

IsPostQuantum(suite) ==
  suite \in {"ml-dsa-44", "ml-dsa-65", "ml-dsa-87", "slh-dsa-128s", "slh-dsa-192s"}

\* unsupported: the slh-dsa feature is a stub and changes nothing.
Unsupported(suite) == suite \in {"slh-dsa-128s", "slh-dsa-192s"}

\* deferral: the suites that wait for a binding, by feature.
Deferred(suite) ==
  \/ suite = "sm2" /\ "sm2" \notin Feature
  \/ suite = "ml-dsa-65" /\ "ml-dsa" \notin Feature
  \/ suite \in {"ml-dsa-44", "ml-dsa-87"}

\* from_core: the suites of the core's carriers; to_core has no other.
CoreSuite == {"ecdsa-p256", "sm2", "ml-dsa-44", "ml-dsa-65", "ml-dsa-87"}

\* code: the core's first five, then the suites it does not have.
Code(suite) ==
  CASE suite = "ecdsa-p256" -> 1 [] suite = "sm2" -> 2 [] suite = "ml-dsa-44" -> 3
    [] suite = "ml-dsa-65" -> 4 [] suite = "ml-dsa-87" -> 5 [] suite = "ed25519" -> 6
    [] suite = "slh-dsa-128s" -> 7 [] suite = "slh-dsa-192s" -> 8

\* A suite is computed, deferred or unsupported, and one of them only; no two
\* suites share their code.
ASSUME SuiteTables ==
  /\ \A s \in Suite :
       /\ IsComputed(s) \/ Deferred(s) \/ Unsupported(s)
       /\ IsComputed(s) => ~Deferred(s) /\ ~Unsupported(s)
       /\ Deferred(s) => ~Unsupported(s)
  /\ \A s, t \in Suite : Code(s) = Code(t) => s = t

-----------------------------------------------------------------------------
(* Slots *)

SigningDomain ==
  {"artifact-event", "delegation", "master-list-witness", "tree-head", "historical-stamp",
   "quorum", "rollup-attestation", "segment-policy", "spine-root", "profile", "s13-message",
   "sovereign-attestation", "interop-declaration", "hub-relay", "accreditation", "calibration"}

\* domain_framed and sign_raw: what key signs for a payload of a domain.
Signature(key, domain, payload) == <<key, domain, payload>>

\* SignatureSlot::sign, which fails for a key whose suite is not computed.
CanSign(key) == IsComputed(SuiteOf[key])

Slot(key, domain, payload) ==
  [suite |-> SuiteOf[key], key_id |-> key, signature |-> Signature(key, domain, payload)]

\* A placeholder, which frames a slot and signs nothing.
Placeholder(key) == [suite |-> SuiteOf[key], key_id |-> key, signature |-> None]

\* SignatureSlot::verify under a public key.
SlotVerifies(slot, domain, payload, public) ==
  /\ ~Unsupported(slot.suite)
  /\ ~Deferred(slot.suite)
  /\ slot.suite = SuiteOf[public]
  /\ slot.signature # None
  /\ slot.signature = Signature(public, domain, payload)

\* The slot verifies under the key it names, which the declared signer's node in
\* the graph has to hold.
SignedBy(keys, signer, slot, domain, payload) ==
  /\ slot.key_id \in keys[signer]
  /\ SlotVerifies(slot, domain, payload, slot.key_id)

=============================================================================
