---------------------------- MODULE Verification ----------------------------
(***************************************************************************)
(* The verification pipeline of verify.rs, which reads the trust graph and *)
(* the revocation ledger while both go on changing: the cryptographic      *)
(* report of a co-signature with the acceptance policy of sign.rs, the     *)
(* trust facts of every slot, and the decision of accepted.                *)
(*                                                                         *)
(* A co-signature is its slots and its composites, each a set of slots     *)
(* over the one payload; a slot is the suite and the key it names and      *)
(* whether its signature is there and verifies under that key.  The core   *)
(* verdict is another crate: of its refusals only the void reading is      *)
(* kept, the others refuse more.                                           *)
(***************************************************************************)
EXTENDS TrustGraph

CONSTANTS
  \* The ledger
  Owner, Passport, Born, Subject, Reason, Window, Punctual, MaxDeclarations,
  MaxStamps,
  \* The signatures and the policy
  Suite,              \* signature suites
  ComputedSuite,      \* those that are neither deferred nor unsupported
  SuiteOf,            \* the suite of each key
  CoSignatures,       \* the co-signatures that are verified
  AllowedSuites,      \* AcceptancePolicy.allowed_suites
  MinVerifiedSuites   \* AcceptancePolicy.min_verified_suites

SignatureSlot == [suite : Suite, key : Key, signature : {"good", "bad", "framed"}]

ASSUME SuiteAssumption ==
  /\ IsFiniteSet(Suite)
  /\ ComputedSuite \subseteq Suite
  /\ SuiteOf \in [Key -> Suite]
  /\ AllowedSuites \subseteq Suite
  /\ MinVerifiedSuites \in Nat

ASSUME CoSignatureAssumption ==
  \A co \in CoSignatures :
    /\ DOMAIN co = {"slots", "composites"}
    /\ co.slots \subseteq SignatureSlot
    /\ \A members \in co.composites : members \subseteq SignatureSlot

VARIABLES
  ledger, issuances, parents, stamps, clock    \* see Revocation

ledgerVars == <<ledger, issuances, parents, stamps, clock>>

vars == <<graphVars, ledgerVars>>

Ledger == INSTANCE Revocation WITH Condition <- ScopeCondition

-----------------------------------------------------------------------------
(* The co-signature *)

\* key_directory: every key that some node registered.
Directory == UNION {nodes[n].keys : n \in {n \in NodeId : nodes[n] # None}}

\* Whether the verdict of a slot is Verified.
Verifies(slot) ==
  /\ slot.key \in Directory
  /\ slot.suite \in ComputedSuite
  /\ slot.suite = SuiteOf[slot.key]
  /\ slot.signature = "good"

\* CompositeSignature::verify: all its members, and at least one.
CompositeVerifies(members) == members # {} /\ \A m \in members : Verifies(m)

VerifiedSuites(co) ==
  {slot.suite : slot \in {s \in co.slots : Verifies(s)}}
    \cup {slot.suite : slot \in UNION {c \in co.composites : CompositeVerifies(c)}}

\* AcceptancePolicy::evaluate.
PolicyAccepts(co) ==
  LET allowed == VerifiedSuites(co) \cap AllowedSuites IN
  allowed # {} /\ Cardinality(allowed) >= MinVerifiedSuites

-----------------------------------------------------------------------------
(* The trust facts of a slot *)

\* Mutant: only the credential of the signer is looked at.
LastConditionsStand(path, request) ==
  /\ ConditionsHold(Effective(path), request)
  /\ \A i \in {Len(path)} \cap DOMAIN path :
       edges[path[i]].scope.conditions
         \cap Ledger!WithdrawnConditionsAt(edges[path[i]].child, clock) = {}

\* evaluate_conditions: the conditions of the effective scope hold for the
\* request, and no credential grants what is now withdrawn from its child.
ConditionsStand(path, request) ==
  /\ ConditionsHold(Effective(path), request)
  /\ \A i \in DOMAIN path :
       edges[path[i]].scope.conditions
         \cap Ledger!WithdrawnConditionsAt(edges[path[i]].child, clock) = {}

\* slot_trust: the key resolves, and the conditions of the one path that
\* resolve returns stand.
Trusted(k, request) ==
  \E found \in {AcceptedPaths(k, request)} :
    \E c \in found : IsFirst(c, found) /\ ConditionsStand(c.path, request)

\* The members of a composite are judged one by one.
AllSlots(co) == co.slots \cup UNION co.composites

\* Mutant: the void reading is reported, not enforced.
AcceptedThoughVoid(p, co, request) ==
  /\ p \in Passport
  /\ PolicyAccepts(co)
  /\ \E slot \in AllSlots(co) : Verifies(slot) /\ Trusted(slot.key, request)

\* SignatifVerdict::accepted.
Accepted(p, co, request) ==
  /\ ~Ledger!VoidNow(p)
  /\ PolicyAccepts(co)
  /\ \E slot \in AllSlots(co) : Verifies(slot) /\ Trusted(slot.key, request)

-----------------------------------------------------------------------------

Init == GraphInit /\ Ledger!Init

\* The pipeline only reads: what moves is the graph, the bundle and the ledger.
Next ==
  \/ GraphNext /\ UNCHANGED ledgerVars
  \/ Ledger!Next /\ UNCHANGED graphVars

Spec == Init /\ [][Next]_vars

-----------------------------------------------------------------------------
(* Properties *)

\* The credentials that are signed for and of whose conditions none is withdrawn
\* from the child at the present.
Untouched ==
  {i \in SignedEdges : edges[i].scope.conditions
                    \cap Ledger!WithdrawnConditionsAt(edges[i].child, clock) = {}}

HeldUntouched(t) == HeldThrough(Untouched, t)

\* What is accepted was signed by a key whose node holds, by a chain of
\* credentials down from an accepted root that are all signed for and of whose
\* conditions none is withdrawn at the present, a scope that grants the act;
\* and the policy's suites come from keys the graph knows.
AcceptedIsAuthorized ==
  \A p \in Passport, co \in CoSignatures, request \in Requests :
    Accepted(p, co, request) =>
      /\ \E slot \in AllSlots(co) : \E h \in HeldUntouched(request.at) :
           /\ slot.signature = "good"
           /\ Owners(slot.key) # {}
           /\ h[1] = NodeForKey(slot.key)
           /\ Grants(h[2], request)
      /\ Cardinality({slot.suite : slot \in {s \in AllSlots(co) : Verifies(s)}} \cap AllowedSuites)
           >= MinVerifiedSuites

\* Fraud is not laundered through the graph or by derivation: once something
\* is void, neither it nor anything made from it, then or later, is accepted,
\* whatever is declared, delegated or anchored, while its own issuance and
\* provenance are what they were.
VoidIsNeverAccepted ==
  [][\A src \in Passport :
       Ledger!VoidNow(src) /\ Ledger!SameHistory(src) =>
         \A p \in Passport, co \in CoSignatures, request \in Requests :
           src \in Ledger!Sources(p)' => ~Accepted(p, co, request)']_vars

\* Nodes, keys and credentials that are added take no acceptance away, as long
\* as the signer's keys keep their owner and no condition is withdrawn.  (With
\* a withdrawal a new credential may put a path it touches before the one that
\* was resolved, and only the first is judged.)
GrowthKeepsAcceptance ==
  [][/\ UNCHANGED <<lists, attested, ledgerVars>>
     /\ \A n \in NodeId : Ledger!WithdrawnConditionsAt(n, clock) = {}
     => \A co \in CoSignatures :
          (\A slot \in AllSlots(co) :
             Owners(slot.key) # {} =>
               NodeForKey(slot.key)' = NodeForKey(slot.key))
          => \A p \in Passport, request \in Requests :
               Accepted(p, co, request) => Accepted(p, co, request)']_vars

=============================================================================
