------------------------------ MODULE Parties ------------------------------
(***************************************************************************)
(* Who may sign what and by whose leave: the party classes and the signing *)
(* matrix (party.rs), signed profiles (signed_profile.rs), accreditation   *)
(* grants (accreditation.rs) and certified hierarchies (hierarchy.rs).     *)
(*                                                                         *)
(* A window is a start and an end, None when it is open.                   *)
(***************************************************************************)
EXTENDS Signing, Sequences

CONSTANTS Layer, Value, Predicate, Time, Wildcard, Refused   \* as in Scope

Scopes == INSTANCE Scope

-----------------------------------------------------------------------------
(* Classes *)

PartyClass ==
  {"government", "international-body", "accreditation-authority", "conformity-body",
   "manufacturer", "verifier", "bearer", "operator", "update-actor"}

ObjectClass ==
  {"segment-policy", "spine-root", "profile", "s13-message", "sovereign-attestation",
   "master-list-witness", "accreditation", "interop-declaration", "hub-relay"}

\* signing_matrix.
SigningMatrix ==
  [party \in PartyClass |->
    CASE party = "government" -> {"segment-policy", "accreditation", "master-list-witness"}
      [] party = "international-body" -> {"profile", "master-list-witness"}
      [] party = "accreditation-authority" -> {"accreditation", "master-list-witness"}
      [] party = "conformity-body" -> {"sovereign-attestation"}
      [] party = "manufacturer" -> {"profile", "spine-root", "s13-message"}
      [] party = "verifier" -> {"s13-message"}
      [] party = "bearer" -> {}
      [] party = "operator" -> {"spine-root", "s13-message", "interop-declaration", "hub-relay"}
      [] party = "update-actor" -> {"sovereign-attestation"}]

IntakePermits(party, object) == object \in SigningMatrix[party]

\* party_of: a node that was not declared has no class.
PartyOf(parties, node) == IF node \in DOMAIN parties THEN parties[node] ELSE None

\* declare_party.
DeclareParty(parties, node, party) ==
  [n \in DOMAIN parties \cup {node} |-> IF n = node THEN party ELSE parties[n]]

-----------------------------------------------------------------------------
(* Profiles *)

\* SignedProfile::issue and verify; the issuer is not in what it signs.
SignProfile(manifest, issuer, key) ==
  [manifest |-> manifest, issuer |-> issuer, signature |-> Slot(key, "profile", manifest)]

ProfileVerifies(keys, p) == SignedBy(keys, p.issuer, p.signature, "profile", p.manifest)

\* ProfileCheck: the class that was signed, and the ceiling that another crate
\* gives it.
ProfileCheck(p, ceiling) ==
  [issuer |-> p.issuer, class |-> p.manifest.issuer_class,
   grade_ceiling |-> ceiling[p.manifest.issuer_class]]

-----------------------------------------------------------------------------
(* Accreditation *)

GrantBytes(accredited, authority, version, scope, schemes, from, to) ==
  <<accredited, authority, version, scope, schemes, from, to>>

\* AccreditationObject::issue.
IssueGrant(accredited, authority, version, scope, schemes, from, to, key) ==
  [accredited |-> accredited, authority |-> authority, version |-> version, scope |-> scope,
   schemes |-> schemes, valid_from |-> from, valid_to |-> to,
   signature |-> Slot(key, "accreditation",
                      GrantBytes(accredited, authority, version, scope, schemes, from, to))]

GrantVerifies(keys, g) ==
  SignedBy(keys, g.authority, g.signature, "accreditation",
           GrantBytes(g.accredited, g.authority, g.version, g.scope, g.schemes,
                      g.valid_from, g.valid_to))

LiveAt(g, at) == g.valid_from <= at /\ (g.valid_to # None => at <= g.valid_to)

Covers(g, what) == what \in g.scope \/ Wildcard \in g.scope

\* The held grants of a party that verify, by their place.
Admissible(keys, grants, accredited) ==
  {i \in DOMAIN grants : grants[i].accredited = accredited /\ GrantVerifies(keys, grants[i])}

\* Mutant: the latest is chosen first and verified then.
LatestVerifiedAfter(keys, grants, accredited) ==
  {i \in Admissible(keys, grants, accredited) :
     \A j \in DOMAIN grants : grants[j].accredited = accredited =>
       \/ grants[j].version < grants[i].version
       \/ grants[j].version = grants[i].version /\ j <= i}

\* The one that is sorted last: the highest version, the last held of equal ones.
Latest(keys, grants, accredited) ==
  {i \in Admissible(keys, grants, accredited) :
     \A j \in Admissible(keys, grants, accredited) :
       \/ grants[j].version < grants[i].version
       \/ grants[j].version = grants[i].version /\ j <= i}

\* Mutant: any grant that is live will do.
StandingOfAnyGrant(keys, grants, accredited, at) ==
  IF Admissible(keys, grants, accredited) = {} THEN "missing"
  ELSE IF \E i \in Admissible(keys, grants, accredited) : LiveAt(grants[i], at)
  THEN "live" ELSE "expired"

\* standing_at: of the latest grant only.  One whose window has not begun is
\* expired too.  The grants of different authorities are of one line.
StandingAt(keys, grants, accredited, at) ==
  IF Admissible(keys, grants, accredited) = {} THEN "missing"
  ELSE IF \E i \in Latest(keys, grants, accredited) : LiveAt(grants[i], at)
  THEN "live" ELSE "expired"

\* check_grant_class.
MayAccredit(party) == IntakePermits(party, "accreditation")

-----------------------------------------------------------------------------
(* Hierarchies *)

HierarchyTier == {"root", "issuing-authority", "test-lab", "manufacturer-model", "instance"}

LinkBytes(from, to, child, scope) == <<"link", from, to, child, scope>>

\* ChainLink::issue and verify_signed_by, which is told who the parent is.
IssueLink(from, to, child, scope, parent_key) ==
  [from |-> from, to |-> to, child |-> child, scope |-> scope,
   signature |-> Slot(parent_key, "delegation", LinkBytes(from, to, child, scope))]

LinkVerifies(keys, link, parent) ==
  SignedBy(keys, parent, link.signature, "delegation",
           LinkBytes(link.from, link.to, link.child, link.scope))

CalibrationBytes(device, measurement, from, to, laboratory) ==
  <<device, measurement, from, to, laboratory>>

\* CalibrationCertificate::issue and verify.  What was measured, with its
\* uncertainty and unit, is one measurement.
Calibrate(device, measurement, from, to, laboratory, key) ==
  [device_under_test |-> device, measurement |-> measurement, valid_from |-> from,
   valid_to |-> to, laboratory |-> laboratory,
   signature |-> Slot(key, "calibration",
                      CalibrationBytes(device, measurement, from, to, laboratory))]

CalibrationVerifies(keys, c) ==
  SignedBy(keys, c.laboratory, c.signature, "calibration",
           CalibrationBytes(c.device_under_test, c.measurement, c.valid_from, c.valid_to,
                            c.laboratory))

\* CertifiedChain::admits: link i is signed by node i.  Whether its child is the
\* next node is not asked, and a chain without links admits everything.
ChainAdmits(keys, chain, act) ==
  \A i \in DOMAIN chain.links :
    /\ LinkVerifies(keys, chain.links[i], chain.nodes[i])
    /\ Scopes!Matches(chain.links[i].scope, act)
    /\ Scopes!ConditionsHold(chain.links[i].scope, act)

=============================================================================
