---------------------------- MODULE Declarations ----------------------------
(***************************************************************************)
(* The willingness of schemes: the interop declarations of declaration.rs, *)
(* the deliveries and relays of transport.rs that they gate, and the level *)
(* that scheme.rs reads from them.                                         *)
(*                                                                         *)
(* The registry is the sequence of the declarations that were registered.  *)
(* The postures of a declaration are a function of the classes it covers,  *)
(* each declared once; escalation and reciprocity references are left out. *)
(***************************************************************************)
EXTENDS Signing, Sequences

CONSTANTS
  DataClass,    \* data classes
  AnyClass,     \* the class "*"
  AnyParty      \* the counterpart "*"

TransportMode == {"protocol", "document", "hub"}

Level == 0..5

RecognitionMode == {"unilateral-pinning", "bilateral-anchors", "club-list", "master-list-mesh"}

ClassPosture == [level : Level, recognition : RecognitionMode, transports : SUBSET TransportMode]

-----------------------------------------------------------------------------
(* A declaration *)

DeclarationBytes(declarer, counterpart, version, postures, from, to) ==
  <<declarer, counterpart, version, postures, from, to>>

\* InteropDeclaration::issue.
IssueDeclaration(declarer, counterpart, version, postures, from, to, key) ==
  [declarer |-> declarer, counterpart |-> counterpart, version |-> version,
   postures |-> postures, valid_from |-> from, valid_to |-> to,
   signature |-> Slot(key, "interop-declaration",
                      DeclarationBytes(declarer, counterpart, version, postures, from, to))]

\* InteropDeclaration::verify.  No consultation calls it.
DeclarationVerifies(keys, d) ==
  SignedBy(keys, d.declarer, d.signature, "interop-declaration",
           DeclarationBytes(d.declarer, d.counterpart, d.version, d.postures,
                            d.valid_from, d.valid_to))

\* posture_for: of the class, else of every class, else none.
PostureFor(d, class) ==
  IF class \in DOMAIN d.postures THEN d.postures[class]
  ELSE IF AnyClass \in DOMAIN d.postures THEN d.postures[AnyClass] ELSE None

-----------------------------------------------------------------------------
(* The registry *)

\* The declarations of one party toward another, by their place.
Chain(registry, declarer, counterpart) ==
  {i \in DOMAIN registry :
     registry[i].declarer = declarer /\ registry[i].counterpart = counterpart}

\* Mutant: what was registered last is the latest.
LastRegistered(registry, declarer, counterpart) ==
  {i \in Chain(registry, declarer, counterpart) :
     \A j \in Chain(registry, declarer, counterpart) : j <= i}

\* The head of a chain: the highest version, the last registered of equal ones.
ChainHead(registry, declarer, counterpart) ==
  {i \in Chain(registry, declarer, counterpart) :
     \A j \in Chain(registry, declarer, counterpart) :
       \/ registry[j].version < registry[i].version
       \/ registry[j].version = registry[i].version /\ j <= i}

\* latest_for: of the pair, else toward anyone.  The window is not looked at.
LatestFor(registry, declarer, counterpart) ==
  IF Chain(registry, declarer, counterpart) # {}
  THEN ChainHead(registry, declarer, counterpart)
  ELSE ChainHead(registry, declarer, AnyParty)

\* The posture that permits consults: the head of the pair if it covers the class,
\* else the head toward anyone if that does.
ConsultedPosture(registry, declarer, counterpart, class) ==
  LET covering(c) == {i \in ChainHead(registry, declarer, c) : PostureFor(registry[i], class) # None}
      chosen == IF covering(counterpart) # {} THEN covering(counterpart) ELSE covering(AnyParty)
  IN IF chosen = {} THEN None ELSE PostureFor(registry[CHOOSE i \in chosen : TRUE], class)

\* permits.
Permits(registry, declarer, counterpart, class, mode) ==
  LET posture == ConsultedPosture(registry, declarer, counterpart, class) IN
  IF posture = None THEN "no-declaration"
  ELSE IF posture.level = 0 \/ mode \notin posture.transports THEN "refused"
  ELSE "permitted"

-----------------------------------------------------------------------------
(* Delivery *)

\* deliver: the evidence crosses, or the gap is stated.
Deliver(registry, declarer, counterpart, class, mode) ==
  IF Permits(registry, declarer, counterpart, class, mode) = "permitted"
  THEN "delivered" ELSE "gap"

RelayPayload(hub, evidence, from, to, class) == <<hub, evidence, from, to, class>>

\* Mutant: the hub asks the sender only.
SenderIsWilling(registry, from, to, class) ==
  Permits(registry, from, to, class, "hub") = "permitted"

\* The precondition of relay: both sides permit the hub.
BothWilling(registry, from, to, class) ==
  /\ Permits(registry, from, to, class, "hub") = "permitted"
  /\ Permits(registry, to, from, class, "hub") = "permitted"

\* Hub::relay: the signed statement of what the hub forwards.
Relayed(hub, evidence, from, to, class, key) ==
  [hub_id |-> hub, from |-> from, to |-> to, data_class |-> class,
   evidence_digest |-> evidence,
   signature |-> Slot(key, "hub-relay", RelayPayload(hub, evidence, from, to, class))]

\* RelayedEvidence::verify, for the evidence that arrived beside it.
RelayVerifies(keys, r, evidence) ==
  /\ SignedBy(keys, r.hub_id, r.signature, "hub-relay",
              RelayPayload(r.hub_id, evidence, r.from, r.to, r.data_class))
  /\ r.evidence_digest = evidence

-----------------------------------------------------------------------------
(* Levels *)

\* The level that the latest declaration of one side gives the class, if any.
SideLevel(registry, declarer, counterpart, class) ==
  {PostureFor(registry[i], class).level :
     i \in {i \in LatestFor(registry, declarer, counterpart) : PostureFor(registry[i], class) # None}}

\* Mutant: the higher of the two.
HigherLevel(registry, here, counterpart, class) ==
  LET levels == SideLevel(registry, here, counterpart, class)
                  \cup SideLevel(registry, counterpart, here, class)
  IN IF levels = {} THEN None ELSE CHOOSE l \in levels : \A m \in levels : m <= l

\* declared_level: the lower of the two, that of one side when only it has one.
DeclaredLevel(registry, here, counterpart, class) ==
  LET levels == SideLevel(registry, here, counterpart, class)
                  \cup SideLevel(registry, counterpart, here, class)
  IN IF levels = {} THEN None ELSE CHOOSE l \in levels : \A m \in levels : l <= m

\* behaviour_for_level.
BehaviourForLevel(level) ==
  IF level = None \/ level = 0 THEN "gap" ELSE IF level >= 3 THEN "direct" ELSE "substituted"

=============================================================================
