---------------------------- MODULE MCStanding -----------------------------
(* Three versions of a grant, one of them forged by the laboratory and one of *)
(* another authority; credentials that move a slot key to another segment;    *)
(* a chain of three links, the last of which has a window.                    *)
EXTENDS Standing, Keyring, Manifest

CONSTANTS kr, ka, kb, kl, root, auth, abody, lab, dev, s1, s2, cells, charge, low, high, every,
          uni, group, red, green, rule

Holder == [n \in NodeId |->
             IF n = root THEN kr ELSE IF n = auth THEN ka ELSE IF n = abody THEN kb ELSE kl]

Suites == [k \in Key |-> IF k = kb THEN "ml-dsa-65" ELSE "ed25519"]

Grant(authority, version, from, to, key) ==
  IssueGrant(lab, authority, version, {cells}, {"ed25519"}, from, to, key)

Circulating ==
  {Grant(auth, 1, 0, None, ka), Grant(auth, 2, 0, 1, ka), Grant(auth, 3, 2, 3, ka),
   Grant(auth, 9, 0, None, kl), Grant(abody, 5, 0, None, kb)}

Certified ==
  {CertifySlot(dev, s1, cells, auth, 0, None, ka), CertifySlot(dev, s1, charge, auth, 0, 1, ka),
   CertifySlot(dev, s1, charge, root, 0, None, kl), CertifySlot(dev, s2, charge, root, 0, None, kr)}

Open == [layers |-> [l \in {group} |-> Wildcard], window |-> Wildcard, conditions |-> {}]

Reds == [Open EXCEPT !.layers = [l \in {group} |-> {red}]]

Early == [Reds EXCEPT !.window = [from |-> 0, to |-> 1],
                      !.conditions = {[kind |-> "predicate", ref |-> rule]}]

Linked ==
  <<IssueLink("root", "issuing-authority", auth, Open, kr),
    IssueLink("issuing-authority", "test-lab", lab, Reds, ka),
    IssueLink("test-lab", "manufacturer-model", dev, Early, kl)>>

Nodes == <<root, auth, lab>>

Request(colour, at, predicates) ==
  [layers |-> [l \in {group} |-> colour], at |-> at, predicates |-> predicates,
   attributes |-> [l \in {group} |-> None]]

Acting == [t \in Time |-> Request(red, t, {rule})]

Listed == IssueList("club", {"interop-declaration"}, {auth}, kr)

Known == [n \in NodeId |-> {Holder[n]}]

(* The chain admits what the scope narrowed along it grants. *)
ASSUME ChainNarrows ==
  \A second \in {Open, Reds, Early}, colour \in Value, at \in Time, ps \in {{}, {rule}} :
    LET both == Scopes!Narrow(Reds, second)
        chain == [nodes |-> Nodes,
                  links |-> <<IssueLink("root", "test-lab", auth, Reds, kr),
                              IssueLink("test-lab", "instance", dev, second, ka)>>]
    IN both # Refused =>
         (ChainAdmits(Known, chain, Request(colour, at, ps))
            <=> Scopes!Grants(both, Request(colour, at, ps)))

(* Each of these objects is accepted from its declared signer and from nobody *)
(* else that holds a key.                                                     *)
ASSUME SignersResolve ==
  \A n \in NodeId :
    LET key == Holder[n]
        profile(by) == [SignProfile([issuer_class |-> "declaration"], root, key) EXCEPT !.issuer = by]
        dcc(by) == Calibrate(dev, "capacity", 0, None, by, key)
        card(by) == CertifyDevice(dev, s1, cells, low, by, key)
    IN \A by \in NodeId :
         /\ ProfileVerifies(Known, profile(by)) <=> by = n
         /\ CalibrationVerifies(Known, dcc(by)) <=> by = n
         /\ CertificateVerifies(Known, card(by)) <=> by = n
         /\ ListVerifies(Known, Listed, by) <=> by = root

(* A statement resolves when every input has a bridge entry, and then to the  *)
(* first entry of each.                                                       *)
Entries == {[origin |-> o, foreign |-> f] : o \in {low, high}, f \in {red, green}}

ASSUME StatementsResolve ==
  \A inputs \in [1..2 -> {low, high}], bridges \in UNION {[1..n -> Entries] : n \in 0..2} :
    LET told == Resolve([transform |-> rule, inputs |-> inputs, output |-> [foreign |-> green]], bridges)
        bridged == {bridges[i].origin : i \in DOMAIN bridges}
    IN /\ told # None <=> {inputs[1], inputs[2]} \subseteq bridged
       /\ told # None /\ inputs[1] = inputs[2] => told.inputs[1] = told.inputs[2]
       /\ told # None => \A i \in 1..2 : \E b \in DOMAIN bridges :
            bridges[b].origin = inputs[i] /\ bridges[b].foreign = told.inputs[i]

(* The class of a party is what it was declared of last, if ever; the check    *)
(* lets governments and accreditation authorities grant, and a grant of a      *)
(* conformity body is as good as theirs to who grades the laboratory.          *)
ASSUME ClassIsNotAskedFor ==
  \A first, party \in PartyClass :
    LET declared == DeclareParty(DeclareParty([n \in {} |-> None], abody, first), abody, party) IN
    /\ PartyOf(declared, abody) = party /\ PartyOf(declared, auth) = None
    /\ MayAccredit(PartyOf(declared, abody))
         <=> party \in {"government", "accreditation-authority"}
    /\ StandingAt(Known, <<Grant(abody, 5, 0, None, kb)>>, lab, 1) = "live"

(* A counterpart is recognized by the mode that was declared and by no other   *)
(* one's machinery; a club list is for its members and classes.                *)
ASSUME ModesDoNotMix ==
  \A object \in {"interop-declaration", "profile"}, party \in NodeId,
     here, there, listed \in BOOLEAN, club \in {None, Listed} :
    \A by \in {[mode \in RecognitionMode |->
                 Recognized(mode, object, party, here, there, club, listed)]} :
      /\ by["unilateral-pinning"] <=> here
      /\ by["bilateral-anchors"] <=> here /\ there
      /\ by["club-list"] <=> club = Listed /\ object = "interop-declaration" /\ party = auth
      /\ by["master-list-mesh"] <=> listed

(* A valid manifest accepts a suite; in a hybrid phase new signatures are made *)
(* by suites of both kinds; and in the last phase a classical suite is         *)
(* accepted, if at all, for what was signed before.                            *)
ASSUME ManifestsMigrate ==
  \A active, deprecated \in SUBSET {"ed25519", "ecdsa-p256", "ml-dsa-65"},
     phase \in MigrationPhase, contradictions \in SUBSET {"dimension"} :
    LET m == [active |-> active, deprecated |-> deprecated, phase |-> phase,
              topology |-> "mesh", contradictions |-> contradictions]
        signs(s) == AlgorithmStatus(m, s) = "active"
    IN ManifestValid(m) =>
         /\ \E s \in Suite : signs(s) /\ AcceptsVerification(m, s)
         /\ RequiresHybridMix(phase) =>
              signs("ml-dsa-65") /\ (signs("ed25519") \/ signs("ecdsa-p256"))
         /\ phase = "post-quantum" =>
              \A s \in {"ed25519", "ecdsa-p256"} :
                AcceptsVerification(m, s) <=> s \in deprecated

=============================================================================
