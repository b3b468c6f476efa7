------------------------------- MODULE Airgap -------------------------------
(***************************************************************************)
(* A custodian publishes the states of a subject, an authority the         *)
(* versions of the governing policy, a service attests what it may not     *)
(* show, and a courier carries views made of any of these, of any age and  *)
(* in any mixture, to a verifier that calls nobody: it has its own graph,  *)
(* whose keys it learns over time, and its acceptance policy.              *)
(***************************************************************************)
EXTENDS Coverage

CONSTANTS
  Custodian, Authority, Service,    \* nodes that sign
  KeyOf,            \* the key each node signs with
  KnownFirst,       \* the nodes whose key the verifier starts with
  Open, Sealed,     \* the two segments of the subject
  Passport,         \* the subject
  Governing,        \* the policy of the sealed segment
  MemberLists,      \* the lists of member keys a service may collect
  Journals,         \* the journals a courier may carry
  Acceptance,       \* the acceptance policy of the verifier
  MaxEpoch, MaxPolicy, MaxAttested, MaxClock    \* bounds

ASSUME NodeAssumption ==
  /\ {Custodian, Authority, Service} \subseteq NodeId
  /\ KeyOf \in [NodeId -> Key]
  /\ \A n \in NodeId : CanSign(KeyOf[n])
  /\ KnownFirst \subseteq NodeId
  /\ KeyOf[Service] # KeyOf[Custodian]
  /\ {Open, Sealed} \subseteq Segment
  /\ Passport \in Subject /\ Governing \in PolicyId

\* Members are lists of keys, and whom an entry of a journal names is a node.
ASSUME CarriedAssumption ==
  /\ \A members \in MemberLists : members \in Seq(Key)
  /\ \A j \in Journals : Len(j) \in Nat
  /\ \A j \in Journals : \A i \in 1..Len(j) :
       /\ j[i].kind = "request" => j[i].requester \in NodeId
       /\ j[i].kind # "request" => j[i].response.custodian \in NodeId
       /\ j[i].kind \notin {"request", "response"} => j[i].authority \in NodeId

ASSUME AcceptanceAssumption ==
  /\ Acceptance.minimum_quorum \in Nat
  /\ Acceptance.max_age_secs \in Nat \cup {None}

\* None is no quorum.
ASSUME NoneAssumption ==
  None \notin [quorum : NodeId, threshold : Nat,
               signatures : Seq([suite : Suite, key_id : Key,
                                 signature : Key \X SigningDomain \X (NodeId \X Nat \X Statement)])]

ASSUME BoundAssumption ==
  MaxEpoch \in Nat /\ MaxPolicy \in Nat /\ MaxAttested \in Nat /\ MaxClock \in Nat

VARIABLES
  clock,      \* the time of everybody
  history,    \* what the custodian published, by epoch: the states of the segments, and when
  policies,   \* the policies that the authority signed
  attested,   \* the attestations that the service issued
  known,      \* the keys of the verifier's graph
  held        \* the view that the verifier accepted, if any

vars == <<clock, history, policies, attested, known, held>>

Init ==
  /\ clock = 0
  /\ history = <<>>
  /\ policies = {}
  /\ attested = {}
  /\ known = [n \in NodeId |-> IF n \in KnownFirst THEN {KeyOf[n]} ELSE {}]
  /\ held = None

Tick ==
  /\ clock < MaxClock
  /\ clock' = clock + 1
  /\ UNCHANGED <<history, policies, attested, known, held>>

\* The spine of an epoch, signed by the custodian.
Published(epoch) ==
  SignSpine(SpineOver(epoch, [s \in {Open, Sealed} |-> CommitState(history[epoch].states[s])]),
            Custodian, KeyOf[Custodian])

\* The custodian commits to the states of its segments and signs the spine.
Publish(open, sealed) ==
  /\ Len(history) < MaxEpoch
  /\ history' = Append(history, [states |-> [s \in {Open, Sealed} |-> IF s = Open THEN open ELSE sealed],
                                 at |-> clock])
  /\ UNCHANGED <<clock, policies, attested, known, held>>

PolicyVersion(version, superseded_by) ==
  SignPolicy([policy_id |-> Governing, authority |-> Authority, version |-> version,
              superseded_by |-> superseded_by], KeyOf[Authority])

\* The authority signs the next version, and says so on the one before.
Legislate ==
  LET next == Cardinality({p \in policies : p.policy.superseded_by = None}) + 1 IN
  /\ next <= MaxPolicy
  /\ policies' = policies \cup {PolicyVersion(next, None)}
                   \cup (IF next = 1 THEN {} ELSE {PolicyVersion(next - 1, next)})
  /\ UNCHANGED <<clock, history, attested, known, held>>

\* The service attests the sealed state of the last epoch under a policy, with
\* the members' co-signatures that the claim calls for.
IssueAttestation(p, claim, members, threshold) ==
  LET quorum == [id |-> Service, threshold |-> threshold, members |-> members]
      statement == [segment |-> Sealed,
                    state_commitment |-> CommitState(history[Len(history)].states[Sealed]),
                    claim |-> claim, as_of |-> clock,
                    governing_policy |-> p.policy.policy_id,
                    governing_policy_version |-> p.policy.version, subject |-> Passport]
  IN
  /\ history # <<>>
  /\ Cardinality(attested) < MaxAttested
  /\ MayAttest(statement, quorum)
  /\ attested' = attested \cup {Attest(statement, Service, KeyOf[Service], quorum)}
  /\ UNCHANGED <<clock, history, policies, known, held>>

\* The verifier registers the key of a node.
Learn(n) ==
  /\ known[n] = {}
  /\ known' = [known EXCEPT ![n] = {KeyOf[n]}]
  /\ UNCHANGED <<clock, history, policies, attested, held>>

\* What a courier finds: the spines of every epoch, and one of other states that
\* the service signed in the custodian's name.
Spines(open) ==
  {Published(e) : e \in DOMAIN history}
    \cup {SignSpine(SpineOver(1, [s \in {Open, Sealed} |-> CommitState(open)]),
                    Custodian, KeyOf[Service])}

Bundle(spine, proofs, carried, attestations, journal, receipt) ==
  [subject |-> Passport, policies |-> carried, spine |-> spine, proofs |-> proofs,
   attestations |-> attestations, journal |-> journal, receipt |-> receipt]

Lens == [profile |-> Passport, input_segments |-> {<<"static", Open>>}]

\* The verifier accepts a frozen view that verifies under its graph: its parts may
\* be of different epochs, its input and its payload of any state.
Ingest(spine, proved, carried, attestations, journal, receipt, input, rendered) ==
  LET inputs(state) == {[name |-> "static", segment |-> Open, bytes |-> state]}
      proofs == {SpineProof(Published(e).spine, Sealed) : e \in proved}
      bundle == Bundle(spine, proofs, carried, attestations, journal,
                       IF receipt = None THEN None ELSE SpineDigest(Published(receipt).spine))
      view == Freeze(Passport, Render(Lens, inputs(rendered)), Lens, inputs(input), bundle, clock)
  IN
  /\ held = None
  /\ MayFreeze("point-in-time", TRUE)
  /\ ViewVerifies(known, view)
  /\ held' = view
  /\ UNCHANGED <<clock, history, policies, attested, known>>

\* A courier hands over one view.
Carry ==
  /\ held = None
  /\ \E other, input, rendered \in State : \E spine \in Spines(other),
        proved \in {{e} : e \in DOMAIN history}, carried \in {{p} : p \in policies},
        attestations \in {{}} \cup {{a} : a \in attested},
        receipt \in {None} \cup DOMAIN history, journal \in Journals :
       Ingest(spine, proved, carried, attestations, journal, receipt, input, rendered)

\* The claims are one high-stakes and one not.
Next ==
  \/ Tick
  \/ \E open, sealed \in State : Publish(open, sealed)
  \/ Legislate
  \/ \E p \in policies, claim \in {"conformity", "freshness"}, members \in MemberLists,
        threshold \in 1..2 : IssueAttestation(p, claim, members, threshold)
  \/ \E n \in NodeId : Learn(n)
  \/ Carry

Spec == Init /\ [][Next]_vars

-----------------------------------------------------------------------------
(* Properties *)

\* Every attestation issued is a statement, with a quorum when its claim is a
\* high-stakes one and only then; what is held says what the verifier found.
TypeOK ==
  /\ clock \in 0..MaxClock
  /\ \A e \in DOMAIN history : /\ history[e].states \in [{Open, Sealed} -> State]
                             /\ history[e].at \in 0..clock
  /\ \A a \in attested : /\ a.statement \in Statement
                        /\ a.quorum # None <=> HighStakes(a.statement.claim)
  /\ known \in [NodeId -> SUBSET Key]
  /\ held # None =>
       /\ held.notarized_at \in 0..clock
       /\ DossierCheck(known, held.bundle).attestations_ok <= Cardinality(attested)

\* A view that the verifier accepted tells one history, whatever the courier mixed:
\* its spine is the one the custodian signed for its epoch, its proofs and its
\* input are the states of that epoch, a payload that re-executes is the lens over
\* those states, a receipt is of that spine, and every attestation was issued,
\* under a policy that the bundle carries and the authority signed.  Only the state
\* that an attestation is about may be of another epoch.  And what was accepted
\* stays so as the verifier learns more keys.
HeldViewIsOneHistory ==
  held # None =>
    LET epoch == held.bundle.spine.spine.epoch
        states == history[epoch].states
    IN
    /\ epoch \in DOMAIN history
    /\ held.bundle.spine = Published(epoch)
    /\ \A proof \in held.bundle.proofs :
         proof.commitment = CommitState(states[proof.segment_id])
    /\ \A input \in held.inputs : input.bytes = states[input.segment]
    /\ ReExecutes(held) =>
         held.payload = Render(Lens, {[name |-> "static", segment |-> Open, bytes |-> states[Open]]})
    /\ held.bundle.receipt \in {None, SpineDigest(Published(epoch).spine)}
    /\ \A a \in held.bundle.attestations :
         /\ a \in attested
         /\ \E p \in held.bundle.policies \cap policies : BindsPolicy(a, p.policy)
    /\ ViewVerifies(known, held)

\* When the verifier counts the attestation of a view it holds, as many different
\* members as its own profile asks for have signed that statement if the claim is
\* high-stakes, and the state it is about was the custodian's newest within the
\* age that the profile allows.
AttestedIsEarned ==
  held # None =>
    \A a \in held.bundle.attestations :
      Grade(Acceptance, a, Sealed, clock) = "attested-by-authority" =>
        /\ HighStakes(a.statement.claim) =>
             Cardinality({a.quorum.signatures[i].key_id : i \in DOMAIN a.quorum.signatures})
               >= Acceptance.minimum_quorum
        /\ \E e \in DOMAIN history :
             /\ a.statement.state_commitment = CommitState(history[e].states[Sealed])
             /\ Acceptance.max_age_secs # None =>
                  e = Len(history) \/ history[e + 1].at >= clock - Acceptance.max_age_secs

=============================================================================
