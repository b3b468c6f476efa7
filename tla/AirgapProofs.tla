---------------------------- MODULE AirgapProofs ----------------------------
(***************************************************************************)
(* Proofs about Airgap, for every number of epochs, policy versions and    *)
(* attestations, every journal and list of members, and every acceptance   *)
(* policy.  What verifies under some keys verifies under more (ViewStays), *)
(* the replay of a journal included, entry by entry; what is accepted is   *)
(* tied to one epoch when it is (IngestedIsOneHistory) and keeps its tie   *)
(* as the history grows.                                                   *)
(***************************************************************************)
EXTENDS Airgap, SequenceTheorems, FiniteSetTheorems, WellFoundedInduction, TLAPS

-----------------------------------------------------------------------------
(* The replay of a journal, entry by entry *)

\* Complete induction, of a set: no step of it takes an operator.
LEMMA CompleteInduction ==
  ASSUME NEW S, \A n \in Nat : (\A m \in 0..(n - 1) : m \in S) => n \in S
  PROVE  Nat \subseteq S
<1> DEFINE R == OpToRel(<, Nat)
           T == Nat \ S
<1>1. IsWellFoundedOn(R, Nat)
  BY NatLessThanWellFounded
<1>2. SUFFICES ASSUME T # {} PROVE FALSE
  OBVIOUS
<1>3. \E x \in T : \A y \in T : ~ (<<y, x>> \in R)
  <2> HIDE DEF R
  <2>1. T \subseteq Nat
    OBVIOUS
  <2> HIDE DEF T
  <2> QED
    BY <1>1, <1>2, <2>1, WFMin
<1>4. PICK x \in T : \A y \in T : ~ (<<y, x>> \in R)
  BY <1>3
<1>5. \A y \in Nat : y < x => <<y, x>> \in R
  BY DEF OpToRel
<1> HIDE DEF R
<1>6. ASSUME NEW y \in 0..(x - 1) PROVE y \in S
  <2>1. x \in Nat /\ y \in Nat /\ y < x
    OBVIOUS
  <2>2. <<y, x>> \in R
    BY <1>5, <2>1
  <2> QED
    BY <1>4, <2>1, <2>2
<1> QED
  BY <1>4, <1>6

Start == [ok |-> TRUE, decisions |-> <<>>, last |-> [p \in Subject \X NodeId |-> 0]]

\* What the n-th entry makes of the replay of those before it.
After(keys, s, n, before) ==
  IF n = 0 THEN Start ELSE ReplayEntry(keys, before, Asked(SubSeq(s, 1, n - 1)), s[n])

\* The replays of the first k entries of s.
Replays(keys, s, k, f) == f = [n \in 0..k |-> After(keys, s, n, f[n - 1])]

LEMMA ReplaysExist ==
  ASSUME NEW keys, NEW s
  PROVE  \A k \in Nat : \E f : Replays(keys, s, k, f)
<1> DEFINE S == {k \in Nat : \E f : Replays(keys, s, k, f)}
<1>1. ASSUME NEW k \in Nat, \A m \in 0..(k - 1) : m \in S PROVE k \in S
  <2> SUFFICES \E f : Replays(keys, s, k, f)
    OBVIOUS
  <2>1. CASE k = 0
    <3> DEFINE f == [n \in 0..0 |-> Start]
    <3>1. f = [n \in 0..k |-> After(keys, s, n, f[n - 1])]
      BY <2>1 DEF After
    <3> QED
      BY <3>1 DEF Replays
  <2>2. CASE k # 0
    <3>1. k - 1 \in 0..(k - 1) /\ k - 1 \in Nat
      BY <2>2
    <3>2. PICK g : Replays(keys, s, k - 1, g)
      BY <1>1, <3>1
    <3>3. \A n \in 0..(k - 1) : g[n] = After(keys, s, n, g[n - 1])
      BY <3>2 DEF Replays
    <3> DEFINE f == [n \in 0..k |-> IF n = k THEN After(keys, s, k, g[k - 1]) ELSE g[n]]
    <3>4. \A n \in 0..(k - 1) : f[n] = g[n]
      BY <3>1
    <3>5. ASSUME NEW n \in 0..k PROVE f[n] = After(keys, s, n, f[n - 1])
      <4>1. CASE n = k
        BY <3>1, <3>4, <4>1
      <4>2. CASE n = 0
        BY <2>2, <3>1, <3>3, <3>4, <4>2 DEF After
      <4>3. CASE n # k /\ n # 0
        <5>1. n \in 0..(k - 1) /\ n - 1 \in 0..(k - 1)
          BY <4>3
        <5> QED
          BY <3>3, <3>4, <5>1
      <4> QED
        BY <4>1, <4>2, <4>3
    <3>6. f = [n \in 0..k |-> f[n]]
      OBVIOUS
    <3> HIDE DEF f
    <3>7. f = [n \in 0..k |-> After(keys, s, n, f[n - 1])]
      BY <3>5, <3>6, Zenon
    <3> QED
      BY <3>7 DEF Replays
  <2> QED
    BY <2>1, <2>2
<1> HIDE DEF S
<1>2. Nat \subseteq S
  BY <1>1, CompleteInduction
<1> QED
  BY <1>2 DEF S

\* What replay goes through is what the entries make of it.
LEMMA ReplayIs ==
  ASSUME NEW keys, NEW s, Len(s) \in Nat
  PROVE  \E f : Replays(keys, s, Len(s), f) /\ Replay(keys, s) = f[Len(s)]
<1> DEFINE body(n, before) ==
             IF n = 0
             THEN [ok |-> TRUE, decisions |-> <<>>, last |-> [p \in Subject \X NodeId |-> 0]]
             ELSE ReplayEntry(keys, before, Asked(SubSeq(s, 1, n - 1)), s[n])
           after[n \in 0..Len(s)] == body(n, after[n - 1])
<1>1. \A n, before : body(n, before) = After(keys, s, n, before)
  BY DEF After, Start
<1>2. PICK f : Replays(keys, s, Len(s), f)
  BY ReplaysExist
<1>3. \E g : g = [n \in 0..Len(s) |-> body(n, g[n - 1])]
  <2> HIDE DEF body
  <2>1. f = [n \in 0..Len(s) |-> body(n, f[n - 1])]
    BY <1>1, <1>2, Zenon DEF Replays
  <2> QED
    BY <2>1
<1>4. after = [n \in 0..Len(s) |-> body(n, after[n - 1])]
  <2> HIDE DEF body
  <2> QED
    BY <1>3, Zenon
<1>5. Replay(keys, s) = after[Len(s)]
  BY DEF Replay
<1> HIDE DEF body, after
<1>6. Replays(keys, s, Len(s), after)
  BY <1>1, <1>4 DEF Replays
<1> QED
  BY <1>5, <1>6

-----------------------------------------------------------------------------
(* What more keys leave as it is *)

Keyring(k) == k \in [NodeId -> SUBSET Key] /\ \A n \in NodeId : k[n] \subseteq {KeyOf[n]}

Wider(k, l) == Keyring(k) /\ Keyring(l) /\ \A n \in NodeId : k[n] \subseteq l[n]

LEMMA SignedStays ==
  ASSUME NEW k, NEW l, Wider(k, l), NEW n \in NodeId, NEW slot, NEW domain, NEW payload,
         SignedBy(k, n, slot, domain, payload)
  PROVE  SignedBy(l, n, slot, domain, payload)
BY DEF SignedBy, Wider

\* Whom an entry names is a node.
NamesNodes(m) ==
  /\ m.kind = "request" => m.requester \in NodeId
  /\ m.kind # "request" => m.response.custodian \in NodeId
  /\ m.kind \notin {"request", "response"} => m.authority \in NodeId

LEMMA EntryStays ==
  ASSUME NEW k, NEW l, Wider(k, l), NEW before, NEW asked, NEW m, NamesNodes(m),
         ReplayEntry(k, before, asked, m).ok
  PROVE  before.ok /\ ReplayEntry(l, before, asked, m) = ReplayEntry(k, before, asked, m)
<1>1. ReplayEntry(k, before, asked, m) # Failed
  BY DEF Failed
<1>2. before.ok
  BY <1>1 DEF ReplayEntry
<1>3. CASE m.kind = "request"
  <2>1. RequestVerifies(k, m)
    BY <1>1, <1>2, <1>3 DEF ReplayEntry
  <2>2. RequestVerifies(l, m)
    BY <1>3, <2>1, SignedStays DEF RequestVerifies, NamesNodes
  <2> QED
    BY <1>2, <1>3, <2>1, <2>2 DEF ReplayEntry
<1>4. CASE m.kind # "request"
  <2>1. m.response.request \in asked
    BY <1>1, <1>2, <1>4 DEF ReplayEntry
  <2>2. ResponseVerifies(k, m) => ResponseVerifies(l, m)
    BY <1>4, SignedStays DEF ResponseVerifies, NamesNodes
  <2>3. CASE m.kind = "response"
    <3>1. ResponseVerifies(k, m)
      BY <1>1, <1>2, <2>1, <2>3 DEF ReplayEntry
    <3> QED
      BY <1>2, <2>1, <2>2, <2>3, <3>1 DEF ReplayEntry
  <2>4. CASE m.kind # "response"
    <3> DEFINE place == before.last[PlaceOf(m.response)] + 1
    <3>1. CountersignedVerifies(k, m, place)
      BY <1>1, <1>2, <1>4, <2>1, <2>4 DEF ReplayEntry
    <3> HIDE DEF place
    <3>2. CountersignedVerifies(l, m, place)
      BY <1>4, <2>2, <2>4, <3>1, SignedStays DEF CountersignedVerifies, NamesNodes
    <3> QED
      BY <1>2, <1>4, <2>1, <2>4, <3>1, <3>2 DEF ReplayEntry, place
  <2> QED
    BY <2>3, <2>4
<1> QED
  BY <1>2, <1>3, <1>4

LEMMA ReplayStays ==
  ASSUME NEW k, NEW l, Wider(k, l), NEW s, Len(s) \in Nat,
         \A i \in 1..Len(s) : NamesNodes(s[i]), Replay(k, s).ok
  PROVE  Replay(l, s).ok
<1>1. PICK f : Replays(k, s, Len(s), f) /\ Replay(k, s) = f[Len(s)]
  BY ReplayIs
<1>2. PICK g : Replays(l, s, Len(s), g) /\ Replay(l, s) = g[Len(s)]
  BY ReplayIs
<1> DEFINE S == {n \in Nat : n <= Len(s) => (f[n].ok => g[n] = f[n])}
<1>3. ASSUME NEW n \in Nat, \A m \in 0..(n - 1) : m \in S PROVE n \in S
  <2> SUFFICES ASSUME n <= Len(s), f[n].ok PROVE g[n] = f[n]
    OBVIOUS
  <2>1. f[n] = After(k, s, n, f[n - 1]) /\ g[n] = After(l, s, n, g[n - 1])
    <3>1. n \in 0..Len(s)
      OBVIOUS
    <3>2. /\ f = [i \in 0..Len(s) |-> After(k, s, i, f[i - 1])]
          /\ g = [i \in 0..Len(s) |-> After(l, s, i, g[i - 1])]
      BY <1>1, <1>2 DEF Replays
    <3> QED
      BY <3>1, <3>2
  <2>2. CASE n = 0
    BY <2>1, <2>2 DEF After
  <2>3. CASE n # 0
    <3>1. n - 1 \in 0..(n - 1) /\ n - 1 <= Len(s) /\ n \in 1..Len(s)
      BY <2>3
    <3> DEFINE asked == Asked(SubSeq(s, 1, n - 1))
    <3>2. f[n] = ReplayEntry(k, f[n - 1], asked, s[n]) /\ g[n] = ReplayEntry(l, g[n - 1], asked, s[n])
      BY <2>1, <2>3 DEF After
    <3> HIDE DEF asked
    <3>3. NamesNodes(s[n]) /\ ReplayEntry(k, f[n - 1], asked, s[n]).ok
      BY <3>1, <3>2
    <3>4. f[n - 1].ok /\ ReplayEntry(l, f[n - 1], asked, s[n]) = f[n]
      BY <3>2, <3>3, EntryStays
    <3>5. g[n - 1] = f[n - 1]
      BY <1>3, <3>1, <3>4
    <3> QED
      BY <3>2, <3>4, <3>5
  <2> QED
    BY <2>2, <2>3
<1> HIDE DEF S
<1>4. Nat \subseteq S
  BY <1>3, CompleteInduction
<1>5. f[Len(s)].ok => g[Len(s)] = f[Len(s)]
  BY <1>4 DEF S
<1> QED
  BY <1>1, <1>2, <1>5

LEMMA AttestationStays ==
  ASSUME NEW k, NEW l, Wider(k, l), NEW a, a.service \in NodeId,
         HighStakes(a.statement.claim) => IsFiniteSet(DOMAIN a.quorum.signatures),
         HighStakes(a.statement.claim) => a.quorum.threshold \in Nat,
         AttestationVerifies(k, a)
  PROVE  AttestationVerifies(l, a)
<1>1. SignedBy(l, a.service, a.signature, "sovereign-attestation", a.statement)
  BY SignedStays DEF AttestationVerifies
<1>2. ASSUME HighStakes(a.statement.claim)
      PROVE  a.quorum # None /\ IsQuorate(l, a.quorum, a.statement)
  <2> DEFINE quorum(r) == QuorumKeys(r, a.quorum, a.statement)
             named == {a.quorum.signatures[i].key_id : i \in DOMAIN a.quorum.signatures}
  <2>1. IsFiniteSet(named)
    <3> DEFINE D == DOMAIN a.quorum.signatures
               key == [i \in D |-> a.quorum.signatures[i].key_id]
    <3>1. IsFiniteSet(D)
      BY <1>2
    <3>2. key \in Surjection(D, named)
      BY DEF Surjection
    <3> HIDE DEF D, key, named
    <3> QED
      BY <3>1, <3>2, FS_Surjection
  <2>2. quorum(l) \subseteq named
    BY DEF QuorumKeys
  <2>3. quorum(k) \subseteq quorum(l)
    BY DEF QuorumKeys, Wider
  <2> HIDE DEF named, quorum
  <2>4. IsFiniteSet(quorum(l)) /\ IsFiniteSet(quorum(k)) /\ Cardinality(quorum(k)) <= Cardinality(quorum(l))
    BY <2>1, <2>2, <2>3, FS_Subset
  <2>5. Cardinality(quorum(k)) \in Nat /\ Cardinality(quorum(l)) \in Nat
    BY <2>4, FS_CardinalityType
  <2>6. a.quorum # None /\ Cardinality(quorum(k)) >= a.quorum.threshold
    BY <1>2 DEF AttestationVerifies, IsQuorate, quorum
  <2>7. Cardinality(quorum(l)) >= a.quorum.threshold
    BY <1>2, <2>4, <2>5, <2>6
  <2> QED
    BY <2>6, <2>7 DEF IsQuorate, quorum
<1> QED
  BY <1>1, <1>2 DEF AttestationVerifies

\* What a view can be made of.
IsIssued(a) ==
  /\ a.service = Service
  /\ a.statement \in Statement
  /\ a.quorum # None <=> HighStakes(a.statement.claim)
  /\ a.quorum # None => /\ a.quorum.threshold \in Nat
                        /\ IsFiniteSet(DOMAIN a.quorum.signatures)

IsPolicy(p) ==
  /\ p.policy.policy_id = Governing
  /\ p.policy.authority = Authority
  /\ p.policy.version \in Nat

IsCarried(bundle) ==
  /\ bundle.spine.custodian = Custodian
  /\ bundle.journal \in Journals
  /\ \A p \in bundle.policies : IsPolicy(p)
  /\ \A a \in bundle.attestations : IsIssued(a)

LEMMA ViewStays ==
  ASSUME NEW k, NEW l, Wider(k, l), NEW view, IsCarried(view.bundle), ViewVerifies(k, view)
  PROVE  ViewVerifies(l, view)
<1> DEFINE d == view.bundle
<1>1. DossierVerifies(k, d) /\ \A input \in view.inputs : InputIsCommitted(view, input)
  BY DEF ViewVerifies
<1> HIDE DEF d
<1>2. /\ \A p \in d.policies : PolicyVerifies(k, p)
      /\ SpineVerifies(k, d.spine)
      /\ \A proof \in d.proofs : ProofVerifies(proof, d.spine.spine.root)
      /\ \A a \in d.attestations :
           /\ AttestationVerifies(k, a)
           /\ \E p \in d.policies : BindsPolicy(a, p.policy)
      /\ d.receipt # None => d.receipt = SpineDigest(d.spine.spine)
      /\ Replay(k, d.journal).ok
  BY <1>1 DEF DossierVerifies
<1>3. Custodian \in NodeId /\ Authority \in NodeId /\ Service \in NodeId
  BY NodeAssumption
<1>4. /\ d.spine.custodian = Custodian /\ d.journal \in Journals
      /\ \A p \in d.policies : IsPolicy(p)
      /\ \A a \in d.attestations : IsIssued(a)
  BY DEF IsCarried, d
<1>5. \A p \in d.policies : PolicyVerifies(l, p)
  BY <1>2, <1>3, <1>4, SignedStays DEF PolicyVerifies, IsPolicy
<1>6. SpineVerifies(l, d.spine)
  BY <1>2, <1>3, <1>4, SignedStays DEF SpineVerifies
<1>7. \A a \in d.attestations : AttestationVerifies(l, a)
  BY <1>2, <1>3, <1>4, AttestationStays DEF IsIssued
<1>8. Replay(l, d.journal).ok
  <2>1. Len(d.journal) \in Nat /\ \A i \in 1..Len(d.journal) : NamesNodes(d.journal[i])
    BY <1>4, CarriedAssumption DEF NamesNodes
  <2> QED
    BY <1>2, <2>1, ReplayStays
<1>9. DossierVerifies(l, d)
  BY <1>2, <1>5, <1>6, <1>7, <1>8 DEF DossierVerifies
<1> QED
  BY <1>1, <1>9 DEF ViewVerifies, d

-----------------------------------------------------------------------------
(* The invariant *)

Version == [states : [{Open, Sealed} -> State], at : Nat]

\* What was signed of the newest state stays of a state that was the newest then.
IsOfItsTime(a) ==
  /\ a.statement.as_of <= clock
  /\ \E e \in DOMAIN history :
       /\ a.statement.state_commitment = CommitState(history[e].states[Sealed])
       /\ e = Len(history) \/ history[e + 1].at >= a.statement.as_of

\* The verifier's view is made of what was published, signed and issued.
HeldIsMade ==
  held # None =>
    /\ IsCarried(held.bundle)
    /\ held.notarized_at \in 0..clock
    /\ held.bundle.attestations \subseteq attested

IInv ==
  /\ clock \in 0..MaxClock
  /\ history \in Seq(Version)
  /\ \A e \in DOMAIN history : history[e].at <= clock
  /\ IsFiniteSet(policies)
  /\ \A p \in policies : IsPolicy(p)
  /\ IsFiniteSet(attested)
  /\ \A a \in attested : IsIssued(a) /\ IsOfItsTime(a)
  /\ Keyring(known)
  /\ HeldIsMade
  /\ HeldViewIsOneHistory

LEMMA InitInv == Init => IInv
<1> SUFFICES ASSUME Init PROVE IInv
  OBVIOUS
<1>1. /\ clock = 0 /\ history = <<>> /\ policies = {} /\ attested = {} /\ held = None
      /\ known = [n \in NodeId |-> IF n \in KnownFirst THEN {KeyOf[n]} ELSE {}]
  BY DEF Init
<1>2. Keyring(known)
  BY <1>1, NodeAssumption DEF Keyring
<1>3. history \in Seq(Version) /\ DOMAIN history = {}
  BY <1>1
<1>4. HeldViewIsOneHistory /\ HeldIsMade
  BY <1>1 DEF HeldViewIsOneHistory, HeldIsMade
<1> QED
  BY <1>1, <1>2, <1>3, <1>4, BoundAssumption, FS_EmptySet DEF IInv

LEMMA EntryOf ==
  ASSUME NEW S, NEW s \in Seq(S)
  PROVE  \A i \in DOMAIN s : s[i] \in S
BY LenProperties, ElementOfSeq

\* The epochs that were published stay as they were.
Grows ==
  /\ DOMAIN history \subseteq DOMAIN history'
  /\ \A e \in DOMAIN history : history'[e] = history[e]
  /\ policies \subseteq policies'
  /\ attested \subseteq attested'
  /\ Wider(known, known')
  /\ clock \in Nat /\ clock' \in Nat /\ clock <= clock'

LEMMA PublishedStays ==
  ASSUME Grows, NEW e \in DOMAIN history
  PROVE  Published(e)' = Published(e)
BY DEF Grows, Published

LEMMA HeldStays ==
  ASSUME Grows, HeldIsMade, HeldViewIsOneHistory, held' = held
  PROVE  HeldIsMade' /\ HeldViewIsOneHistory'
<1> SUFFICES ASSUME held # None PROVE HeldIsMade' /\ HeldViewIsOneHistory'
  BY DEF HeldIsMade, HeldViewIsOneHistory
<1> DEFINE epoch == held.bundle.spine.spine.epoch
           states == history[epoch].states
<1>1. /\ IsCarried(held.bundle)
      /\ held.notarized_at \in 0..clock
      /\ held.bundle.attestations \subseteq attested
  BY DEF HeldIsMade
<1>2. /\ epoch \in DOMAIN history
      /\ held.bundle.spine = Published(epoch)
      /\ \A proof \in held.bundle.proofs :
           proof.commitment = CommitState(states[proof.segment_id])
      /\ \A input \in held.inputs : input.bytes = states[input.segment]
      /\ ReExecutes(held) =>
           held.payload = Render(Lens, {[name |-> "static", segment |-> Open, bytes |-> states[Open]]})
      /\ held.bundle.receipt \in {None, SpineDigest(Published(epoch).spine)}
      /\ \A a \in held.bundle.attestations :
           /\ a \in attested
           /\ \E p \in held.bundle.policies \cap policies : BindsPolicy(a, p.policy)
      /\ ViewVerifies(known, held)
  BY DEF HeldViewIsOneHistory
<1>3. /\ held'.notarized_at \in 0..clock'
      /\ held'.bundle.attestations \subseteq attested'
  BY <1>1 DEF Grows
<1>4. HeldIsMade'
  BY <1>1, <1>3 DEF HeldIsMade
<1>5. ViewVerifies(known', held)
  BY <1>1, <1>2, ViewStays DEF Grows
<1>6. /\ epoch \in DOMAIN history' /\ history'[epoch].states = states
      /\ Published(epoch)' = Published(epoch)
  <2>1. PICK e \in DOMAIN history : e = epoch
    BY <1>2
  <2>2. history'[e] = history[e] /\ e \in DOMAIN history'
    BY DEF Grows
  <2>3. epoch' = epoch
    BY DEF epoch
  <2> QED
    BY <2>1, <2>2, <2>3 DEF Published
<1>7. \A a \in held.bundle.attestations :
        /\ a \in attested'
        /\ \E p \in held.bundle.policies \cap policies' : BindsPolicy(a, p.policy)
  BY <1>2 DEF Grows
<1>8. HeldViewIsOneHistory'
  BY <1>2, <1>5, <1>6, <1>7 DEF HeldViewIsOneHistory
<1> QED
  BY <1>4, <1>8

\* An attestation stays of its time as long as a new epoch is published now.
LEMMA TimeStays ==
  ASSUME IInv, Grows, NEW a \in attested,
         \/ history' = history
         \/ \E v \in Version : history' = Append(history, v) /\ v.at = clock
  PROVE  IsOfItsTime(a)'
<1>1. /\ a.statement.as_of <= clock /\ a.statement.as_of \in Nat
      /\ clock \in Nat /\ clock' \in Nat /\ clock <= clock'
  BY DEF IInv, IsOfItsTime, IsIssued, Statement, Grows
<1>2. a.statement.as_of <= clock'
  BY <1>1
<1>3. PICK e \in DOMAIN history :
        /\ a.statement.state_commitment = CommitState(history[e].states[Sealed])
        /\ e = Len(history) \/ history[e + 1].at >= a.statement.as_of
  BY DEF IInv, IsOfItsTime
<1>4. CASE history' = history
  BY <1>2, <1>3, <1>4 DEF IsOfItsTime
<1>5. ASSUME NEW v \in Version, history' = Append(history, v), v.at = clock
      PROVE  IsOfItsTime(a)'
  <2>1. history \in Seq(Version)
    BY DEF IInv
  <2>2. /\ DOMAIN history = 1..Len(history) /\ Len(history) \in Nat
        /\ history' \in Seq(Version) /\ Len(history') = Len(history) + 1
        /\ \A i \in 1..Len(history) : history'[i] = history[i]
        /\ history'[Len(history) + 1] = v
    BY <1>5, <2>1, AppendProperties, LenProperties
  <2>3. DOMAIN history' = 1..(Len(history) + 1)
    BY <2>2, LenProperties
  <2>4. /\ e \in DOMAIN history' /\ history'[e] = history[e]
        /\ history'[e + 1].at >= a.statement.as_of
    <3>1. CASE e = Len(history)
      <4>1. history'[e + 1] = v /\ e \in 1..Len(history)
        BY <2>2, <3>1
      <4>2. v.at >= a.statement.as_of
        BY <1>1, <1>5
      <4> QED
        BY <2>2, <2>3, <4>1, <4>2
    <3>2. CASE e # Len(history)
      <4>1. e + 1 \in 1..Len(history)
        BY <2>2, <3>2
      <4> QED
        BY <1>3, <2>2, <2>3, <3>2, <4>1
    <3> QED
      BY <3>1, <3>2
  <2> QED
    BY <1>2, <1>3, <2>4 DEF IsOfItsTime
<1> QED
  BY <1>4, <1>5

LEMMA StillWider == ASSUME IInv, known' = known PROVE Wider(known, known')
BY DEF IInv, Wider

LEMMA TickInv == ASSUME IInv, Tick PROVE IInv'
<1>1. clock < MaxClock /\ clock' = clock + 1 /\ UNCHANGED <<history, policies, attested, known, held>>
  BY DEF Tick
<1>2. clock \in Nat /\ clock' \in 0..MaxClock /\ clock' \in Nat /\ clock <= clock'
  BY <1>1, BoundAssumption DEF IInv
<1>3. Grows
  BY <1>1, <1>2, StillWider DEF Grows
<1>4. \A a \in attested : IsOfItsTime(a)'
  BY <1>1, <1>3, TimeStays
<1>5. \A e \in DOMAIN history' : history'[e].at <= clock'
  <2> TAKE e \in DOMAIN history'
  <2>1. history \in Seq(Version) /\ e \in DOMAIN history /\ history[e].at <= clock
    BY <1>1 DEF IInv
  <2>2. history[e] \in Version
    BY <2>1, EntryOf
  <2>3. history[e].at \in Nat
    BY <2>2 DEF Version
  <2> QED
    BY <1>1, <1>2, <2>1, <2>3
<1>6. HeldIsMade' /\ HeldViewIsOneHistory'
  BY <1>1, <1>3, HeldStays DEF IInv
<1> QED
  BY <1>1, <1>2, <1>4, <1>5, <1>6 DEF IInv

LEMMA PublishInv ==
  ASSUME IInv, NEW open \in State, NEW sealed \in State, Publish(open, sealed)
  PROVE  IInv'
<1> DEFINE v == [states |-> [s \in {Open, Sealed} |-> IF s = Open THEN open ELSE sealed],
                 at |-> clock]
<1>1. history' = Append(history, v) /\ UNCHANGED <<clock, policies, attested, known, held>>
  BY DEF Publish
<1>2. clock \in Nat /\ v.at = clock /\ history \in Seq(Version)
  BY BoundAssumption DEF IInv
<1>3. v \in Version
  BY <1>2 DEF Version
<1> HIDE DEF v
<1>4. /\ DOMAIN history = 1..Len(history) /\ Len(history) \in Nat
      /\ history' \in Seq(Version) /\ Len(history') = Len(history) + 1
      /\ \A i \in 1..Len(history) : history'[i] = history[i]
      /\ history'[Len(history) + 1] = v
  BY <1>1, <1>2, <1>3, AppendProperties, LenProperties
<1>5. DOMAIN history' = 1..(Len(history) + 1)
  BY <1>4, LenProperties
<1>6. Grows
  BY <1>1, <1>2, <1>4, <1>5, StillWider DEF Grows
<1>7. \A a \in attested : IsOfItsTime(a)'
  BY <1>1, <1>2, <1>3, <1>6, TimeStays
<1>8. \A e \in DOMAIN history' : history'[e].at <= clock'
  <2> TAKE e \in DOMAIN history'
  <2>1. CASE e \in DOMAIN history
    BY <1>1, <1>4, <2>1 DEF IInv
  <2>2. CASE e = Len(history) + 1
    BY <1>1, <1>2, <1>4, <2>2
  <2> QED
    BY <1>4, <1>5, <2>1, <2>2
<1>9. HeldIsMade' /\ HeldViewIsOneHistory'
  BY <1>1, <1>6, HeldStays DEF IInv
<1> QED
  BY <1>1, <1>4, <1>7, <1>8, <1>9 DEF IInv

\* A step that leaves the history and the clock alone.
LEMMA StillInv ==
  ASSUME IInv, UNCHANGED <<clock, history, held>>,
         policies \subseteq policies', IsFiniteSet(policies'), \A p \in policies' : IsPolicy(p),
         attested \subseteq attested', IsFiniteSet(attested'),
         \A a \in attested' : IsIssued(a) /\ IsOfItsTime(a),
         Wider(known, known')
  PROVE  IInv'
<1>1. Grows
  BY BoundAssumption DEF IInv, Grows
<1>2. HeldIsMade' /\ HeldViewIsOneHistory'
  BY <1>1, HeldStays DEF IInv
<1>3. \A a \in attested' : IsOfItsTime(a)'
  BY DEF IsOfItsTime
<1> QED
  BY <1>2, <1>3 DEF IInv, Wider

LEMMA LegislateInv == ASSUME IInv, Legislate PROVE IInv'
<1> DEFINE current == {p \in policies : p.policy.superseded_by = None}
           next == Cardinality(current) + 1
<1>1. /\ policies' = policies \cup {PolicyVersion(next, None)}
                       \cup (IF next = 1 THEN {} ELSE {PolicyVersion(next - 1, next)})
      /\ UNCHANGED <<clock, history, attested, known, held>>
  BY DEF Legislate
<1>2. IsFiniteSet(policies) /\ \A p \in policies : IsPolicy(p)
  BY DEF IInv
<1>3. Cardinality(current) \in Nat
  <2>1. current \subseteq policies
    OBVIOUS
  <2> HIDE DEF current
  <2> QED
    BY <1>2, <2>1, FS_Subset, FS_CardinalityType
<1>4. next \in Nat /\ next - 1 \in Nat
  BY <1>3
<1> HIDE DEF next
<1>5. \A n \in Nat : \A by : IsPolicy(PolicyVersion(n, by))
  BY DEF IsPolicy, PolicyVersion, SignPolicy
<1>6. \A p \in policies' : IsPolicy(p)
  BY <1>1, <1>2, <1>4, <1>5
<1>7. IsFiniteSet(policies') /\ policies \subseteq policies'
  <2>1. IsFiniteSet(policies \cup {PolicyVersion(next, None)})
    BY <1>2, FS_AddElement
  <2>2. IsFiniteSet((policies \cup {PolicyVersion(next, None)}) \cup {PolicyVersion(next - 1, next)})
    BY <2>1, FS_AddElement
  <2> QED
    BY <1>1, <2>1, <2>2
<1> QED
  BY <1>1, <1>6, <1>7, StillWider, StillInv DEF IInv

LEMMA IssueInv ==
  ASSUME IInv, NEW p \in policies, NEW claim \in {"conformity", "freshness"},
         NEW members \in MemberLists, NEW threshold \in 1..2,
         IssueAttestation(p, claim, members, threshold)
  PROVE  IInv'
<1> DEFINE quorum == [id |-> Service, threshold |-> threshold, members |-> members]
           statement == [segment |-> Sealed,
                         state_commitment |-> CommitState(history[Len(history)].states[Sealed]),
                         claim |-> claim, as_of |-> clock,
                         governing_policy |-> p.policy.policy_id,
                         governing_policy_version |-> p.policy.version, subject |-> Passport]
           a == Attest(statement, Service, KeyOf[Service], quorum)
           minted == MintSign(Service, threshold, statement, members)
<1>1. /\ history # <<>>
      /\ attested' = attested \cup {a}
      /\ UNCHANGED <<clock, history, policies, known, held>>
  BY DEF IssueAttestation
<1>2. /\ clock \in Nat /\ history \in Seq(Version)
      /\ IsPolicy(p) /\ IsFiniteSet(attested) /\ IsFiniteSet(policies)
  BY BoundAssumption DEF IInv
<1>3. Len(history) \in DOMAIN history /\ Len(history) \in Nat
  BY <1>1, <1>2, LenProperties, EmptySeq
<1>4. history[Len(history)] \in Version
  BY <1>2, <1>3, EntryOf
<1>5. history[Len(history)].states[Sealed] \in State
  BY <1>4 DEF Version
<1>6. statement \in Statement
  BY <1>2, <1>5, NodeAssumption DEF Statement, IsPolicy, ClaimClass
<1>7. /\ a.service = Service /\ a.statement = statement
      /\ a.quorum = IF HighStakes(claim) THEN minted ELSE None
  BY DEF Attest
<1>8. minted # None /\ minted.threshold \in Nat /\ IsFiniteSet(DOMAIN minted.signatures)
  <2>1. members \in Seq(Key)
    BY CarriedAssumption
  <2>2. DOMAIN members = 1..Len(members) /\ Len(members) \in Nat
        /\ \A i \in DOMAIN members : members[i] \in Key
    BY <2>1, LenProperties, ElementOfSeq
  <2> DEFINE payload == QuorumBytes(statement, Service, threshold)
             Slots == [suite : Suite, key_id : Key,
                       signature : Key \X SigningDomain \X (NodeId \X Nat \X Statement)]
             slots == [i \in DOMAIN members |-> Slot(members[i], "quorum", payload)]
  <2>3. minted = [quorum |-> Service, threshold |-> threshold, signatures |-> slots]
    BY DEF MintSign
  <2>4. payload \in NodeId \X Nat \X Statement
    BY <1>6, NodeAssumption DEF QuorumBytes
  <2> HIDE DEF payload, statement
  <2>5. \A i \in DOMAIN members : Slot(members[i], "quorum", payload) \in Slots
    BY <2>2, <2>4, KeyAssumption DEF Slot, Signature, SigningDomain
  <2> HIDE DEF Slots
  <2>6. slots \in Seq(Slots)
    BY <2>2, <2>5
  <2>7. minted \in [quorum : NodeId, threshold : Nat, signatures : Seq(Slots)]
    BY <2>3, <2>6, NodeAssumption
  <2>8. minted # None
    BY <2>7, NoneAssumption DEF Slots
  <2>9. IsFiniteSet(1..Len(members))
    BY <2>2, FS_Interval
  <2> QED
    BY <2>2, <2>3, <2>8, <2>9
<1>9. IsIssued(a)
  <2> HIDE DEF a, minted
  <2> QED
    BY <1>6, <1>7, <1>8 DEF IsIssued
<1>10. IsOfItsTime(a)
  <2>1. a.statement.as_of = clock
        /\ a.statement.state_commitment = CommitState(history[Len(history)].states[Sealed])
    BY <1>7
  <2> HIDE DEF a
  <2> QED
    BY <1>2, <1>3, <2>1 DEF IsOfItsTime
<1> HIDE DEF a
<1>11. IsFiniteSet(attested')
  BY <1>1, <1>2, FS_AddElement
<1>12. \A x \in attested' : IsIssued(x) /\ IsOfItsTime(x)
  BY <1>1, <1>9, <1>10 DEF IInv
<1> QED
  BY <1>1, <1>11, <1>12, StillWider, StillInv DEF IInv

LEMMA LearnInv == ASSUME IInv, NEW n \in NodeId, Learn(n) PROVE IInv'
<1>1. /\ known[n] = {} /\ known' = [known EXCEPT ![n] = {KeyOf[n]}]
      /\ UNCHANGED <<clock, history, policies, attested, held>>
  BY DEF Learn
<1>2. Wider(known, known')
  <2>1. known \in [NodeId -> SUBSET Key] /\ \A m \in NodeId : known[m] \subseteq {KeyOf[m]}
    BY DEF IInv, Keyring
  <2>2. {KeyOf[n]} \in SUBSET Key
    BY NodeAssumption
  <2>3. known' \in [NodeId -> SUBSET Key]
    BY <1>1, <2>1, <2>2
  <2>4. ASSUME NEW m \in NodeId
        PROVE  known'[m] \subseteq {KeyOf[m]} /\ known[m] \subseteq known'[m]
    BY <1>1, <2>1, <2>4
  <2> QED
    BY <2>1, <2>3, <2>4 DEF Wider, Keyring
<1> QED
  BY <1>1, <1>2, StillInv DEF IInv

\* A spine that verifies under the verifier's keys is one that was published: the
\* other was signed with the service's key.
LEMMA VerifiedIsPublished ==
  ASSUME IInv, NEW open, NEW s \in Spines(open), SpineVerifies(known, s)
  PROVE  \E e \in DOMAIN history : s = Published(e) /\ s.spine.epoch = e
<1> DEFINE forged == SignSpine(SpineOver(1, [x \in {Open, Sealed} |-> CommitState(open)]),
                               Custodian, KeyOf[Service])
<1>1. s # forged
  <2> SUFFICES ASSUME s = forged PROVE FALSE
    OBVIOUS
  <2>1. s.custodian = Custodian /\ s.signature.key_id = KeyOf[Service]
    BY DEF SignSpine, Slot
  <2>2. s.signature.key_id \in known[s.custodian]
    BY DEF SpineVerifies, SignedBy
  <2>3. known[Custodian] \subseteq {KeyOf[Custodian]}
    BY NodeAssumption DEF IInv, Keyring
  <2> QED
    BY <2>1, <2>2, <2>3, NodeAssumption
<1>2. s \in {Published(e) : e \in DOMAIN history} \cup {forged}
  BY DEF Spines
<1> HIDE DEF forged
<1>3. PICK e \in DOMAIN history : s = Published(e)
  BY <1>1, <1>2
<1>4. s.spine.epoch = e
  BY <1>3 DEF Published, SignSpine, SpineOver
<1> QED
  BY <1>3, <1>4

LEMMA PublishedCommits ==
  ASSUME NEW e, NEW s \in {Open, Sealed}
  PROVE  /\ Published(e).spine.commitments[s] = CommitState(history[e].states[s])
         /\ Published(e).spine.root = <<"root", Published(e).spine.commitments>>
         /\ DOMAIN Published(e).spine.commitments = {Open, Sealed}
         /\ Published(e).custodian = Custodian
BY DEF Published, SignSpine, SpineOver

\* A view that is accepted tells one history when it is.
LEMMA IngestedIsOneHistory ==
  ASSUME IInv, NEW open \in State, NEW input \in State, NEW rendered \in State,
         NEW spine \in Spines(open), NEW proved \in {{e} : e \in DOMAIN history},
         NEW carried \in {{p} : p \in policies},
         NEW attestations \in {{}} \cup {{a} : a \in attested},
         NEW receipt \in {None} \cup DOMAIN history, NEW journal \in Journals,
         Ingest(spine, proved, carried, attestations, journal, receipt, input, rendered)
  PROVE  HeldIsMade' /\ HeldViewIsOneHistory'
<1> DEFINE inputs(state) == {[name |-> "static", segment |-> Open, bytes |-> state]}
           proofs == {SpineProof(Published(e).spine, Sealed) : e \in proved}
           digest == IF receipt = None THEN None ELSE SpineDigest(Published(receipt).spine)
           bundle == Bundle(spine, proofs, carried, attestations, journal, digest)
           view == Freeze(Passport, Render(Lens, inputs(rendered)), Lens, inputs(input), bundle, clock)
<1>1. /\ ViewVerifies(known, view) /\ held' = view
      /\ UNCHANGED <<clock, history, policies, attested, known>>
  BY DEF Ingest
<1>2. /\ view.bundle = bundle /\ view.inputs = inputs(input) /\ view.lens = Lens
      /\ view.payload = Render(Lens, inputs(rendered)) /\ view.notarized_at = clock
  BY DEF Freeze
<1>3. /\ bundle.spine = spine /\ bundle.proofs = proofs /\ bundle.policies = carried
      /\ bundle.attestations = attestations /\ bundle.journal = journal
      /\ bundle.receipt = digest
  BY DEF Bundle
<1> HIDE DEF bundle, view, digest
<1>4. /\ SpineVerifies(known, spine)
      /\ \A proof \in proofs : ProofVerifies(proof, spine.spine.root)
      /\ \A a \in attestations : \E p \in carried : BindsPolicy(a, p.policy)
      /\ digest # None => digest = SpineDigest(spine.spine)
      /\ \A i \in inputs(input) : InputIsCommitted(view, i)
  <2> HIDE DEF proofs
  <2> QED
    BY <1>1, <1>2, <1>3 DEF ViewVerifies, DossierVerifies
<1>5. PICK e \in DOMAIN history : spine = Published(e) /\ spine.spine.epoch = e
  BY <1>4, VerifiedIsPublished
<1>6. /\ attestations \subseteq attested /\ carried \subseteq policies
  OBVIOUS
<1>7. HeldIsMade'
  <2>1. IsCarried(view.bundle)
    <3>1. spine.custodian = Custodian
      BY <1>5, PublishedCommits
    <3> QED
      BY <1>2, <1>3, <1>6, <3>1 DEF IsCarried, IInv
  <2>2. view.notarized_at \in 0..clock /\ view.bundle.attestations \subseteq attested
    BY <1>2, <1>3, <1>6 DEF IInv
  <2> QED
    BY <1>1, <2>1, <2>2 DEF HeldIsMade
<1>8. ASSUME NEW proof \in proofs PROVE proof.commitment = CommitState(history[e].states[proof.segment_id])
  <2>1. PICK x \in proved : proof = SpineProof(Published(x).spine, Sealed)
    OBVIOUS
  <2>2. proof.segment_id = Sealed
    BY <2>1 DEF SpineProof
  <2>3. proof.path[proof.segment_id] = proof.commitment /\ spine.spine.root = <<"root", proof.path>>
    BY <1>4 DEF ProofVerifies
  <2>4. spine.spine.root = <<"root", spine.spine.commitments>>
    BY <1>5, PublishedCommits
  <2>5. proof.path = spine.spine.commitments
    BY <2>3, <2>4
  <2> QED
    BY <1>5, <2>2, <2>3, <2>5, PublishedCommits
<1>9. input = history[e].states[Open]
  <2> DEFINE i == [name |-> "static", segment |-> Open, bytes |-> input]
  <2>1. InputIsCommitted(view, i) /\ i.segment = Open /\ i.bytes = input
    BY <1>4
  <2> HIDE DEF i
  <2>2. CommitState(input) = spine.spine.commitments[Open]
    BY <1>2, <1>3, <2>1 DEF InputIsCommitted
  <2>3. CommitState(input) = CommitState(history[e].states[Open])
    BY <1>5, <2>2, PublishedCommits
  <2> QED
    BY <2>3 DEF CommitState
<1>10. ReExecutes(view) => view.payload = Render(Lens, inputs(history[e].states[Open]))
  BY <1>2, <1>9 DEF ReExecutes
<1>11. digest \in {None, SpineDigest(Published(e).spine)}
  BY <1>4, <1>5
<1>12. \A a \in attestations : a \in attested /\ \E p \in carried \cap policies : BindsPolicy(a, p.policy)
  BY <1>4, <1>6
<1>13. Published(e)' = Published(e)
  BY <1>1 DEF Published
<1>14. HeldViewIsOneHistory'
  <2>1. /\ held'.bundle.spine = spine /\ held'.bundle.proofs = proofs
        /\ held'.bundle.policies = carried /\ held'.bundle.attestations = attestations
        /\ held'.bundle.receipt = digest /\ held'.inputs = inputs(input)
    BY <1>1, <1>2, <1>3
  <2>2. \A i \in held'.inputs : i.bytes = history'[e].states[i.segment]
    BY <1>1, <1>9, <2>1
  <2>3. held'.bundle.spine.spine.epoch = e
    BY <1>5, <2>1
  <2>4. \A proof \in held'.bundle.proofs :
          proof.commitment = CommitState(history'[e].states[proof.segment_id])
    BY <1>1, <1>8, <2>1
  <2>5. ReExecutes(held') =>
          held'.payload = Render(Lens, {[name |-> "static", segment |-> Open,
                                         bytes |-> history'[e].states[Open]]})
    BY <1>1, <1>10
  <2>6. held'.bundle.receipt \in {None, SpineDigest(Published(e)'.spine)}
    BY <1>11, <1>13, <2>1
  <2>7. \A a \in held'.bundle.attestations :
          /\ a \in attested'
          /\ \E p \in held'.bundle.policies \cap policies' : BindsPolicy(a, p.policy)
    BY <1>1, <1>12, <2>1
  <2>8. e \in DOMAIN history' /\ held'.bundle.spine = Published(e)' /\ ViewVerifies(known', held')
    BY <1>1, <1>5, <1>13, <2>1
  <2> HIDE DEF proofs, inputs
  <2> QED
    BY <2>2, <2>3, <2>4, <2>5, <2>6, <2>7, <2>8 DEF HeldViewIsOneHistory
<1> QED
  BY <1>7, <1>14

LEMMA CarryInv == ASSUME IInv, Carry PROVE IInv'
<1>1. PICK open \in State, input \in State, rendered \in State :
        \E spine \in Spines(open), proved \in {{e} : e \in DOMAIN history},
           carried \in {{p} : p \in policies},
           attestations \in {{}} \cup {{a} : a \in attested},
           receipt \in {None} \cup DOMAIN history, journal \in Journals :
          Ingest(spine, proved, carried, attestations, journal, receipt, input, rendered)
  BY DEF Carry
<1>2. UNCHANGED <<clock, history, policies, attested, known>>
  BY <1>1 DEF Ingest
<1>3. HeldIsMade' /\ HeldViewIsOneHistory'
  BY <1>1, IngestedIsOneHistory
<1>4. \A a \in attested' : IsOfItsTime(a)'
  BY <1>2 DEF IInv, IsOfItsTime
<1> QED
  BY <1>2, <1>3, <1>4 DEF IInv

LEMMA StepInv == ASSUME IInv, [Next]_vars PROVE IInv'
<1>1. ASSUME NEW open \in State, NEW sealed \in State, Publish(open, sealed) PROVE IInv'
  BY <1>1, PublishInv
<1>2. ASSUME NEW p \in policies, NEW claim \in {"conformity", "freshness"},
             NEW members \in MemberLists, NEW threshold \in 1..2,
             IssueAttestation(p, claim, members, threshold)
      PROVE  IInv'
  BY <1>2, IssueInv
<1>3. ASSUME NEW n \in NodeId, Learn(n) PROVE IInv'
  BY <1>3, LearnInv
<1>4. CASE UNCHANGED vars
  <2>1. UNCHANGED <<clock, history, policies, attested, known, held>>
    BY <1>4 DEF vars
  <2> QED
    BY <2>1, StillWider, StillInv DEF IInv
<1> QED
  BY <1>1, <1>2, <1>3, <1>4, TickInv, LegislateInv, CarryInv DEF Next

LEMMA Invariance == Spec => []IInv
<1>1. IInv /\ [Next]_vars => IInv'
  BY StepInv
<1> QED
  BY InitInv, <1>1, PTL DEF Spec

-----------------------------------------------------------------------------
(* What follows *)

\* Every attestation is a statement with a quorum exactly when its claim is a
\* high-stakes one, and a check of what is held counts no more than were issued,
\* for any number of epochs, policy versions and attestations.
THEOREM TypeCorrect == Spec => []TypeOK
<1>1. ASSUME IInv PROVE TypeOK
  <2>1. \A e \in DOMAIN history : /\ history[e].states \in [{Open, Sealed} -> State]
                                 /\ history[e].at \in 0..clock
    <3> TAKE e \in DOMAIN history
    <3>1. history[e] \in Version /\ history[e].at <= clock
      BY <1>1, EntryOf DEF IInv
    <3> QED
      BY <1>1, <3>1, BoundAssumption DEF IInv, Version
  <2>2. ASSUME held # None
        PROVE  DossierCheck(known, held.bundle).attestations_ok <= Cardinality(attested)
    <3>1. held.bundle.attestations \subseteq attested /\ IsFiniteSet(attested)
      BY <1>1, <2>2 DEF IInv, HeldIsMade
    <3>2. Cardinality(held.bundle.attestations) <= Cardinality(attested)
      BY <3>1, FS_Subset
    <3> QED
      BY <3>2 DEF DossierCheck
  <2>3. \A a \in attested : a.statement \in Statement /\ (a.quorum # None <=> HighStakes(a.statement.claim))
    BY <1>1 DEF IInv, IsIssued
  <2> QED
    BY <1>1, <2>1, <2>2, <2>3 DEF IInv, TypeOK, Keyring, HeldIsMade
<1>2. IInv => TypeOK
  BY <1>1
<1> QED
  BY <1>2, Invariance, PTL

\* What the verifier accepts tells one history, and stays accepted as it learns
\* keys, whatever a courier mixes of any number of epochs, policies and journals.
THEOREM HeldIsOneHistory == Spec => []HeldViewIsOneHistory
<1>1. IInv => HeldViewIsOneHistory
  BY DEF IInv
<1> QED
  BY <1>1, Invariance, PTL

\* The keys whose slots verify are named by the slots.
LEMMA MembersSigned ==
  ASSUME NEW keys, NEW a, AttestationVerifies(keys, a), HighStakes(a.statement.claim),
         IsFiniteSet(DOMAIN a.quorum.signatures), a.quorum.threshold \in Nat
  PROVE  Cardinality({a.quorum.signatures[i].key_id : i \in DOMAIN a.quorum.signatures})
           >= a.quorum.threshold
<1> DEFINE D == DOMAIN a.quorum.signatures
           named == {a.quorum.signatures[i].key_id : i \in D}
           key == [i \in D |-> a.quorum.signatures[i].key_id]
           quorum == QuorumKeys(keys, a.quorum, a.statement)
<1>1. key \in Surjection(D, named)
  BY DEF Surjection
<1>2. quorum \subseteq named
  BY DEF QuorumKeys
<1>3. Cardinality(quorum) >= a.quorum.threshold
  BY DEF AttestationVerifies, IsQuorate
<1>4. IsFiniteSet(D)
  OBVIOUS
<1> HIDE DEF D, named, key, quorum
<1>5. IsFiniteSet(named)
  BY <1>1, <1>4, FS_Surjection
<1>6. IsFiniteSet(quorum) /\ Cardinality(quorum) <= Cardinality(named)
  BY <1>2, <1>5, FS_Subset
<1>7. Cardinality(quorum) \in Nat /\ Cardinality(named) \in Nat
  BY <1>5, <1>6, FS_CardinalityType
<1>8. Cardinality(named) >= a.quorum.threshold
  BY <1>3, <1>6, <1>7
<1> QED
  BY <1>8 DEF named, D

\* An attestation that the verifier counts was signed by as many members as its
\* profile asks for and is of a state that was the newest within the age that the
\* profile allows, for every profile, list of members and number of epochs.
THEOREM CountedIsEarned == Spec => []AttestedIsEarned
<1>1. ASSUME IInv PROVE AttestedIsEarned
  <2> SUFFICES ASSUME held # None, NEW a \in held.bundle.attestations,
                      Grade(Acceptance, a, Sealed, clock) = "attested-by-authority"
               PROVE  /\ HighStakes(a.statement.claim) =>
                           Cardinality({a.quorum.signatures[i].key_id :
                                          i \in DOMAIN a.quorum.signatures})
                             >= Acceptance.minimum_quorum
                      /\ \E e \in DOMAIN history :
                           /\ a.statement.state_commitment = CommitState(history[e].states[Sealed])
                           /\ Acceptance.max_age_secs # None =>
                                \/ e = Len(history)
                                \/ history[e + 1].at >= clock - Acceptance.max_age_secs
    BY DEF AttestedIsEarned
  <2>1. Counts(Acceptance, a, Sealed, clock)
    BY DEF Grade
  <2>2. a \in attested /\ IsIssued(a) /\ IsOfItsTime(a)
    BY <1>1 DEF IInv, HeldIsMade
  <2>3. AttestationVerifies(known, a)
    BY <1>1 DEF IInv, HeldViewIsOneHistory, ViewVerifies, DossierVerifies
  <2>4. ASSUME HighStakes(a.statement.claim)
        PROVE  Cardinality({a.quorum.signatures[i].key_id : i \in DOMAIN a.quorum.signatures})
                 >= Acceptance.minimum_quorum
    <3> DEFINE members == {a.quorum.signatures[i].key_id : i \in DOMAIN a.quorum.signatures}
               D == DOMAIN a.quorum.signatures
    <3>1. a.quorum # None /\ a.quorum.threshold \in Nat /\ IsFiniteSet(DOMAIN a.quorum.signatures)
      BY <2>2, <2>4 DEF IsIssued
    <3>2. Cardinality(members) >= a.quorum.threshold
      BY <2>3, <2>4, <3>1, MembersSigned
    <3>3. a.quorum.threshold >= Acceptance.minimum_quorum
      BY <2>1, <2>4, <3>1 DEF Counts, StatedThreshold
    <3>4. IsFiniteSet(members)
      <4> DEFINE key == [i \in D |-> a.quorum.signatures[i].key_id]
      <4>1. key \in Surjection(D, members)
        BY DEF Surjection
      <4>2. IsFiniteSet(D)
        BY <3>1
      <4> HIDE DEF key, members, D
      <4> QED
        BY <4>1, <4>2, FS_Surjection
    <3> HIDE DEF members
    <3>5. Cardinality(members) \in Nat
      BY <3>4, FS_CardinalityType
    <3>6. Cardinality(members) >= Acceptance.minimum_quorum
      BY <3>1, <3>2, <3>3, <3>5, AcceptanceAssumption
    <3> QED
      BY <3>6 DEF members
  <2>5. PICK e \in DOMAIN history :
          /\ a.statement.state_commitment = CommitState(history[e].states[Sealed])
          /\ e = Len(history) \/ history[e + 1].at >= a.statement.as_of
    BY <2>2 DEF IsOfItsTime
  <2>6. ASSUME Acceptance.max_age_secs # None, e # Len(history)
        PROVE  history[e + 1].at >= clock - Acceptance.max_age_secs
    <3>1. Acceptance.max_age_secs \in Nat /\ clock - a.statement.as_of \in 0..Acceptance.max_age_secs
      BY <2>1, <2>6, AcceptanceAssumption DEF Counts
    <3>2. clock \in Nat /\ a.statement.as_of \in Nat
      BY <1>1, <2>2, BoundAssumption DEF IInv, IsIssued, Statement
    <3>3. history \in Seq(Version)
      BY <1>1 DEF IInv
    <3>4. e + 1 \in DOMAIN history
      BY <2>6, <3>3, LenProperties
    <3>5. history[e + 1] \in Version
      BY <3>3, <3>4, EntryOf
    <3>6. history[e + 1].at \in Nat
      BY <3>5 DEF Version
    <3>7. history[e + 1].at >= a.statement.as_of
      BY <2>5, <2>6
    <3> QED
      BY <3>1, <3>2, <3>6, <3>7
  <2> QED
    BY <2>4, <2>5, <2>6
<1>2. IInv => AttestedIsEarned
  BY <1>1
<1> QED
  BY <1>2, Invariance, PTL

=============================================================================
