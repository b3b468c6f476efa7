# A verification model of unidpp-signatif

unidpp-signatif is the trust layer of a digital product passport system: a Rust
library whose values (trust graphs, revocation ledgers, ceremony sessions, logs)
live in one process each and are driven by calls that come from different
parties, at different times, in any order.  The modules of this directory model
the parts where that order matters, check them with TLC on small instances and
prove the most important facts with TLAPS for every instance.  Source paths are
under `src/src/` unless they say otherwise.

## The system

| component | state | operations | what makes it hard |
|---|---|---|---|
| ceremony coordinator, `confium/real.rs` | sessions, groups cached by quorum id, clock | `create_session`, `set_clock`, `submit_commitment`, `submit_share`, `aggregate` | two strict rounds among members who may misbehave, over a transport that delays and repeats; deadlines; a cache shared by sessions; blame |
| ceremony seam, `confium.rs` | the mock's sessions | the trait the coordinator implements; a mock for tests | what callers may rely on |
| threshold cryptography, `threshold.rs`, `bin/ceremony.rs` | files of a ceremony | `generate`, `verify_share`, `sign_partial`, `combine`, `verify` | partials are bound to one qualifying set; files of two ceremonies in one directory |
| revocation, `revoke.rs` | the ledger, the issuance index | `declare`, `record`; `key_standing_at`, `taints_of`, `withdrawn_conditions_at`, `is_quorate` | declarations are filed late and backdated, and cascade through a growing provenance graph |
| scopes, `scope.rs` | - | `narrow`, `admits`, `intersect`, `is_met_by` | half-open windows, wildcards, boundaries |
| trust graph, `graph.rs` | nodes, edges, trust lists, master list | `add_node`, `register`, `add_edge`, `trust`, `supersede`, `upsert`; `resolve` | credentials are added unverified in any order and judged at resolution; quorums; several paths |
| verification, `verify.rs` | - (stamps are handed out) | `verify`, `verify_historical`, `still_stands` | the past is judged with what was known then, by a ledger that has moved on |
| transparency, `anchor.rs`, `spine_anchor.rs` | logs of entries, the log of logs | `append`, proofs, `sign_tree_head`, external anchors, receipts, the master quorum | proofs across sizes, stale heads, operators that rewrite, witness quorums |
| co-signatures, `sign.rs`, `rollup.rs` | slots and composites | `sign_by`, `frame_by`, `attach_composite`, `verify`, `evaluate` | which slot satisfies which demand of a verifier |
| declarations and transport, `declaration.rs`, `transport.rs` | the declarations registered | `register`, `permits`, `declared_level`, `deliver`, `relay` | supersession, late versions, both sides of a relay |
| disclosure journal, `s13.rs` | journals, places | `append`, `replay` | loss, order and repetition of answers |
| device credentials, `device.rs` | - (what is held is the caller's) | `slot_standing`, `commit`, `verify_reveal` | credentials of any age for one key, revocation |
| accreditation, hierarchy | - (as above) | `standing_at`, `check_grant_class`, `admits` | grants of any version, windows, chains |
| recognition, bridges, parties, manifest: `scheme.rs`, `party.rs`, `signed_profile.rs`, `manifest.rs` | - | `recognize`, `resolve`, `bridge_fresh`, `declare_party`, `validate` | ages, tables, first matches |
| evidence: `grid.rs`, `sovereign.rs`, `dossier.rs`, `frozen.rs`, `acceptance.rs`, `provenance.rs` | - (what a courier carries) | issue, verify, `re_executes`, `grade`, `traverse` | genuine parts of different epochs in one bundle |
| keys and envelopes: `keyring.rs`, `envelope.rs` | - | encodings, seeds; sealing and opening | forms that read back as something else |
| `lib.rs`, `bin/device-drill.rs` | - | error types, a narration | nothing |

Everything is called synchronously; there are no threads and no async code.  The
interleavings that matter are of calls by different parties on one value:
members and outsiders on a session, registrars and verifiers on a ledger,
operators and verifiers on a log, couriers between custodians and verifiers.
Nothing is persisted by the library, so there is no crash recovery; only the
ceremony command line writes files.  `verify` reads the graph, the bundle, the
ledger, the issuance index and the provenance graph together; the ceremony uses
`threshold.rs` and produces the quorum signatures that credentials and
attestations carry; every signed object resolves its signer's keys in the graph
and verifies with `sign.rs`, which uses `keyring.rs`; a dossier carries spines,
policies, attestations, receipts and journals, and a frozen view a dossier.

## Modules

### The ceremony: `QuorumSigning`, `Ceremony`

`QuorumSigning` is what the seam promises: an act is opened for one quorum and
signed at most once, in one step, by a set of nodes that qualifies.

`Ceremony` is `RealCeremony`.  `sessions` is its map of sessions in creation
order (ids are handed out by a counter), `groups` its cache, `clock` its clock.
Each action is one method with every early return; a call that is refused and
changes nothing is a stuttering disjunct.  Cryptographic values are reduced to
what the coordinator compares: a transcript is the member's nonce point or is
not; the scalar of a partial is "honest", "respelled" (the same scalar in other
hex digits, which `combine` accepts and the string comparison of the blame path
does not) or "bad".  `CombineAccepts` states the verification equation of
`combine` by when it holds: a member computes its Lagrange coefficient and the
challenge over the committed set, `combine` over the signers, so the honest
scalar passes when the two sets are one.  A group is what its seed is made from.

The environment is in the module too.  Nodes of `Honest` use `commitment_for`
and `share_for` and hand the messages to a transport that delays and reorders
them without limit (an undelivered message is a lost one) and, when `Retries`
is set, delivers them again.  All other nodes submit anything under their own
name (`Misbehave`, which is the caller's and not the library's).  A node cannot
submit under another's name: the seam authenticates senders outside this crate.

`Threshold` is the algebra of `threshold.rs` over the scalars modulo a prime,
with a point written as the scalar that makes it; it is what `CombineAccepts`
takes for granted.  `CeremonyFiles` is `init` and `sign` of `bin/ceremony.rs`:
the files of one directory, which an `init` that is cut off leaves mixed.
`MockCeremony` is the mock coordinator of `confium.rs`, one operator per call.

### Revocation and stamps: `Revocation`

`ledger`, `issuances` and `parents` are the ledger, the issuance index and the
provenance graph (another crate, reduced to its parent relation); `stamps` are
the historical verifications that `verify_historical` handed out.  Actions are
`declare`, `record`, `record_combine` and `verify_historical`, at a clock that
only moves forward.  `Punctual` says whether the registrar dates declarations
with that clock; `declare` itself never checks the date.  The readings
(`KeyStanding`, `TaintsOf`, `StillStands`) are translated with their cutoffs,
their inclusive windows and the two rules of `taints_of` for passport and key
declarations.  A verdict is kept as whether its taints void the subject: the
other parts of a verdict are the core crate's.

### Scopes: `Scope`, `Narrowing`

`Scope` is the narrowing algebra as pure operators.  The three symbolic layers
are treated alike by the code, so a model keeps as many as it names.
`Narrowing` is the loop of `resolve` over the credentials of one path.

### The graph: `TrustGraph`

`TrustGraph` extends `Scope` and holds the nodes, the edges in the order added,
the trust lists and the master list.  A signature slot is the key it names and
whether it verifies.  `Resolve` follows the code: roots by id, the paths of a
root in index order, and for each the root, then credential by credential the
signature and the narrowing, then layers and conditions (`Acceptable`,
`AcceptedPaths`); the first acceptable candidate is taken (`IsFirst`).  A root
is accepted when a trust list in force names it and the master list has an entry
for it with enough witnesses; where there is no entry `attested` is `None`, and
the root is refused whatever number of witnesses is asked for.  Which of several
failures is reported is left out.  The graph's own behavior is `GraphSpec`, so
that a module that extends this one can add a ledger to it.  The depth-first
search is modelled by the set of walks between two nodes, which is the same set
on an acyclic graph.

### The pipeline: `Verification`

`Verification` extends `TrustGraph` and has `Revocation` as an instance
(`Ledger`), and adds no state: the verifier borrows the graph, the bundle and the ledger and
only reads them.  `Verifies`, `CompositeVerifies` and `VerifiedSuites` are the
cryptographic report of `sign.rs`, `PolicyAccepts` the policy, `Trusted` the
path and the conditions of `slot_trust`, `Accepted` the decision.  The act is
judged at the instant of its request, withdrawals at the present.  Of the core
verdict, which is another crate, only the void reading is kept; its other
refusals refuse more.

`Witnessing` holds the signed forms that these modules take as facts: the
credential and its co-signatures, the attestations of the master list's
witnesses, the notary's stamp.

### Signatures: `Signing`, `CoSigning`, `Keyring`, `Envelope`

`Signing` is what every signed object shares: suites and which of them this
build computes, domains, the slot of `sign.rs`, and the lookup of the declared
signer's keys (`SignedBy`) with which each `verify` of the crate begins.  A
signature is the term that only its key could make, over the tuple of the fields
that the object's canonical bytes hold; a field the code leaves out of the bytes
is left out of the tuple.

`CoSigning` is the assembly of co-signatures and composites, their report and
the policies, and the roll-up's slot (`rollup.rs`).  `Keyring` has the encodings
of a key, the serialized form, the fingerprint, and which of them read back.
`Envelope` seals one content key for several recipients; ciphers and derivations
are terms.

### Transparency: `MerkleTree`, `Transparency`

`MerkleTree` has the tree of `anchor.rs` as recursive functions: the root (`Mth`),
the inclusion path and the consistency proof, and the two verifications, which
consume the proof as the code does.  A hash is the term of what is hashed.

`Transparency` is the logs: operators that only append, and faulty ones that
sign the tree of any history in any log's name; heads, external anchors, served
receipts (`spine_anchor.rs`), a verifier that pins heads, and the log of logs
with `witness_proof` and `verify_master_quorum`.  Heads are shown with the
fields of one another, because the fields are public and unsigned as a struct.

### The exchange: `Declarations`, `Choreography`, `Exchange`

`Declarations` is the registry (`register`, `latest_for`, `permits`), `deliver`
and `relay`, and `declared_level` of `scheme.rs`.  `Choreography` is the signed
messages of `s13.rs` and `replay`.  `Exchange` composes them: a verifier and a
custodian with a journal each, messages that are lost, repeated and reordered,
declarations that are registered in any order meanwhile, and answers that cross
by delivery or through the hub.  The places of counter-signed answers are numbered
by the authority, in a book of its own (`places`): `issue` signs the sequence it is
given, and no code under `src/` keeps that book.

### Evidence: `Evidence`, `Coverage`, `Airgap`

`Evidence` has policies and spines (`grid.rs`), attestations (`sovereign.rs`) with
`is_quorate` (`revoke.rs`), dossiers and frozen views.  `Coverage` is what they count
for: `AcceptancePolicy.grade` and the traversal of an ancestry.  `Airgap` is
a custodian that publishes epochs, an authority that signs policy versions, a
service that attests, and a courier that mixes parts of any age into one view
for a verifier that calls nobody.

### Standing: `Parties`, `Devices`, `Recognition`, `Manifest`, `Standing`

`Parties` has the classes and the issuance matrix, profiles, grants and certified
chains; `Devices` the certificates, slot credentials and edge commitments;
`Recognition` the modes, portable statements and bridges; `Manifest` the
deployment manifest.  These are stateless; what is held, and in which order it
came, is the caller's, and `Standing` is that caller: grants, credentials and
links arrive late and in any order, bridges are described anew with any refresh
date, one to come included, keys are learned, the clock moves, everything is
judged when used.  A grant is held whoever signed it, as nothing in the code asks
for the class of its authority.  Classes, recognition and manifests, which no
operation keeps, are checked as functions in `MCStanding`.

`MC*` modules hold the small instances; `*Proofs` modules the theorems.

## What is checked

`airgap` uses the symmetry of the states of a segment, which are only compared
for equality; no other run uses symmetry, because ids are compared or chosen from.
Deadlock is not checked because every instance is bounded and every system may
stop: a coordinator, a ledger or a graph that nobody calls stays as it is.

| run | instance | shows |
|---|---|---|
| `ceremony_rounds` | an honest 2-of-3 quorum, one of two honest members and a misbehaving node, two malformed specs; deadlines, two instants, redelivery | strict rounds; past its deadline an uncompleted session does not go on, unless the clock is set back; no honest member is blamed but for a message delivered twice; an honest quorum without a deadline completes |
| `ceremony_shared_id` | two sessions over three specs that reuse one quorum id, all members arbitrary | a completed session is signed by exactly its own threshold of its own members, even over another spec's cached group; `Ceremony` implements `QuorumSigning` |
| `ceremony_expiry` (violation) | an honest 2-of-3 quorum, a deadline, two instants | a session past its unlock window is reported as pending and not as expired |
| `revocation_ledger` | two declarations, two keys, two passports, one stamp, two instants, punctual | what was known of the past is stable; a stamp falls only when deserved and for good; standings only worsen; distrust cascades to what was made from the void, and `taints_of` agrees with `key_standing_at` |
| `revocation_node` (violation) | one key, one node | a declaration against a node reaches none of its keys |
| `narrowing` | all scopes over one layer of two values, two instants and a condition of each kind, three credentials deep | the effective scope is the intersection; a widening hop is refused, never repaired; scopes only narrow |
| `trust_graph` | a root, a 2-of-2 group, a body; seven credentials, of which three are added; keys merged later; a trust list and a witness quorum | the graph stays acyclic; `resolve` is exact; what a key was resolved for it keeps |
| `verification` | a root, a body and a maker, a conditional path and a direct one of any three credentials; three co-signatures (plain, composite, with a broken composite); one declaration against a key or a condition; two instants | what is accepted rests on an authority no condition of which is withdrawn; what is void is not accepted again; a growing graph takes no acceptance away |
| `transparency` | a log that only appends, one that is rewritten, cut short and forked at four entries; two heads, one receipt, two anchored heads, a quorum of two; consistency proofs of any entries | the honest log is never accused; what a verifier pins never forks; what is proved under a head was anchored, and no inner hash passes for it; a quorum holds as many honest logs as the faulty ones leave of it |
| `exchange` | two requests about one subject, five declarations of which three are registered, two answers, journals of four entries | a verifier's journal that replays shows counter-signed answers in the custodian's order without a gap; no answer crosses against a withdrawn posture; a late version changes nothing |
| `airgap` | two epochs of two segments, two policy versions, one attestation with a real or a repeated quorum, two journals, a verifier that learns keys | what is accepted tells one history; an attestation that counts was co-signed by as many members as the profile asks for, and is fresh |
| `standing` | three versions of a grant, a forged one and one of a conformity body; four slot credentials that move a key; three links, a bridge described anew with any refresh date; four instants, five events besides time and keys | the latest grant that verifies decides alone; a lapsed standing comes back only by something newer, a stale bridge also when the day of its refresh comes; a slot key speaks for one segment and never again once revoked; commitments bind |

Why the bounds suffice.  The ceremony's interesting cases need an honest and a
bad partial in one session, a late message of each round, and a cached group
with another threshold or fewer members: all occur with three members and two
sessions.  A ledger needs two declarations to have one override or mask the
other, and a stamp before, between and after them; that a cascade reaches
further than one step is left to the proof, for every provenance.  Window ends
are covered with two instants and a window that ends at the first.
A graph needs three nodes for a cycle that is not a back edge, parallel
credentials of which one is refused for each reason, and a group that one
repeated signature must not satisfy.  The pipeline needs two paths to one key of
which one carries a condition, a withdrawal above the signer's own credential,
an act that precedes the withdrawal, and a composite with a member missing; one
passport is enough there, because derivation is the ledger's and proved.
A tree of four entries is the smallest in which an old tree ends inside the
right half of a new one, which is where the consistency proof descends; that
honest proofs verify is checked to nine.  A journal needs two answers of one
subject to have an order and a gap; a registry three declarations to have a
posture, a withdrawal and something late.  Two epochs and two policy versions
make every pair of parts that can be mixed.  Three versions of a grant give an
old one, an ended one and a future one.

`ResolveIsExact` compares `resolve`, which searches paths and folds scopes, with
an independent definition that uses neither: the scopes a node holds, found by
letting roots hold everything and holders pass on what is signed for and widens
nothing.  That the scope of the last credential is the effective one is what
`NothingIsRepaired` shows.

### Facts of stateless code

What concerns a function and not a behavior is an `ASSUME` of the MC module (or of
the module itself), which TLC evaluates at the start of the run over bounded
inputs.

| where | assumption | says |
|---|---|---|
| `MCCeremony` | `SharesVerify`, `PartialsCombine` | modulo 5, for every polynomial of 2-of-3: `verify_share` accepts what was dealt and nothing else; the partials of any two combine to the one signature that verifies; a changed partial is its member's |
| `MCCeremony` | `WiderListIsBlamed` | `sign_partial` takes a longer list of nonces than `combine` will: an honest member is then the culprit |
| `MCCeremony` | `MixedFilesAreNoticed` | of the files of two ceremonies in one directory, `sign` signs only with shares that fit the group it finds, and the group verifies it |
| `MCCeremony` | `MockCounts` | which sessions calls of the mock lead to: enough members committed and shared, but the lifecycle goes back |
| `MCAirgap` | `EveryAncestorIsGraded` | the traversal grades each reachable ancestor once |
| `MCAirgap` | `SuitesAreEarned`, `OnlyAttachingCompares`, `RollupsCheck` | the suites that a co-signature counts were each signed with; what covers other bytes is refused at attaching and not at verification; a roll-up verifies under its signer |
| `MCStanding` | `ChainNarrows`, `SignersResolve`, `StatementsResolve` | a chain admits what its narrowed scope grants; every object is accepted from its declared signer alone; statements resolve to first entries |
| `MCStanding` | `ClassIsNotAskedFor`, `ModesDoNotMix`, `ManifestsMigrate` | a party's class is what it was declared of last, and a grant of a conformity body counts like any other; a mode of recognition uses its own machinery alone; a valid manifest accepts a suite, mixes kinds in a hybrid phase and accepts classical suites last only for what was signed before |
| `Keyring` | `KeysComeBack`, `SeedsMakeKeys` | which forms of a key read back as the key; seeds make keys of the computed suites, no two the same |
| `Signing` | `SuiteTables` | the tables of a suite agree with each other |
| `MCTransparency` | `ProofsVerify` | inclusion and consistency proofs verify at every size to nine |
| `MCExchange` | `DeclarationsVerify`, `EnvelopesOpen`, `MixturesStayShut` | declarations verify from their declarer; envelopes open for their recipients and nobody else; no mixture of two envelopes opens |
| `MCTrustGraph` | `SlotsAreOfTheCredential`, `WitnessesCountOnce`, `StampsBindTheState` | a slot counts for the credential it signed; a witness counts once and under its own key; a stamp binds subject, instant and state but not the verdict |

### Fairness

Only `ceremony_rounds` assumes any, in `FairSpec`: each honest member answers
each round, the transport delivers each message it holds, and the caller asks for
the aggregate.  These are the drivers of the seam, as in
`src/tests/scenario_confium.rs`; nothing inside the library schedules anything.
Delivery is fair message by message and not as a whole: a transport that delivers
one message again for ever satisfies no promise about the others.  No step of
an outsider, no clock step and no creation of a session is assumed to happen.
Completion is claimed of sessions without a deadline that run over the group their
spec derives; over a group cached for another spec (`real.rs:318`) a session may
never complete.  The safety properties of the run need no fairness and are proved
without it.  The other components promise nothing that must eventually happen:
they answer when they are called.

### Where code and comments disagree

Two disagreements are runs of their own.  A declaration against a node reaches
none of its keys (`revocation_node`).  And no operation sets
`SessionState::Expired` (`ceremony_expiry`): a session past its window answers
every call with an error (`real.rs:222`) and is reported as `Pending`, where
`confium.rs:44` and `confium.rs:216` document that it expires; when the clock is
set back it is live again.  The following was noticed besides.

- Only governments and accreditation authorities may grant, says the comment of
  `issue` (`accreditation.rs:68`), and a standing is missing for a wrong class
  (`accreditation.rs:171`).  Neither `issue` (`accreditation.rs:72`) nor
  `standing_at` (`accreditation.rs:180`) asks: `check_grant_class`
  (`accreditation.rs:229`) is there for a caller to use, and nothing under `src/`
  calls it but a test.  The model asks nowhere either, and `ClassIsNotAskedFor`
  states that a conformity body's grant counts.
- `paths` sorts by edge index only; its comment says by length first
  (`graph.rs:696`, `graph.rs:702`).
- Of a key's paths only the first acceptable one is judged for withdrawn
  conditions (`verify.rs:227`), so a new credential may put a path with a
  withdrawn condition first and take an acceptance away that a parallel path
  still supports.
- A member of a composite that fails as a whole still counts as a verified slot
  with its own trust path in `accepted` (`verify.rs:292`), although the report
  gives the composite no suite.
- A group is cached by the quorum's id alone, and a session over another spec of
  that id runs over it (`real.rs:318`), where the comments speak of the group that
  the spec derives (`real.rs:54`, `real.rs:314`).
- The culprit of a failed combination is the first whose partial differs as a
  string from what is recomputed; the same scalar in other hex digits is blamed
  although `combine` accepts it (`real.rs:552`, `real.rs:87`).
- `still_stands` never reads the stamp's verdict: a backdated declaration of the
  stamp's own instant, filed later, is taken as known then, and the stamp stands
  (`verify.rs:453`, `verify.rs:437`).
- `accepted` asks the policy and the trust path of possibly different slots
  (`verify.rs:146`, `verify.rs:123`).
- `sign_partial` takes more nonces than the threshold and `combine` exactly as
  many, so that a partial made for a longer list is its member's fault
  (`threshold.rs:312`, `threshold.rs:370`).
- `witness_proof` proves the last head of a log whichever head it is given
  (`anchor.rs:774`); the proof of an older head of that log cannot be had.
  `verify_master_quorum` fails altogether for one bad item among enough good
  ones (`anchor.rs:802`).
- A journal's comment says that reordering fails replay (`s13.rs:250`); plain
  answers replay in any order and any number of times.  A counter-signed answer
  that is lost makes every later one of its subject fail for good.
- Two declarations of one version: the one registered last wins
  (`declaration.rs:297`).  Neither the window nor the signature of a declaration
  is asked when it is consulted.
- A slot credential's window is not looked at (`device.rs:228`), and the first one
  held decides even if a later one would verify.
- `standing_at` says expired of a grant whose window has not begun
  (`accreditation.rs:214`); grants of all authorities share one line of versions.
- The traversal of an ancestry takes edges last in, first out and grades the first
  edge to each ancestor only (`provenance.rs:113`), where its comments say
  breadth-first and every upstream edge (`provenance.rs:63`, `provenance.rs:69`).
- `PublicKey` serializes as a fingerprint and deserializes from the raw key
  (`keyring.rs:208`, `keyring.rs:214`): nothing reads back, except that of an
  Ed25519 key the digest reads back as another key.
- A composite is compared with its co-signature when it is attached
  (`sign.rs:647`) and not when the co-signature is verified (`sign.rs:681`).
- `any_computed` lists the two suites that are always computed, whatever features
  are on, where it speaks of the computed ones (`sign.rs:833`).
- The mock takes shares in any state, and late commitments take a session that
  has its shares back to its first round, where its comment says that it enforces
  the lifecycle (`confium.rs:330`).  Its double submissions are errors of kind
  misbehavior that record no proof.
- A dossier's receipt is compared with its spine by digest and not verified, the
  state of an attestation is bound to no epoch, and `FrozenView::verify` does not
  read the payload (`dossier.rs:100`, `frozen.rs:156`); `re_executes` does.
- `AcceptancePolicy.grade` verifies nothing and takes the threshold that the
  attestation states for itself (`acceptance.rs`).
- A bridge refreshed in the future is stale until then (`scheme.rs:341`).
- `validate` does not ask whether the suites of a manifest are computed here, nor
  that the classical phase has only classical ones (`manifest.rs:31`).
- A prospective declaration against a passport taints it inside and outside its
  window; one against its key only inside (`revoke.rs:522`, `revoke.rs:546`).

## What is proved

Every safety invariant and every action property that a run checks is a theorem
too: the run shows it on its instance, the theorem for every value of the
constants that satisfies the named assumptions.  Those say that instants are
numbers, that ids, keys and scopes are well-formed, that sets the code counts are
finite, and that absent values (`None`, `Refused`) are not among the present ones.
One is about parties: in `Airgap` the service and the custodian have different
keys, without which either could speak for the other.

Where the argument is about every size of something (a tree, a journal, a path),
it is an induction over the natural numbers.  `CompleteInduction` states it of a
set of numbers, from the well-foundedness of < in the library: a set that holds
each number all of whose predecessors it holds has them all.  That a recursive
function of the model satisfies its own equation is proved in the same way,
step by step (`TreeExists`, `ReplaysExist`), and then used like any fact.

**`CeremonyProofs`.**  The inductive invariant `IInv` is `TypeOK` and, for each
session, that its record is well typed, that the counts of its messages match
its state, and that a completed record is qualified under its group.  The shape
of the argument is one lemma per way a record changes (an abort, a commitment, a
share, a completion), one that every action changes at most one record in one of
these ways or opens one, and the invariant per way.  Strictness needs the exact
count of commitments, which needs that a commitment enters only a pending
session and closes it at the threshold; qualification follows from what
`combine` accepted and stays because nothing changes after completion.  That
each way but an opening needs the session to be live, completed or within its
deadline, gives `LifecycleIsOneWay` its clause on deadlines.
`CeremonyImplementsPromise` is the refinement: all steps but a successful
`Aggregate` and `CreateSession` stutter.

`BlameIsAlwaysDeserved` needs an invariant about messages (`BlameInv`): each message
of an honest member was built for a session that the member may speak in, a
share only by one that has committed; and what a session holds of an honest
member came by a message that no longer travels, unless it may again.  So a
message in flight is never the second of its kind, and no honest partial is a bad
one or comes from outside the committed set, which are all the reasons for a proof.

**`RevocationProofs`.**  `DistrustAlwaysCascades` rests on `Ancestors` being the
least set closed under parents, so the sources of a source are sources.  The
action properties rest on the ledger only growing (`GrowthExtends`): taints are
a union over declarations, so they only grow (`InvalidationsAreDeserved` names
the new one), and under `Punctual` what grows is dated no earlier than the clock,
which leaves every reading with an earlier cutoff alone (`EvidenceStaysStable`)
and so every invalidation standing (`InvalidationsArePermanent`).
`VoidIsForGood` adds both: what is void stays void and voids what is made from
it later.

**`NarrowingProofs`.**  The effective scope, when a path is not dropped, is the
scope of its last credential, and each credential's scope is admitted by the one
before: `EffectiveIsTheIntersection` is then an induction over the path, done as
an invariant of the walk.  Agreement of entailment and intersection is proved
per layer and for the window, with the open end.

**`VerificationProofs`**, first of the graph alone.  `StaysAcyclic`: a set that holds
a node and is closed under the edges holds all the node reaches.  What a node reached
before an edge p -> c was added is closed under the new edges unless it holds p, and
then its union with what c reached is; as c did not reach p, nothing new reaches
back.  `ResolvesExactly`: the fixed point of the independent definition is what is
held at the ends of the chains of credentials that are signed for and widen nothing
(`HeldIsChained`, by induction on their length); the fold of `resolve` over a path
refuses unless the path is such a chain (`EffectiveIsNarrowed`, as in
`NarrowingProofs`); and on an acyclic graph a chain visits no node twice, so it is
one of the paths (`ChainIsPath`).  `GrowthKeepsGrants`: an edge or a key that is
added leaves the old paths in their order and acceptable, and a first acceptable
path exists where there is any (`FirstExists`: paths of an acyclic graph are ordered
by their first difference).  The invariant is `GraphTypeOK`, `Acyclic` and
`NoContradiction`.

Then of the pipeline, whose steps are steps of the graph or leave it alone
(`GraphRuns`).  `VoidStaysRefused`: no step takes a declaration off the ledger,
so a source's taints stay; they reach whatever is made from it; and `accepted`
refuses what they void.  `AcceptanceIsAuthorized` goes from an accepted slot to
its path, and with `ResolvesExactly` to the scopes its signer holds;
`AcceptanceSurvivesGrowth` is `GrowthKeepsGrants` under a policy, with the readings
of the ledger that a step of the graph leaves.  Its premise that no condition is
withdrawn is one the code needs: a new credential may come first with one.

**`TransparencyProofs`.**  `IInv` is `LogsTyped`, `MasterTyped` (each index of the
master log points at a leaf of its log, in order) and `HonestHeads`: a head under
the key of a log that only appends is the root of a prefix.  `StandInv` adds what
travels: each head is of some tree, each pin of one and, of a log that only appends,
of one of its prefixes, and a receipt of such a log tells an entry at its place.  Of
the trees of every size: a root depends on its leaves only, wherever they stand
(`TreesAgree`); the path of a leaf climbs to the root and what climbs to a root is
one of its leaves, never an inner hash (`PathsClimb`, `ClimbsFromLeaves`); the
consistency proof of a prefix rebuilds both roots, and what it accepts is a prefix
(`WalksRebuild`, `ConsistentIsPrefix`).  From these `HonestStandsUnaccused`,
`IncludedIsAnchored`, `PinsNeverFork` and `QuorumIsAnchored`.  `QuorumIsHonest` needs
no more of a tree than that it is a function of its leaves; it generalises the last
to every root and to heads of mixed fields.

**`ExchangeProofs`.**  `IInv` types what is registered, sent and journaled: the
journals hold nothing that was not sent (`Sent`). `WithdrawnWill` and
`LateVersion` hold of any registry: they follow from what `permits` and
`declared_level` read of the newest declaration, and from an older version not
being the newest.  `ReplayIsTheExchange` has a second invariant, `JInv`: the
custodian's journal replays and holds every answer that was sent, the rank of
the last answer about a subject is the counter, and each of the two journals is
`Faithful`: if it replays, each answer in it was asked for and the place of each
counter-signed one is its rank.  It is kept because replaying one more entry is
one more step of the replay (`ReplayAppend`).

**`AirgapProofs`.**  `HeldIsOneHistory`: a signature under the custodian's name is
by a key that the verifier's graph has for it, so the spine is one that was
published, and proofs, inputs and receipt are compared with its root
(`IngestedIsOneHistory`); what was published does not change, and what verified
under fewer keys verifies under more, the replay of the journal included
(`ViewStays`, `ReplayStays`).  `CountedIsEarned` adds that what is attested was the
newest state when it was attested (`IsOfItsTime`), and that the quorum that verifies
counts different members (`MembersSigned`).  The shapes of what is made are
`IsIssued` and `HeldIsMade`.

**`StandingProofs`.**  `IInv` says what is held and logged is well typed and
that no commitment is ahead of the log (`CommitmentsHold`).  Each step appends
to what is held or leaves it (`HeldGrows`), so a first credential stays first
(`FirstStaysFirst`) and what verified under fewer keys verifies
(`MoreKeysSign`): that is `OneVoice`.  `Lapsed` compares the latest grant before
and after, which is unique up to version and place (`OneLatest`).
`LatestGrades` is the converse: what was admissible stays so
(`StaysAdmissible`), and unless something as recent newly counts the latest
grant is the same one (`LatestStays`), so at one instant it gives the same
standing.  `ChainsNarrow` is about chains of any length: where links verify and
each admits the next, `CertifiedChain::admits`, which compares no link with
another, grants what the last link does.

Only model-checked: liveness (`HonestQuorumCompletes`), which is out of the
prover's reach, and the facts of stateless code above.  Most of these are about
one function over bounded inputs.

## What is not modelled

Cryptography is ideal: a signature verifies or it does not, a hash is its input,
a ciphertext is opened by its key; `Threshold` alone does arithmetic, modulo a
small prime.  Byte encodings, hexadecimal, JSON, labels, serialization other than
of keys and error texts are left out everywhere, and so are the fields that no
reading compares: escalation and reciprocity references, names, units, details of
refusals.  Instants are numbers; the text forms of time that `accreditation.rs`
and `scheme.rs` parse are taken as parsed.  `key_standing`'s and `taints_of`'s
reports are kept up to the declaration they come from.  The core verdict, spines,
policies and S13 messages themselves are of other crates, and are modelled as
far as this one reads them.

`lib.rs` has error types and re-exports, and `bin/device-drill.rs` prints the
operations of `device.rs` on fixed data.  Of `bin/ceremony.rs` the argument parser
and the text of the files are left out.

What could come next: an abstract append-only history that `Transparency`
implements, and theorems for more of those facts of stateless code that hold of
every input.
