---------------------------- MODULE Transparency ----------------------------
(***************************************************************************)
(* The transparency logs of anchor.rs and spine_anchor.rs: operators       *)
(* append commitments and sign tree heads, a verifier pins the heads it    *)
(* finds consistent, custodians are served receipts for their spines, and  *)
(* the heads of the logs are anchored in a master log.                     *)
(*                                                                         *)
(* A log is named by its operator, whose key is the only one it signs      *)
(* with.  A faulty operator keeps no log: it signs the tree of any history *)
(* it may be caught with, in the name of any log.  Heads reach verifiers   *)
(* late, in any order and with the fields of one another, for all the      *)
(* fields of a head are public.                                            *)
(***************************************************************************)
EXTENDS MerkleTree, FiniteSets

CONSTANTS
  Log,            \* the witness logs, and their operators
  FaultyLog,      \* those whose operator does not keep to appending
  History,        \* the entries a faulty operator shows a tree of
  Fact, Salt,     \* facts and the salts that hide them
  Spine,          \* custodians' spines
  Time,           \* instants a head may carry
  Method,         \* external time sources
  Quorum,         \* LogOfLogs.m
  MaxEntries,     \* bound: entries of a log that only appends
  MaxTree,        \* bound: entries of the trees that proofs are shown of
  MaxHeads,       \* bound: heads signed
  MaxReceipts,    \* bound: receipts served
  MaxAnchored     \* bound: entries of the master log

ASSUME LogAssumption == FaultyLog \subseteq Log /\ IsFiniteSet(Log) /\ Quorum \in Nat

ASSUME BoundAssumption ==
  /\ MaxEntries \in Nat /\ MaxTree \in Nat /\ MaxEntries <= MaxTree
  /\ MaxHeads \in Nat
  /\ MaxReceipts \in Nat
  /\ MaxAnchored \in Nat

-----------------------------------------------------------------------------
(* Entries, heads and anchors *)

\* What a log anchors: a fact hidden by its salt, or the digest of a spine.
SaltedCommitment(fact, salt) == <<"salted", salt, fact>>

SpineDigest(spine) == <<"spine", spine>>

Commitment ==
  {SaltedCommitment(f, s) : f \in Fact, s \in Salt} \cup {SpineDigest(s) : s \in Spine}

Leaves(entries) == [i \in DOMAIN entries |-> LeafHash(entries[i])]

\* root_at_size, for a size the log has.
RootAtSize(entries, size) == Mth(Leaves(SubSeq(entries, 1, size)))

\* Mutant: the root is left out of what the operator signs.
BytesWithoutRoot(log_id, tree_size, timestamp, root) == <<log_id, tree_size, timestamp>>

\* The bytes of a head that its operator signs.
CanonicalBytes(log_id, tree_size, timestamp, root) ==
  <<log_id, tree_size, timestamp, root>>

HeadBytes(sth) == CanonicalBytes(sth.log_id, sth.tree_size, sth.timestamp, sth.root)

\* external_anchor_payload: the request that method is sent, over the digest of
\* the head's bytes.  The nonce comes from the digest.
ExternalAnchorPayload(sth, method) == [method |-> method, digest |-> HeadBytes(sth)]

VerifyExternalAnchor(anchor, sth) == anchor = ExternalAnchorPayload(sth, anchor.method)

\* SignedTreeHead::verify, under the key of an operator.
HeadVerifies(sth, operator) == sth.signature = <<operator, HeadBytes(sth)>>

\* The leaf a head contributes to the master log: neither its time nor its signature.
LolCommitment(sth) == <<"witness", sth.log_id, sth.tree_size, sth.root>>

-----------------------------------------------------------------------------

VARIABLES
  entries,     \* TransparencyLog.entries of each log
  heads,       \* the tree heads that were signed
  pinned,      \* the head of each log that the verifier pinned, or None
  receipts,    \* the receipts that were served
  master,      \* LogOfLogs.log: the commitments of the master log
  seq_by_log   \* LogOfLogs.seq_by_log

vars == <<entries, heads, pinned, receipts, master, seq_by_log>>

Honest == Log \ FaultyLog

\* A head as its operator signs it.
Signed(log_id, operator, at, tree_size, root) ==
  [log_id |-> log_id, tree_size |-> tree_size, timestamp |-> at, root |-> root,
   signature |-> <<operator, CanonicalBytes(log_id, tree_size, at, root)>>,
   external_anchor |-> None]

\* sign_tree_head over the entries of a log, which must have some.
HeadOf(log_entries, log_id, operator, at) ==
  Signed(log_id, operator, at, Len(log_entries), Mth(Leaves(log_entries)))

\* What a verifier may be shown for a head: the head, or the head with the tree
\* and the anchor of another one.
Shown(sth) ==
  {sth} \cup {[sth EXCEPT !.tree_size = other.tree_size, !.root = other.root,
                          !.external_anchor = other.external_anchor] : other \in heads}

\* The consistency proofs a verifier may be shown: of any entries.
AnyEntries == UNION {[1..n -> Commitment] : n \in 1..MaxTree}

ASSUME HistoryAssumption == History \subseteq AnyEntries

AnyConsistencyProof ==
  {<<>>} \cup UNION {{ConsistencyProof(Leaves(s), m) : m \in DOMAIN s} : s \in AnyEntries}

Init ==
  /\ entries = [l \in Log |-> <<>>]
  /\ heads = {}
  /\ pinned = [l \in Log |-> None]
  /\ receipts = {}
  /\ master = <<>>
  /\ seq_by_log = [l \in Log |-> <<>>]

-----------------------------------------------------------------------------
(* The operators *)

\* TransparencyLog::append, by which anchor_spine anchors a spine too.
AppendEntry(l, commitment) ==
  /\ l \in Honest
  /\ Len(entries[l]) < MaxEntries
  /\ entries' = [entries EXCEPT ![l] = Append(@, commitment)]
  /\ UNCHANGED <<heads, pinned, receipts, master, seq_by_log>>

\* sign_tree_head, which refuses an empty log.
SignTreeHead(l, at) ==
  /\ entries[l] # <<>>
  /\ Cardinality(heads) < MaxHeads
  /\ heads' = heads \cup {HeadOf(entries[l], l, l, at)}
  /\ UNCHANGED <<entries, pinned, receipts, master, seq_by_log>>

\* A faulty operator rewrites, truncates or forks what it logged
\* (entries_tamper_for_test, truncate_for_test) and signs in the name of any log.
SignRewritten(l, log_id, history, at) ==
  /\ l \in FaultyLog
  /\ Cardinality(heads) < MaxHeads
  /\ heads' = heads \cup {HeadOf(history, log_id, l, at)}
  /\ UNCHANGED <<entries, pinned, receipts, master, seq_by_log>>

\* anchored_externally: the head takes the request that its source is sent.
AnchorExternally(sth, method) ==
  /\ heads' = (heads \ {sth})
                \cup {[sth EXCEPT !.external_anchor = ExternalAnchorPayload(sth, method)]}
  /\ UNCHANGED <<entries, pinned, receipts, master, seq_by_log>>

\* SpineReceipt::serve: the entry, its proof and a head over the tree of now.
ReceiptOf(l, seq, at) ==
  [spine_digest |-> entries[l][seq + 1], log_id |-> l, seq |-> seq,
   proof |-> InclusionProof(Leaves(entries[l]), seq), head |-> HeadOf(entries[l], l, l, at)]

ServeReceipt(l, seq, at) ==
  /\ Cardinality(receipts) < MaxReceipts
  /\ seq < Len(entries[l])
  /\ receipts' = receipts \cup {ReceiptOf(l, seq, at)}
  /\ UNCHANGED <<entries, heads, pinned, master, seq_by_log>>

\* SpineReceipt::verify.
ReceiptVerifies(receipt, operator) ==
  /\ HeadVerifies(receipt.head, operator)
  /\ VerifyInclusion(receipt.spine_digest, receipt.proof, receipt.head.root)

-----------------------------------------------------------------------------
(* The verifier that pins heads *)

\* The head follows what is pinned by a proof that verifies.
Follows(old, new) ==
  \E proof \in AnyConsistencyProof :
    VerifyConsistency(old.tree_size, old.root, new.tree_size, new.root, proof)

\* A head is pinned when its log's operator signed it, the anchor it carries
\* commits to it and it follows the one that is pinned.
Pin(sth) ==
  /\ HeadVerifies(sth, sth.log_id)
  /\ sth.external_anchor # None => VerifyExternalAnchor(sth.external_anchor, sth)
  /\ pinned[sth.log_id] # None => Follows(pinned[sth.log_id], sth)
  /\ pinned' = [pinned EXCEPT ![sth.log_id] = sth]
  /\ UNCHANGED <<entries, heads, receipts, master, seq_by_log>>

-----------------------------------------------------------------------------
(* The master log *)

\* Mutant: the entries are numbered from one.
AppendNumberedFromOne(sth) ==
  /\ Len(master) < MaxAnchored
  /\ master' = Append(master, LolCommitment(sth))
  /\ seq_by_log' = [seq_by_log EXCEPT ![sth.log_id] = Append(@, Len(master) + 1)]
  /\ UNCHANGED <<entries, heads, pinned, receipts>>

\* append_witness_sth, which checks nothing of the head.
AppendWitnessSth(sth) ==
  /\ Len(master) < MaxAnchored
  /\ master' = Append(master, LolCommitment(sth))
  /\ seq_by_log' = [seq_by_log EXCEPT ![sth.log_id] = Append(@, Len(master))]
  /\ UNCHANGED <<entries, heads, pinned, receipts>>

\* Mutant: the proof is that of the first head the log anchored.
FirstWitnessProof(log_id) == InclusionProof(Leaves(master), Head(seq_by_log[log_id]))

\* witness_proof: of the last head that the log of this head anchored, if any.
WitnessProof(log_id) ==
  InclusionProof(Leaves(master), seq_by_log[log_id][Len(seq_by_log[log_id])])

MasterRoot == Mth(Leaves(master))

ItemVerifies(item, root) ==
  /\ HeadVerifies(item.sth, item.operator)
  /\ VerifyInclusion(LolCommitment(item.sth), item.proof, root)

\* Mutant: heads are counted, not logs.
QuorumOfHeads(root, items, m) ==
  (\A item \in items : ItemVerifies(item, root)) /\ Cardinality(items) >= m

\* verify_master_quorum: every item verifies (the first that does not is the
\* error) and they come from m distinct logs.
VerifyMasterQuorum(root, items, m) ==
  /\ \A item \in items : ItemVerifies(item, root)
  /\ Cardinality({item.sth.log_id : item \in items}) >= m

-----------------------------------------------------------------------------

Next ==
  \/ \E l \in Log, c \in Commitment : AppendEntry(l, c)
  \/ \E l \in Log, at \in Time : SignTreeHead(l, at)
  \/ \E l, log_id \in Log, history \in History, at \in Time :
       SignRewritten(l, log_id, history, at)
  \/ \E sth \in heads, method \in Method : AnchorExternally(sth, method)
  \/ \E l \in Log, seq \in 0..(MaxEntries - 1), at \in Time : ServeReceipt(l, seq, at)
  \/ \E sth \in heads : \E shown \in Shown(sth) : Pin(shown)
  \/ \E sth \in heads : AppendWitnessSth(sth)

Spec == Init /\ [][Next]_vars

-----------------------------------------------------------------------------
(* Properties *)

Root == {Mth(Leaves(s)) : s \in AnyEntries}

Anchor == [method : Method, digest : Log \X Nat \X Time \X Root]

SignedTreeHead ==
  [log_id : Log, tree_size : Nat, timestamp : Time, root : Root,
   signature : Log \X (Log \X Nat \X Time \X Root), external_anchor : {None} \cup Anchor]

\* The master log holds the leaves its index says, in the order of each log.
IndexCoversMaster ==
  /\ \A l \in Log : \A i \in DOMAIN seq_by_log[l] :
       /\ seq_by_log[l][i] + 1 \in DOMAIN master
       /\ master[seq_by_log[l][i] + 1][2] = l
       /\ \A j \in 1..(i - 1) : seq_by_log[l][j] < seq_by_log[l][i]
  /\ \A n \in DOMAIN master : \E i \in DOMAIN seq_by_log[master[n][2]] :
       seq_by_log[master[n][2]][i] = n - 1

TypeOK ==
  /\ DOMAIN entries = Log
  /\ \A l \in Log : entries[l] \in Seq(Commitment) /\ Len(entries[l]) <= MaxEntries
  /\ heads \subseteq SignedTreeHead
  /\ pinned \in [Log -> {None} \cup SignedTreeHead]
  /\ \A r \in receipts : r.log_id \in Log /\ r.spine_digest \in Commitment
  /\ \A n \in DOMAIN master : master[n] \in {"witness"} \X Log \X Nat \X Root
  /\ DOMAIN seq_by_log = Log
  /\ IndexCoversMaster

\* Every head that a log signed is the root of a prefix of it, if it only appends.
HonestHeads ==
  \A sth \in heads : \A l \in Honest : sth.signature[1] = l =>
    /\ sth.signature = <<l, HeadBytes(sth)>>
    /\ sth.log_id = l
    /\ sth.tree_size \in 1..Len(entries[l])
    /\ sth.root = RootAtSize(entries[l], sth.tree_size)

\* A log that only appends is never accused: every head it signed verifies and is
\* the root of its prefix (verify_size_against), and for every size and entry it
\* has the proofs it generates verify; so do those of the master log, and the
\* last head that a log anchored there can be proved.
HonestLogIsNeverAccused ==
  /\ \A l \in Honest : \E leaves \in {Leaves(entries[l])} : \E root \in {Mth(leaves)} :
       /\ \A m \in DOMAIN leaves :
            /\ VerifyConsistency(m, RootAtSize(entries[l], m), Len(leaves), root,
                                 ConsistencyProof(leaves, m))
            /\ VerifyInclusion(entries[l][m], InclusionProof(leaves, m - 1), root)
       /\ \A sth \in {h \in heads : h.signature[1] = l} :
            /\ HeadVerifies(sth, sth.log_id)
            /\ sth.root = RootAtSize(entries[l], sth.tree_size)
            /\ sth.external_anchor # None => VerifyExternalAnchor(sth.external_anchor, sth)
  /\ \A l \in Log :
       seq_by_log[l] # <<>> =>
         \E i \in DOMAIN master :
           /\ master[i][2] = l
           /\ \A j \in (i + 1)..Len(master) : master[j][2] # l
           /\ VerifyInclusion(master[i], WitnessProof(l), MasterRoot)

\* Whatever an operator rewrites and signs, what a verifier pins never forks: a
\* log's next pinned head is the root of some entries of its size that begin
\* with entries whose root was pinned.
PinnedHistoryNeverForks ==
  [][\A l \in Log :
       pinned[l] # None /\ pinned'[l] # pinned[l] =>
         \E s \in AnyEntries :
           /\ Len(s) = pinned'[l].tree_size
           /\ Mth(Leaves(s)) = pinned'[l].root
           /\ pinned[l].tree_size \in DOMAIN s
           /\ RootAtSize(s, pinned[l].tree_size) = pinned[l].root]_vars

\* The hashes inside a tree and the proofs that leave the lowest siblings out.
Inner(leaves) ==
  {Slice(leaves, i, j - i) : i \in 0..(Len(leaves) - 1), j \in 1..Len(leaves)} \ {None}

Shortened(proof) ==
  {[proof EXCEPT !.path = SubSeq(@, n, Len(@))] : n \in 1..(Len(proof.path) + 1)}

ShownProofs ==
  UNION {UNION {Shortened(InclusionProof(Leaves(entries[l]), m - 1)) :
                  m \in DOMAIN entries[l]} : l \in Log}

\* What is proved under the pinned head of a log that only appends is an entry it
\* has, and no hash inside a tree passes for one; a receipt that such a log served
\* verifies, and its spine is still the entry it says.
InclusionMeansAnchored ==
  /\ \A l \in Honest : pinned[l] # None =>
       \E shown \in {ShownProofs} :
       \A c \in Commitment \cup Inner(Leaves(entries[l])) :
         (\E proof \in shown : VerifyInclusion(c, proof, pinned[l].root))
         => \E i \in 1..pinned[l].tree_size : entries[l][i] = c
  /\ \A receipt \in receipts : receipt.log_id \in Honest =>
       /\ ReceiptVerifies(receipt, receipt.log_id)
       /\ receipt.seq + 1 \in DOMAIN entries[receipt.log_id]
       /\ entries[receipt.log_id][receipt.seq + 1] = receipt.spine_digest

\* A quorum of the master list that a verifier accepts, from heads each shown with
\* the key of its log's operator, holds at least as many logs that only append as
\* the faulty ones leave of it, each anchored with a tree it really had.
QuorumHasHonestWitnesses ==
  \E items \in {{[sth |-> sth, operator |-> sth.log_id,
                  proof |-> InclusionProof(Leaves(master), n - 1)] :
                   sth \in UNION {Shown(h) : h \in heads}, n \in DOMAIN master}} :
    \A chosen \in SUBSET items :
      Cardinality(chosen) <= Quorum + 1 /\ VerifyMasterQuorum(MasterRoot, chosen, Quorum) =>
        Cardinality({l \in Honest :
                       \E item \in chosen :
                         /\ item.sth.log_id = l
                         /\ item.sth.root = RootAtSize(entries[l], item.sth.tree_size)
                         /\ \E n \in DOMAIN master : master[n] = LolCommitment(item.sth)})
          >= Quorum - Cardinality(FaultyLog)

=============================================================================
