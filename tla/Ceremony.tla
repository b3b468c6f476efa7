------------------------------ MODULE Ceremony ------------------------------
(***************************************************************************)
(* The threshold-ceremony coordinator: RealCeremony in confium/real.rs,    *)
(* the implementation of the CeremonyCoordinator seam of confium.rs over   *)
(* the threshold cryptography of threshold.rs.  A session runs two rounds  *)
(* (commitments, then partial signatures) among the members of a quorum    *)
(* and aggregates one group signature.                                     *)
(*                                                                         *)
(* Cryptographic values are abstracted to what the coordinator compares.   *)
(* A transcript either is the member's deterministic nonce point or is     *)
(* not.  The scalar of a partial is "honest" (the string the coordinator   *)
(* recomputes for the member), "respelled" (the same scalar written with   *)
(* other hex digits, which combine accepts) or "bad".  A group is what its *)
(* seed is derived from: the threshold and the member set of a spec.       *)
(*                                                                         *)
(* The coordinator is driven by members.  The nodes of Honest build their  *)
(* messages with commitment_for and share_for and hand them to a transport *)
(* that may delay, reorder and lose them; the other nodes submit anything  *)
(* under their own name at any time.                                       *)
(***************************************************************************)
EXTENDS Integers, FiniteSets, Sequences, Functions

CONSTANTS
  Node,         \* node ids, as numbers in the order the ids sort
  Honest,       \* the nodes that follow the protocol
  Quorum,       \* the QuorumSpecs that callers pass to create_session
  Kind,         \* the ceremony kinds that callers ask for
  Time,         \* instants
  MaxSessions,  \* bound on the sessions of one coordinator
  Retries,      \* whether the transport may deliver a message again
  None          \* Rust's Option::None

ASSUME NodeAssumption == Node \subseteq Nat /\ IsFiniteSet(Node)

ASSUME HonestAssumption == Honest \subseteq Node

ASSUME QuorumAssumption ==
  \A q \in Quorum : /\ DOMAIN q = {"quorum_id", "threshold", "members"}
                    /\ q.threshold \in Nat
                    /\ q.members \in Seq(Node)

ASSUME TimeAssumption == Time \subseteq Nat /\ None \notin Time

ASSUME MaxSessionsAssumption == MaxSessions \in Nat

VARIABLES
  sessions,   \* the sessions in creation order; RealCeremony.counter is their number
  groups,     \* the cache of generated groups, by quorum id
  clock,      \* RealCeremony.clock
  inflight,   \* honest messages handed to the transport and not yet consumed
  sent        \* every honest message ever built

vars == <<sessions, groups, clock, inflight, sent>>

-----------------------------------------------------------------------------
(* Data *)

SessionState ==
  {"Pending", "CommitmentsCollected", "SharesCollected", "Completed", "Expired"}

Scalar == {"honest", "respelled", "bad"}

\* Round-2 material that is not JSON for a partial, names another index, or
\* carries a nonce other than the committed one, is "unbound".
Material == Scalar \cup {"unbound"}

Transcript == {"nonce_point", "other"}

Offense == {"outsider", "double", "uncommitted", "unbound", "invalid partial"}

QuorumId == {q.quorum_id : q \in Quorum}

\* What a group's seed is derived from, besides the id it is cached under.
GroupOf(q) == [threshold |-> q.threshold, members |-> Range(q.members)]

Group == {GroupOf(q) : q \in Quorum}

MisbehaviorProof == [offender : Node, offense : Offense]

\* An act of a session as its caller sees it: who asked, and who signed.
Act == [quorum : Quorum, signers : SUBSET Node]

ASSUME NoneAssumption ==
  /\ None \notin Scalar
  /\ None \notin Group
  /\ None \notin MisbehaviorProof
  /\ None \notin Act

Session ==
  [quorum     : Quorum,
   expires_at : Time \cup {None},
   state      : SessionState,
   committed  : SUBSET Node,
   partials   : [Node -> Scalar \cup {None}],
   abort      : MisbehaviorProof \cup {None}]

Message == [round : {1, 2}, session : 1..MaxSessions, signer : Node]

Commitment(s, m) == [round |-> 1, session |-> s, signer |-> m]

Share(s, m) == [round |-> 2, session |-> s, signer |-> m]

-----------------------------------------------------------------------------
(* What the coordinator reads *)

\* QuorumSpec::validate.
Validates(q) ==
  /\ q.threshold # 0
  /\ q.threshold <= Len(q.members)
  /\ Cardinality(Range(q.members)) = Len(q.members)

Members(q) == Range(q.members)

Elapsed(s) ==
  /\ clock # None
  /\ sessions[s].expires_at # None
  /\ clock > sessions[s].expires_at

\* Mutant: the deadline is looked at in the first round only.
LiveOnceCommitted(s) == ~(Elapsed(s) /\ sessions[s].state = "Pending")

\* live: after its deadline a session is read, as long as it completed before.
Live(s) == ~(Elapsed(s) /\ sessions[s].state # "Completed")

\* session_state: what is stored, whatever the clock says.
Reported(s) == sessions[s].state

\* Mutant: round 1 never closes to a live session.
RoundOneNeverCloses(s) == Live(s)

\* A message outside its round, or after the deadline, is refused unread.
RoundOneOpen(s) == Live(s) /\ sessions[s].state = "Pending"

RoundTwoOpen(s) == Live(s) /\ sessions[s].state = "CommitmentsCollected"

SessionGroup(s) == groups[sessions[s].quorum.quorum_id]

\* A member's index is its position among the sorted members, from 1.
IndexOf(q, m) == Cardinality({x \in Members(q) : x <= m})

\* share_at: the cached group has a share for the member's index.
HasShare(s, m) ==
  IndexOf(sessions[s].quorum, m) <= Cardinality(SessionGroup(s).members)

\* The members whose partials round 2 has accepted.
Shared(ss) == {m \in Node : ss.partials[m] # None}

\* sign_partial refuses a qualifying set smaller than the group's threshold,
\* and a share whose index is not in it.
CanSign(s, m) ==
  /\ m \in sessions[s].committed
  /\ HasShare(s, m)
  /\ Cardinality(sessions[s].committed) >= SessionGroup(s).threshold

\* Mutant: the partials are counted and not verified.
CombineCountsOnly(s) ==
  Cardinality(Shared(sessions[s])) = SessionGroup(s).threshold

\* combine: exactly the group's threshold of partials, each satisfying
\* s_i.B = R_i + c.lambda_i.A_i.  A member computed lambda_i and c over the
\* committed set and combine computes them over the signers, so the equation
\* holds for the honest scalar when the two sets are one.
CombineAccepts(s) ==
  LET ss == sessions[s] IN
  /\ Cardinality(Shared(ss)) = SessionGroup(s).threshold
  /\ Shared(ss) = ss.committed
  /\ \A m \in Shared(ss) : ss.partials[m] \in {"honest", "respelled"}

\* Mutant: the first contributor is taken for the culprit.
DeviatingIsAnyone(ss) == Shared(ss)

\* The members whose stored partial is not, string for string, the honest one.
Deviating(ss) == {m \in Shared(ss) : ss.partials[m] # "honest"}

-----------------------------------------------------------------------------
(* The coordinator's operations *)

RecordAbort(s, m, offense) ==
  sessions' = [sessions EXCEPT ![s].abort = [offender |-> m, offense |-> offense]]

CreateSession(q, kind, expires_at) ==
  /\ Len(sessions) < MaxSessions
  /\ Validates(q)
  /\ kind \in {"Dkg", "Sign"}
  /\ groups' = IF groups[q.quorum_id] = None
               THEN [groups EXCEPT ![q.quorum_id] = GroupOf(q)]
               ELSE groups
  /\ sessions' = Append(sessions,
       [quorum |-> q, expires_at |-> expires_at, state |-> "Pending",
        committed |-> {}, partials |-> [m \in Node |-> None], abort |-> None])
  /\ UNCHANGED <<clock, inflight, sent>>

SetClock(t) ==
  /\ clock' = t
  /\ UNCHANGED <<sessions, groups, inflight, sent>>

\* Mutant: round 1 waits for one commitment too many.
AcceptCommitmentOffByOne(s, m) ==
  LET committed == sessions[s].committed \cup {m} IN
  sessions' = [sessions EXCEPT
    ![s].committed = committed,
    ![s].state = IF Cardinality(committed) > sessions[s].quorum.threshold
                 THEN "CommitmentsCollected" ELSE @]

AcceptCommitment(s, m) ==
  LET committed == sessions[s].committed \cup {m} IN
  sessions' = [sessions EXCEPT
    ![s].committed = committed,
    ![s].state = IF Cardinality(committed) >= sessions[s].quorum.threshold
                 THEN "CommitmentsCollected" ELSE @]

\* Mutant: the signer is not looked up among the members.
SubmitCommitmentOpen(s, m, transcript) ==
  RoundOneOpen(s) /\ transcript = "nonce_point" /\ AcceptCommitment(s, m)

SubmitCommitment(s, m, transcript) ==
  \/ /\ ~RoundOneOpen(s) \/ (m \in Members(sessions[s].quorum) /\ ~HasShare(s, m))
     /\ UNCHANGED sessions
  \/ /\ RoundOneOpen(s)
     /\ \/ /\ m \notin Members(sessions[s].quorum)
           /\ RecordAbort(s, m, "outsider")
        \/ /\ m \in sessions[s].committed
           /\ RecordAbort(s, m, "double")
        \/ /\ m \in Members(sessions[s].quorum) \ sessions[s].committed
           /\ HasShare(s, m)
           /\ \/ transcript # "nonce_point" /\ RecordAbort(s, m, "unbound")
              \/ transcript = "nonce_point" /\ AcceptCommitment(s, m)

AcceptShare(s, m, scalar) ==
  LET partials == [sessions[s].partials EXCEPT ![m] = scalar] IN
  sessions' = [sessions EXCEPT
    ![s].partials = partials,
    ![s].state = IF Cardinality({x \in Node : partials[x] # None})
                      >= sessions[s].quorum.threshold
                 THEN "SharesCollected" ELSE @]

SubmitShare(s, m, material) ==
  \/ ~RoundTwoOpen(s) /\ UNCHANGED sessions
  \/ /\ RoundTwoOpen(s)
     /\ \/ /\ m \notin Members(sessions[s].quorum)
           /\ RecordAbort(s, m, "outsider")
        \/ /\ m \in Members(sessions[s].quorum) \ sessions[s].committed
           /\ RecordAbort(s, m, "uncommitted")
        \/ /\ m \in Shared(sessions[s])
           /\ RecordAbort(s, m, "double")
        \/ /\ m \in sessions[s].committed \ Shared(sessions[s])
           /\ \/ material = "unbound" /\ RecordAbort(s, m, "unbound")
              \/ material # "unbound" /\ AcceptShare(s, m, material)

\* A failed combination names the lowest index whose partial deviates; when
\* none does, or the honest partials cannot be recomputed, nothing changes.
Aggregate(s) ==
  LET ss == sessions[s] IN
  /\ Live(s)
  /\ Cardinality(Shared(ss)) >= ss.quorum.threshold
  /\ \/ /\ CombineAccepts(s)
        /\ sessions' = [sessions EXCEPT ![s].state = "Completed"]
     \/ /\ ~CombineAccepts(s)
        /\ Cardinality(ss.committed) >= SessionGroup(s).threshold
        /\ \E m \in Deviating(ss) :
             /\ \A x \in Deviating(ss) : m <= x
             /\ RecordAbort(s, m, "invalid partial")
  /\ UNCHANGED <<groups, clock, inflight, sent>>

-----------------------------------------------------------------------------
(* The members and the transport *)

Send(msg) ==
  /\ msg \notin sent
  /\ sent' = sent \cup {msg}
  /\ inflight' = inflight \cup {msg}
  /\ UNCHANGED <<sessions, groups, clock>>

\* commitment_for: fails unless the node is a member with a share.
SendCommitment(s, m) ==
  /\ m \in Members(sessions[s].quorum)
  /\ HasShare(s, m)
  /\ Send(Commitment(s, m))

\* share_for: needs round 1 closed and the member in the committed set.
SendShare(s, m) ==
  /\ sessions[s].state = "CommitmentsCollected"
  /\ m \in Members(sessions[s].quorum)
  /\ CanSign(s, m)
  /\ Send(Share(s, m))

Deliver(msg) ==
  /\ \/ msg.round = 1 /\ SubmitCommitment(msg.session, msg.signer, "nonce_point")
     \/ msg.round = 2 /\ SubmitShare(msg.session, msg.signer, "honest")
  /\ \/ inflight' = inflight \ {msg}
     \/ Retries /\ UNCHANGED inflight
  /\ UNCHANGED <<groups, clock, sent>>

Misbehave(s, m) ==
  /\ \/ \E transcript \in Transcript : SubmitCommitment(s, m, transcript)
     \/ \E material \in Material : SubmitShare(s, m, material)
  /\ UNCHANGED <<groups, clock, inflight, sent>>

-----------------------------------------------------------------------------

Init ==
  /\ sessions = <<>>
  /\ groups = [id \in QuorumId |-> None]
  /\ clock = None
  /\ inflight = {}
  /\ sent = {}

Next ==
  \/ \E q \in Quorum, kind \in Kind, t \in Time \cup {None} : CreateSession(q, kind, t)
  \/ \E t \in Time : SetClock(t)
  \/ \E s \in DOMAIN sessions :
       \/ \E m \in Honest : SendCommitment(s, m) \/ SendShare(s, m)
       \/ \E m \in Node \ Honest : Misbehave(s, m)
       \/ Aggregate(s)
  \/ \E msg \in inflight : Deliver(msg)

Spec == Init /\ [][Next]_vars

\* Honest members answer each round, the transport delivers each message it
\* holds, however often it repeats others, and the caller asks for the aggregate.
\* No other step is assumed to happen.
Fairness ==
  /\ WF_vars(\E s \in DOMAIN sessions, m \in Honest : SendCommitment(s, m) \/ SendShare(s, m))
  /\ \A msg \in Message : WF_vars(msg \in inflight /\ Deliver(msg))
  /\ \A s \in 1..MaxSessions : WF_vars(s \in DOMAIN sessions /\ Aggregate(s))

FairSpec == Spec /\ Fairness

-----------------------------------------------------------------------------
(* Properties *)

\* Every session is over a quorum that create_session validated, only members
\* of that quorum are in the committed set, and only messages that were built
\* for a session travel.
TypeOK ==
  /\ sessions \in Seq(Session)
  /\ Len(sessions) <= MaxSessions
  /\ \A s \in DOMAIN sessions :
       /\ Validates(sessions[s].quorum)
       /\ sessions[s].committed \subseteq Members(sessions[s].quorum)
       /\ groups[sessions[s].quorum.quorum_id] # None
  /\ groups \in [QuorumId -> Group \cup {None}]
  /\ clock \in Time \cup {None}
  /\ sent \subseteq Message
  /\ \A msg \in sent : msg.session \in DOMAIN sessions
  /\ inflight \subseteq sent

\* Rounds are strict (real.rs, "Protocol mapping"): exactly the threshold of
\* commitments closes round 1, exactly as many partials close round 2, and
\* those who signed are those who committed.
RoundsStrict ==
  \A s \in DOMAIN sessions :
    LET ss == sessions[s]
        commitments == Cardinality(ss.committed)
        shares == Cardinality(Shared(ss))
    IN /\ Shared(ss) \subseteq ss.committed
       /\ ss.state = "Pending" => commitments < ss.quorum.threshold /\ shares = 0
       /\ ss.state = "CommitmentsCollected" =>
            commitments = ss.quorum.threshold /\ shares < ss.quorum.threshold
       /\ ss.state \in {"SharesCollected", "Completed"} =>
            commitments = ss.quorum.threshold /\ Shared(ss) = ss.committed

\* A completed session carries the valid partials of exactly the threshold of
\* distinct members of its own quorum, and its group has that threshold: a
\* session that accepted a bad partial, or whose group was cached for another
\* threshold, never completes.
QualifiedSignature ==
  \A s \in DOMAIN sessions :
    LET ss == sessions[s] IN
    ss.state = "Completed" =>
      /\ Cardinality(Shared(ss)) = ss.quorum.threshold
      /\ SessionGroup(s).threshold = ss.quorum.threshold
      /\ \A m \in Shared(ss) : /\ m \in Members(ss.quorum)
                               /\ ss.partials[m] \in {"honest", "respelled"}

\* The misbehavior proof of an identifiable abort never names a member who
\* followed the protocol, whatever the others submit and however late the
\* transport is; only a message delivered again is held against its sender.
BlameIsDeserved ==
  \A s \in DOMAIN sessions :
    LET abort == sessions[s].abort IN
    abort # None =>
      abort.offender \notin Honest \/ (Retries /\ abort.offense = "double")

\* The session lifecycle of confium.rs: one state forward at a time, or from the
\* first to Expired; accepted commitments and partials are never replaced, and
\* nothing but the recorded abort changes once a session is completed.  While the
\* clock is past the deadline of a session that is not completed, no message and
\* no request to aggregate does anything to it but expire it.
Lifecycle ==
  \A s \in DOMAIN sessions :
    LET old == sessions[s]
        new == sessions'[s]
    IN /\ <<old.state, new.state>> \in
            {<<x, x>> : x \in SessionState}
              \cup {<<"Pending", "CommitmentsCollected">>,
                    <<"CommitmentsCollected", "SharesCollected">>,
                    <<"SharesCollected", "Completed">>,
                    <<"Pending", "Expired">>}
       /\ new.quorum = old.quorum
       /\ old.committed \subseteq new.committed
       /\ \A m \in Shared(old) : new.partials[m] = old.partials[m]
       /\ old.state # "Pending" => new.committed = old.committed
       /\ old.state \in {"SharesCollected", "Completed"} => new.partials = old.partials
       /\ Elapsed(s) /\ old.state # "Completed" =>
            new \in {old, [old EXCEPT !.state = "Expired"]}

LifecycleAdvances == [][Lifecycle]_sessions

\* What confium.rs says of the unlock window (lines 44 and 216): a session whose
\* window elapsed does not go on waiting for commitments, it is Expired.  No
\* operation of the coordinator stores that state, nor does session_state report
\* it.
ElapsedIsNeverPending ==
  \A s \in DOMAIN sessions : Elapsed(s) => Reported(s) # "Pending"

\* The coordinator implements the abstract promise: an act is signed in one
\* step, once, by exactly the threshold of its quorum's members, whose partials
\* combined.
Qualifies ==
  [q \in {q \in Quorum : Validates(q)} |->
    {signers \in SUBSET Members(q) : Cardinality(signers) = q.threshold}]

ActOf(ss) ==
  [quorum  |-> ss.quorum,
   signers |-> IF ss.state = "Completed" THEN Shared(ss) ELSE {}]

Acts ==
  [s \in 1..MaxSessions |-> IF s \in DOMAIN sessions THEN ActOf(sessions[s]) ELSE None]

Promise == INSTANCE QuorumSigning
             WITH acts <- Acts, MaxActs <- MaxSessions, Unopened <- None

ImplementsQuorumSigning == Promise!Spec

\* A session without a deadline, over a quorum of honest members and the group
\* derived from that quorum, is completed in the end, whatever nodes outside
\* the quorum submit: an abort they provoke does not stop it.
HonestQuorumCompletes ==
  \A s \in 1..MaxSessions :
    /\ s \in DOMAIN sessions
    /\ Members(sessions[s].quorum) \subseteq Honest
    /\ sessions[s].expires_at = None
    /\ SessionGroup(s) = GroupOf(sessions[s].quorum)
    ~> s \in DOMAIN sessions /\ sessions[s].state = "Completed"

=============================================================================
