---------------------------- MODULE MockCeremony ----------------------------
(***************************************************************************)
(* The mock coordinator (confium.rs, mod mock), as functions of one        *)
(* session: what each operation makes of it.  The group key is seeded from *)
(* the quorum id alone and stands for no threshold cryptography, so only   *)
(* the bookkeeping is here.  An operation that is refused returns the      *)
(* session as it was.                                                      *)
(***************************************************************************)
EXTENDS Integers, FiniteSets, Sequences, Functions

CONSTANT None

Members(q) == Range(q.members)

\* create_session, for a quorum that QuorumSpec::validate lets through.
Create(q, expires_at) ==
  [quorum |-> q, expires_at |-> expires_at, state |-> "Pending",
   committed |-> {}, shares |-> {}, abort |-> None]

\* live.
Live(ss, clock) ==
  clock # None /\ ss.expires_at # None /\ ss.state # "Completed" => clock <= ss.expires_at

Abort(ss, m, offense) == [ss EXCEPT !.abort = [offender |-> m, offense |-> offense]]

\* Reaching the threshold again sets the state again.
Commit(ss, m) ==
  LET committed == ss.committed \cup {m} IN
  [ss EXCEPT !.committed = committed,
             !.state = IF Cardinality(committed) >= ss.quorum.threshold
                       THEN "CommitmentsCollected" ELSE @]

\* submit_commitment looks at no state; a second commitment leaves no proof.
SubmitCommitment(ss, clock, m) ==
  CASE ~Live(ss, clock) \/ m \in ss.committed -> ss
    [] Live(ss, clock) /\ m \notin Members(ss.quorum) -> Abort(ss, m, "outsider")
    [] Live(ss, clock) /\ m \in Members(ss.quorum) \ ss.committed -> Commit(ss, m)

Share(ss, m) ==
  LET shares == ss.shares \cup {m} IN
  [ss EXCEPT !.shares = shares,
             !.state = IF Cardinality(shares) >= ss.quorum.threshold
                       THEN "SharesCollected" ELSE @]

\* submit_share asks for the commitment of the member, and not for the round.
SubmitShare(ss, clock, m) ==
  CASE ~Live(ss, clock) \/ m \in ss.shares -> ss
    [] Live(ss, clock) /\ m \notin ss.committed -> Abort(ss, m, "uncommitted")
    [] Live(ss, clock) /\ m \in ss.committed \ ss.shares -> Share(ss, m)

Aggregate(ss, clock) ==
  IF Live(ss, clock) /\ Cardinality(ss.shares) >= ss.quorum.threshold
  THEN [ss EXCEPT !.state = "Completed"] ELSE ss

=============================================================================
