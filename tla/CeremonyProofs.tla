--------------------------- MODULE CeremonyProofs ---------------------------
(***************************************************************************)
(* Proofs about Ceremony, for every set of nodes and quorums and every     *)
(* number of sessions.  Each step is first reduced to what it does to one  *)
(* session record (StepShape); the inductive invariant is then shown to be *)
(* kept record by record.                                                  *)
(***************************************************************************)
EXTENDS Ceremony, TLAPS, FiniteSetTheorems

-----------------------------------------------------------------------------
(* The inductive invariant, per session: its type, its rounds and, once it *)
(* is completed, its signers; g is the group the session runs over.        *)

RecordTyped(ss) ==
  /\ ss \in Session
  /\ Validates(ss.quorum)
  /\ ss.committed \subseteq Members(ss.quorum)

RecordRounds(ss) ==
  /\ ss.state # "Expired"
  /\ Shared(ss) \subseteq ss.committed
  /\ ss.state = "Pending" =>
       /\ Cardinality(ss.committed) < ss.quorum.threshold
       /\ Cardinality(Shared(ss)) = 0
  /\ ss.state = "CommitmentsCollected" =>
       /\ Cardinality(ss.committed) = ss.quorum.threshold
       /\ Cardinality(Shared(ss)) < ss.quorum.threshold
  /\ ss.state \in {"SharesCollected", "Completed"} =>
       /\ Cardinality(ss.committed) = ss.quorum.threshold
       /\ Shared(ss) = ss.committed

RecordQualified(ss, g) ==
  ss.state = "Completed" =>
    /\ Cardinality(Shared(ss)) = ss.quorum.threshold
    /\ g.threshold = ss.quorum.threshold
    /\ \A m \in Shared(ss) : /\ m \in Members(ss.quorum)
                             /\ ss.partials[m] \in {"honest", "respelled"}

RecordInv(ss, g) == RecordTyped(ss) /\ RecordRounds(ss) /\ RecordQualified(ss, g)

\* What one operation does to the record of its session.
Aborts(old, new) ==
  \E proof \in MisbehaviorProof : new = [old EXCEPT !.abort = proof]

Commits(old, new) ==
  \E m \in Members(old.quorum) \ old.committed :
    /\ old.state = "Pending"
    /\ new = [old EXCEPT
         !.committed = old.committed \cup {m},
         !.state = IF Cardinality(old.committed \cup {m}) >= old.quorum.threshold
                   THEN "CommitmentsCollected" ELSE @]

Shares(old, new) ==
  \E m \in old.committed \ Shared(old), scalar \in Scalar :
    /\ old.state = "CommitmentsCollected"
    /\ new = [old EXCEPT
         !.partials = [old.partials EXCEPT ![m] = scalar],
         !.state = IF Cardinality({x \in Node : [old.partials EXCEPT ![m] = scalar][x] # None})
                        >= old.quorum.threshold
                   THEN "SharesCollected" ELSE @]

Completes(old, new, g) ==
  /\ Cardinality(Shared(old)) >= old.quorum.threshold
  /\ Cardinality(Shared(old)) = g.threshold
  /\ Shared(old) = old.committed
  /\ \A m \in Shared(old) : old.partials[m] \in {"honest", "respelled"}
  /\ new = [old EXCEPT !.state = "Completed"]

Updates(old, new, g) ==
  \/ Aborts(old, new)
  \/ Commits(old, new)
  \/ Shares(old, new)
  \/ Completes(old, new, g)

Fresh(q, expires_at) ==
  [quorum |-> q, expires_at |-> expires_at, state |-> "Pending",
   committed |-> {}, partials |-> [m \in Node |-> None], abort |-> None]

Opens ==
  \E q \in Quorum, t \in Time \cup {None} :
    /\ Len(sessions) < MaxSessions
    /\ Validates(q)
    /\ sessions' = Append(sessions, Fresh(q, t))
    /\ groups' = IF groups[q.quorum_id] = None
                 THEN [groups EXCEPT ![q.quorum_id] = GroupOf(q)] ELSE groups

UpdatesOne ==
  \E s \in DOMAIN sessions : \E new :
    /\ Live(s)
    /\ Updates(sessions[s], new, SessionGroup(s))
    /\ sessions' = [sessions EXCEPT ![s] = new]
    /\ UNCHANGED groups

-----------------------------------------------------------------------------
(* Records *)

\* The numbers of a session are numbers: nodes, thresholds and the sets the
\* coordinator counts.
LEMMA Counting ==
  ASSUME NEW ss, RecordTyped(ss)
  PROVE  /\ ss.quorum.threshold \in Nat \ {0}
         /\ IsFiniteSet(ss.committed) /\ Cardinality(ss.committed) \in Nat
         /\ IsFiniteSet(Shared(ss)) /\ Cardinality(Shared(ss)) \in Nat
<1>1. /\ ss.quorum \in Quorum /\ ss.committed \subseteq Node
      /\ ss.quorum.threshold # 0
  BY DEF RecordTyped, Session, Validates
<1>2. Shared(ss) \subseteq Node
  BY DEF Shared
<1>3. IsFiniteSet(ss.committed) /\ IsFiniteSet(Shared(ss))
  BY <1>1, <1>2, NodeAssumption, FS_Subset
<1> QED
  BY <1>1, <1>3, FS_CardinalityType, QuorumAssumption

\* A recorded abort disturbs nothing but the proof.
LEMMA AbortKeeps ==
  ASSUME NEW ss, NEW g, NEW new, RecordInv(ss, g), Aborts(ss, new)
  PROVE  RecordInv(new, g)
<1>1. PICK proof \in MisbehaviorProof : new = [ss EXCEPT !.abort = proof]
  BY DEF Aborts
<1>2. /\ new.quorum = ss.quorum /\ new.state = ss.state
      /\ new.committed = ss.committed /\ new.partials = ss.partials
      /\ new \in Session
  BY <1>1 DEF RecordInv, RecordTyped, Session
<1> QED
  BY <1>2 DEF RecordInv, RecordTyped, RecordRounds, RecordQualified, Shared

\* The commitment that reaches the threshold closes round 1, so the threshold
\* is reached exactly.
LEMMA CommitKeeps ==
  ASSUME NEW ss, NEW g, NEW new, RecordInv(ss, g), Commits(ss, new)
  PROVE  RecordInv(new, g)
<1>1. PICK m \in Members(ss.quorum) \ ss.committed :
        /\ ss.state = "Pending"
        /\ new = [ss EXCEPT
             !.committed = ss.committed \cup {m},
             !.state = IF Cardinality(ss.committed \cup {m}) >= ss.quorum.threshold
                       THEN "CommitmentsCollected" ELSE @]
  BY DEF Commits
<1>2. RecordTyped(ss) /\ RecordRounds(ss)
  BY DEF RecordInv
<1>3. Cardinality(ss.committed \cup {m}) = Cardinality(ss.committed) + 1
  BY <1>1, <1>2, Counting, FS_AddElement
<1>4. m \in Node
  <2>1. ss.quorum.members \in Seq(Node)
    BY <1>2, QuorumAssumption DEF RecordTyped, Session
  <2> QED
    BY <1>1, <2>1 DEF Members, Range
<1>5. /\ new.quorum = ss.quorum /\ new.partials = ss.partials
      /\ new.committed = ss.committed \cup {m}
      /\ new.state = IF Cardinality(ss.committed \cup {m}) >= ss.quorum.threshold
                     THEN "CommitmentsCollected" ELSE "Pending"
      /\ new \in Session
  BY <1>1, <1>2, <1>4 DEF RecordTyped, Session, SessionState
<1>6. Shared(new) = Shared(ss)
  BY <1>5 DEF Shared
<1>7. RecordTyped(new)
  BY <1>1, <1>2, <1>5 DEF RecordTyped
<1>8. RecordRounds(new)
  <2>1. ss.quorum.threshold \in Nat \ {0} /\ Cardinality(ss.committed) \in Nat
    BY <1>2, Counting
  <2>2. /\ Cardinality(ss.committed) < ss.quorum.threshold
        /\ Cardinality(Shared(ss)) = 0
        /\ Shared(ss) \subseteq ss.committed
    BY <1>1, <1>2 DEF RecordRounds
  <2> QED
    BY <1>3, <1>5, <1>6, <2>1, <2>2 DEF RecordRounds
<1>9. RecordQualified(new, g)
  BY <1>5 DEF RecordQualified
<1> QED
  BY <1>7, <1>8, <1>9 DEF RecordInv

\* The partial that reaches the threshold closes round 2; as many partials as
\* commitments, from committed members only, means that all of them shared.
LEMMA ShareKeeps ==
  ASSUME NEW ss, NEW g, NEW new, RecordInv(ss, g), Shares(ss, new)
  PROVE  RecordInv(new, g)
<1>1. PICK m \in ss.committed \ Shared(ss), scalar \in Scalar :
        /\ ss.state = "CommitmentsCollected"
        /\ new = [ss EXCEPT
             !.partials = [ss.partials EXCEPT ![m] = scalar],
             !.state = IF Cardinality({x \in Node : [ss.partials EXCEPT ![m] = scalar][x] # None})
                            >= ss.quorum.threshold
                       THEN "SharesCollected" ELSE @]
  BY DEF Shares
<1> DEFINE partials == [ss.partials EXCEPT ![m] = scalar]
<1>2. RecordTyped(ss) /\ RecordRounds(ss)
  BY DEF RecordInv
<1>3. /\ m \in Node /\ scalar # None
      /\ ss.partials \in [Node -> Scalar \cup {None}]
  BY <1>1, <1>2, NoneAssumption DEF RecordTyped, Session
<1>4. {x \in Node : partials[x] # None} = Shared(ss) \cup {m}
  BY <1>3 DEF Shared
<1>5. Cardinality(Shared(ss) \cup {m}) = Cardinality(Shared(ss)) + 1
  BY <1>1, <1>2, Counting, FS_AddElement
<1>6. /\ new.quorum = ss.quorum /\ new.partials = partials
      /\ new.committed = ss.committed
      /\ new.state = IF Cardinality(Shared(ss) \cup {m}) >= ss.quorum.threshold
                     THEN "SharesCollected" ELSE "CommitmentsCollected"
  BY <1>1, <1>2, <1>4 DEF RecordTyped, Session
<1>7. new \in Session
  <2>1. partials \in [Node -> Scalar \cup {None}]
    BY <1>3
  <2> QED
    BY <1>1, <1>2, <2>1 DEF RecordTyped, Session, SessionState
<1>8. Shared(new) = Shared(ss) \cup {m}
  BY <1>4, <1>6 DEF Shared
<1>9. RecordTyped(new)
  BY <1>2, <1>6, <1>7 DEF RecordTyped
<1>10. RecordRounds(new)
  <2>1. Shared(new) \subseteq new.committed
    BY <1>1, <1>2, <1>6, <1>8 DEF RecordRounds
  <2>2. /\ Cardinality(ss.committed) = ss.quorum.threshold
        /\ Cardinality(Shared(ss)) < ss.quorum.threshold
    BY <1>1, <1>2 DEF RecordRounds
  <2>3. Cardinality(Shared(new)) = Cardinality(new.committed) => Shared(new) = new.committed
    BY <1>2, <1>6, <2>1, Counting, FS_Subset
  <2> QED
    BY <1>2, <1>5, <1>6, <1>8, <2>1, <2>2, <2>3, Counting DEF RecordRounds
<1>11. RecordQualified(new, g)
  BY <1>6 DEF RecordQualified
<1> QED
  BY <1>9, <1>10, <1>11 DEF RecordInv

\* Combining accepts only partials that qualify the session.
LEMMA CompleteKeeps ==
  ASSUME NEW ss, NEW g, NEW new, RecordInv(ss, g), Completes(ss, new, g)
  PROVE  RecordInv(new, g)
<1>1. RecordTyped(ss) /\ RecordRounds(ss)
  BY DEF RecordInv
<1>2. /\ new.quorum = ss.quorum /\ new.partials = ss.partials
      /\ new.committed = ss.committed /\ new.state = "Completed"
      /\ new \in Session
  BY <1>1 DEF Completes, RecordTyped, Session, SessionState
<1>3. Shared(new) = Shared(ss)
  BY <1>2 DEF Shared
<1>4. Cardinality(ss.committed) = ss.quorum.threshold
  <2>1. /\ Cardinality(Shared(ss)) >= ss.quorum.threshold
        /\ Shared(ss) = ss.committed
    BY DEF Completes
  <2>2. ss.quorum.threshold \in Nat \ {0} /\ Cardinality(Shared(ss)) \in Nat
    BY <1>1, Counting
  <2>3. ss.state # "Pending"
    BY <1>1, <2>1, <2>2 DEF RecordRounds
  <2>4. ss.state \in SessionState
    BY <1>1 DEF RecordTyped, Session
  <2> QED
    BY <1>1, <2>3, <2>4 DEF RecordRounds, SessionState
<1> QED
  BY <1>1, <1>2, <1>3, <1>4, Counting
  DEF RecordInv, RecordTyped, RecordRounds, RecordQualified, Completes

LEMMA UpdateKeeps ==
  ASSUME NEW ss, NEW g, NEW new, RecordInv(ss, g), Updates(ss, new, g)
  PROVE  RecordInv(new, g)
BY AbortKeeps, CommitKeeps, ShareKeeps, CompleteKeeps DEF Updates

LEMMA FreshHolds ==
  ASSUME NEW q \in Quorum, NEW t \in Time \cup {None}, NEW g, Validates(q)
  PROVE  RecordInv(Fresh(q, t), g)
<1> DEFINE ss == Fresh(q, t)
<1>1. /\ ss \in Session /\ ss.quorum = q /\ ss.state = "Pending"
      /\ ss.committed = {} /\ ss.partials = [m \in Node |-> None]
  BY DEF Fresh, Session, SessionState
<1>2. RecordTyped(ss)
  BY <1>1 DEF RecordTyped
<1>3. Shared(ss) = {}
  BY <1>1 DEF Shared
<1>4. RecordRounds(ss)
  BY <1>1, <1>2, <1>3, Counting, FS_EmptySet DEF RecordRounds
<1> QED
  BY <1>1, <1>2, <1>4 DEF RecordInv, RecordQualified

-----------------------------------------------------------------------------
(* Steps *)

\* The handler of round 1 refuses, records an abort or accepts.
LEMMA SubmitCommitmentShape ==
  ASSUME TypeOK, NEW s \in DOMAIN sessions, NEW m \in Node, NEW transcript,
         SubmitCommitment(s, m, transcript), UNCHANGED groups
  PROVE  UNCHANGED sessions \/ UpdatesOne
<1>1. ASSUME NEW offense \in Offense, RoundOneOpen(s), RecordAbort(s, m, offense)
      PROVE  UpdatesOne
  <2> DEFINE proof == [offender |-> m, offense |-> offense]
             new == [sessions[s] EXCEPT !.abort = proof]
  <2>1. proof \in MisbehaviorProof
    BY DEF MisbehaviorProof
  <2>2. Aborts(sessions[s], new)
    BY <2>1 DEF Aborts
  <2>3. sessions' = [sessions EXCEPT ![s] = new]
    BY <1>1 DEF RecordAbort
  <2> QED
    BY <1>1, <2>2, <2>3 DEF Updates, UpdatesOne, RoundOneOpen
<1>2. ASSUME m \in Members(sessions[s].quorum) \ sessions[s].committed,
             RoundOneOpen(s), AcceptCommitment(s, m)
      PROVE  UpdatesOne
  <2> DEFINE committed == sessions[s].committed \cup {m}
             new == [sessions[s] EXCEPT
               !.committed = committed,
               !.state = IF Cardinality(committed) >= sessions[s].quorum.threshold
                         THEN "CommitmentsCollected" ELSE @]
  <2>1. Commits(sessions[s], new)
    BY <1>2 DEF Commits, RoundOneOpen
  <2>2. sessions[s] \in Session
    BY DEF TypeOK
  <2>3. sessions' = [sessions EXCEPT ![s] = new]
    BY <1>2, <2>2 DEF AcceptCommitment, Session
  <2> QED
    BY <1>2, <2>1, <2>3 DEF Updates, UpdatesOne, RoundOneOpen
<1> QED
  BY <1>1, <1>2 DEF SubmitCommitment, Offense

\* So does the handler of round 2.
LEMMA SubmitShareShape ==
  ASSUME TypeOK, NEW s \in DOMAIN sessions, NEW m \in Node, NEW material \in Material,
         SubmitShare(s, m, material), UNCHANGED groups
  PROVE  UNCHANGED sessions \/ UpdatesOne
<1>1. ASSUME NEW offense \in Offense, RoundTwoOpen(s), RecordAbort(s, m, offense)
      PROVE  UpdatesOne
  <2> DEFINE proof == [offender |-> m, offense |-> offense]
             new == [sessions[s] EXCEPT !.abort = proof]
  <2>1. proof \in MisbehaviorProof
    BY DEF MisbehaviorProof
  <2>2. Aborts(sessions[s], new)
    BY <2>1 DEF Aborts
  <2>3. sessions' = [sessions EXCEPT ![s] = new]
    BY <1>1 DEF RecordAbort
  <2> QED
    BY <1>1, <2>2, <2>3 DEF Updates, UpdatesOne, RoundTwoOpen
<1>2. ASSUME m \in sessions[s].committed \ Shared(sessions[s]), material # "unbound",
             RoundTwoOpen(s), AcceptShare(s, m, material)
      PROVE  UpdatesOne
  <2> DEFINE partials == [sessions[s].partials EXCEPT ![m] = material]
             new == [sessions[s] EXCEPT
               !.partials = partials,
               !.state = IF Cardinality({x \in Node : partials[x] # None})
                              >= sessions[s].quorum.threshold
                         THEN "SharesCollected" ELSE @]
  <2>1. material \in Scalar
    BY <1>2 DEF Material
  <2>2. Shares(sessions[s], new)
    BY <1>2, <2>1 DEF Shares, RoundTwoOpen
  <2>3. sessions[s] \in Session
    BY DEF TypeOK
  <2>4. sessions' = [sessions EXCEPT ![s] = new]
    BY <1>2, <2>3 DEF AcceptShare, Session
  <2> QED
    BY <1>2, <2>2, <2>4 DEF Updates, UpdatesOne, RoundTwoOpen
<1> QED
  BY <1>1, <1>2 DEF SubmitShare, Offense

\* Aggregation completes the session or names a culprit.
LEMMA AggregateShape ==
  ASSUME TypeOK, NEW s \in DOMAIN sessions, Aggregate(s)
  PROVE  UpdatesOne
<1>1. CASE CombineAccepts(s) /\ sessions' = [sessions EXCEPT ![s].state = "Completed"]
  <2> DEFINE new == [sessions[s] EXCEPT !.state = "Completed"]
  <2>1. Completes(sessions[s], new, SessionGroup(s))
    BY <1>1 DEF Aggregate, Completes, CombineAccepts
  <2>2. sessions' = [sessions EXCEPT ![s] = new] /\ UNCHANGED groups
    BY <1>1 DEF Aggregate
  <2> QED
    BY <2>1, <2>2 DEF Updates, UpdatesOne, Aggregate
<1>2. CASE \E m \in Deviating(sessions[s]) : RecordAbort(s, m, "invalid partial")
  <2>1. PICK m \in Deviating(sessions[s]) : RecordAbort(s, m, "invalid partial")
    BY <1>2
  <2> DEFINE proof == [offender |-> m, offense |-> "invalid partial"]
             new == [sessions[s] EXCEPT !.abort = proof]
  <2>2. proof \in MisbehaviorProof
    BY DEF MisbehaviorProof, Offense, Deviating, Shared
  <2>3. Aborts(sessions[s], new)
    BY <2>2 DEF Aborts
  <2>4. sessions' = [sessions EXCEPT ![s] = new] /\ UNCHANGED groups
    BY <2>1 DEF Aggregate, RecordAbort
  <2> QED
    BY <2>3, <2>4 DEF Updates, UpdatesOne, Aggregate
<1> QED
  BY <1>1, <1>2 DEF Aggregate

\* Every step leaves the sessions alone, opens one, or updates one.
LEMMA StepShape ==
  ASSUME TypeOK, [Next]_vars
  PROVE  UNCHANGED <<sessions, groups>> \/ Opens \/ UpdatesOne
<1>1. ASSUME NEW q \in Quorum, NEW kind \in Kind, NEW t \in Time \cup {None},
             CreateSession(q, kind, t)
      PROVE  Opens
  BY <1>1 DEF CreateSession, Opens, Fresh
<1>2. ASSUME NEW t \in Time, SetClock(t)
      PROVE  UNCHANGED <<sessions, groups>>
  BY <1>2 DEF SetClock
<1>3. ASSUME NEW s \in DOMAIN sessions, NEW m \in Honest, SendCommitment(s, m) \/ SendShare(s, m)
      PROVE  UNCHANGED <<sessions, groups>>
  BY <1>3 DEF SendCommitment, SendShare, Send
<1>4. ASSUME NEW s \in DOMAIN sessions, NEW m \in Node \ Honest, Misbehave(s, m)
      PROVE  UNCHANGED <<sessions, groups>> \/ UpdatesOne
  BY <1>4, SubmitCommitmentShape, SubmitShareShape DEF Misbehave
<1>5. ASSUME NEW s \in DOMAIN sessions, Aggregate(s)
      PROVE  UpdatesOne
  BY <1>5, AggregateShape
<1>6. ASSUME NEW msg \in inflight, Deliver(msg)
      PROVE  UNCHANGED <<sessions, groups>> \/ UpdatesOne
  <2>1. msg.session \in DOMAIN sessions /\ msg.signer \in Node
    BY DEF TypeOK, Message
  <2>2. "honest" \in Material
    BY DEF Material, Scalar
  <2> QED
    BY <1>6, <2>1, <2>2, SubmitCommitmentShape, SubmitShareShape DEF Deliver
<1>7. CASE UNCHANGED vars
  BY <1>7 DEF vars
<1> QED
  BY <1>1, <1>2, <1>3, <1>4, <1>5, <1>6, <1>7 DEF Next

-----------------------------------------------------------------------------
(* The invariant *)

IInv == TypeOK /\ \A s \in DOMAIN sessions : RecordInv(sessions[s], SessionGroup(s))

LEMMA InitHolds == Init => IInv
<1> SUFFICES ASSUME Init PROVE IInv
  OBVIOUS
<1>1. /\ sessions \in Seq(Session) /\ Len(sessions) = 0 /\ DOMAIN sessions = {}
      /\ groups \in [QuorumId -> Group \cup {None}]
      /\ sent = {} /\ inflight = {} /\ clock = None
  BY DEF Init
<1>2. TypeOK
  BY <1>1, MaxSessionsAssumption DEF TypeOK
<1> QED
  BY <1>1, <1>2 DEF IInv

\* Opening a session keeps the others and their groups; a cached group is
\* never replaced.
LEMMA OpensKeeps ==
  ASSUME IInv, Opens
  PROVE  \A s \in DOMAIN sessions' : RecordInv(sessions'[s], SessionGroup(s)')
<1>1. PICK q \in Quorum, t \in Time \cup {None} :
        /\ Validates(q)
        /\ sessions' = Append(sessions, Fresh(q, t))
        /\ groups' = IF groups[q.quorum_id] = None
                     THEN [groups EXCEPT ![q.quorum_id] = GroupOf(q)] ELSE groups
  BY DEF Opens
<1>2. /\ sessions \in Seq(Session) /\ groups \in [QuorumId -> Group \cup {None}]
      /\ \A s \in DOMAIN sessions : groups[sessions[s].quorum.quorum_id] # None
  BY DEF IInv, TypeOK
<1> SUFFICES ASSUME NEW s \in DOMAIN sessions'
             PROVE  RecordInv(sessions'[s], SessionGroup(s)')
  OBVIOUS
<1>3. CASE s \in DOMAIN sessions
  <2>1. sessions'[s] = sessions[s]
    BY <1>1, <1>2, <1>3
  <2>2. SessionGroup(s)' = SessionGroup(s)
    BY <1>1, <1>2, <1>3, <2>1 DEF SessionGroup
  <2> QED
    BY <1>3, <2>1, <2>2 DEF IInv
<1>4. CASE s \notin DOMAIN sessions
  <2>1. Fresh(q, t) \in Session
    BY FreshHolds, <1>1 DEF RecordInv, RecordTyped
  <2>2. sessions'[s] = Fresh(q, t)
    BY <1>1, <1>2, <1>4, <2>1
  <2> QED
    BY <1>1, <2>2, FreshHolds
<1> QED
  BY <1>3, <1>4

LEMMA UpdatesOneKeeps ==
  ASSUME IInv, UpdatesOne
  PROVE  /\ \A s \in DOMAIN sessions' : RecordInv(sessions'[s], SessionGroup(s)')
         /\ sessions' \in Seq(Session) /\ Len(sessions') = Len(sessions)
         /\ DOMAIN sessions' = DOMAIN sessions
         /\ \A s \in DOMAIN sessions : sessions'[s].quorum = sessions[s].quorum
<1>0. PICK s \in DOMAIN sessions : \E new :
        /\ Updates(sessions[s], new, SessionGroup(s))
        /\ sessions' = [sessions EXCEPT ![s] = new]
        /\ UNCHANGED groups
  BY DEF UpdatesOne
<1>1. PICK new :
        /\ Updates(sessions[s], new, SessionGroup(s))
        /\ sessions' = [sessions EXCEPT ![s] = new]
        /\ UNCHANGED groups
  BY <1>0
<1>2. sessions \in Seq(Session) /\ RecordInv(sessions[s], SessionGroup(s))
  BY DEF IInv, TypeOK
<1>3. RecordInv(new, SessionGroup(s))
  BY <1>1, <1>2, UpdateKeeps
<1>4. new \in Session
  BY <1>3 DEF RecordInv, RecordTyped
<1>5. new.quorum = sessions[s].quorum
  <2>1. sessions[s] \in Session
    BY <1>2
  <2> QED
    BY <1>1, <2>1 DEF Updates, Aborts, Commits, Shares, Completes, Session
<1>6. /\ sessions' \in Seq(Session) /\ Len(sessions') = Len(sessions)
      /\ DOMAIN sessions' = DOMAIN sessions
      /\ \A x \in DOMAIN sessions : sessions'[x] = IF x = s THEN new ELSE sessions[x]
  BY <1>1, <1>2, <1>4
<1>7. \A x \in DOMAIN sessions : SessionGroup(x)' = SessionGroup(x)
  BY <1>1, <1>5, <1>6 DEF SessionGroup
<1>8. \A x \in DOMAIN sessions' : RecordInv(sessions'[x], SessionGroup(x)')
  BY <1>3, <1>6, <1>7 DEF IInv
<1> QED
  BY <1>5, <1>6, <1>8

\* What the members and the transport hold stays typed, and so does the clock.
LEMMA TransportKeeps ==
  ASSUME TypeOK, [Next]_vars
  PROVE  /\ clock' \in Time \cup {None}
         /\ inflight' \subseteq sent'
         /\ sent' \subseteq Message /\ \A msg \in sent' : msg.session \in DOMAIN sessions
<1> USE DEF TypeOK
<1>1. ASSUME NEW s \in DOMAIN sessions, NEW m \in Honest, NEW msg \in {Commitment(s, m), Share(s, m)},
             Send(msg)
      PROVE  /\ sent' = sent \cup {msg} /\ inflight' = inflight \cup {msg}
             /\ msg \in Message /\ msg.session \in DOMAIN sessions
             /\ UNCHANGED clock
  <2>1. s \in 1..MaxSessions
    BY MaxSessionsAssumption
  <2> QED
    BY <1>1, <2>1, HonestAssumption DEF Commitment, Share, Message, Send
<1>2. ASSUME NEW s \in DOMAIN sessions, NEW m \in Honest, SendCommitment(s, m) \/ SendShare(s, m)
      PROVE  \E msg \in {Commitment(s, m), Share(s, m)} : Send(msg)
  BY <1>2 DEF SendCommitment, SendShare
<1>3. ASSUME NEW q \in Quorum, NEW kind \in Kind, NEW t \in Time \cup {None},
             CreateSession(q, kind, t)
      PROVE  UNCHANGED <<clock, inflight, sent>>
  BY <1>3 DEF CreateSession
<1>4. ASSUME NEW t \in Time, SetClock(t)
      PROVE  clock' \in Time /\ UNCHANGED <<inflight, sent>>
  BY <1>4 DEF SetClock
<1>5. ASSUME NEW s \in DOMAIN sessions, NEW m \in Node \ Honest, Misbehave(s, m) \/ Aggregate(s)
      PROVE  UNCHANGED <<clock, inflight, sent>>
  BY <1>5 DEF Misbehave, Aggregate
<1>6. ASSUME NEW s \in DOMAIN sessions, Aggregate(s)
      PROVE  UNCHANGED <<clock, inflight, sent>>
  BY <1>6 DEF Aggregate
<1>7. ASSUME NEW msg \in inflight, Deliver(msg)
      PROVE  inflight' \subseteq inflight /\ UNCHANGED <<clock, sent>>
  BY <1>7 DEF Deliver
<1>8. CASE UNCHANGED vars
  BY <1>8 DEF vars
<1> QED
  BY <1>1, <1>2, <1>3, <1>4, <1>5, <1>6, <1>7, <1>8 DEF Next

\* The sessions stay typed and bounded, and every one has its group.
LEMMA SessionsKeep ==
  ASSUME IInv, [Next]_vars
  PROVE  /\ sessions' \in Seq(Session) /\ Len(sessions') <= MaxSessions
         /\ DOMAIN sessions \subseteq DOMAIN sessions'
         /\ groups' \in [QuorumId -> Group \cup {None}]
         /\ \A s \in DOMAIN sessions' :
              /\ RecordInv(sessions'[s], SessionGroup(s)')
              /\ groups'[sessions'[s].quorum.quorum_id] # None
<1>1. CASE UNCHANGED <<sessions, groups>>
  BY <1>1 DEF IInv, TypeOK, SessionGroup
<1>2. CASE UpdatesOne
  BY <1>2, UpdatesOneKeeps DEF IInv, TypeOK, UpdatesOne
<1>3. CASE Opens
  <2>1. PICK q \in Quorum, t \in Time \cup {None} :
          /\ Len(sessions) < MaxSessions
          /\ Validates(q)
          /\ sessions' = Append(sessions, Fresh(q, t))
          /\ groups' = IF groups[q.quorum_id] = None
                       THEN [groups EXCEPT ![q.quorum_id] = GroupOf(q)] ELSE groups
    BY <1>3 DEF Opens
  <2>2. Fresh(q, t) \in Session /\ Fresh(q, t).quorum = q
    BY <2>1, FreshHolds DEF RecordInv, RecordTyped, Fresh
  <2>3. sessions \in Seq(Session) /\ groups \in [QuorumId -> Group \cup {None}]
    BY DEF IInv, TypeOK
  <2>4. q.quorum_id \in QuorumId /\ GroupOf(q) \in Group
    BY DEF QuorumId, Group
  <2>5. GroupOf(q) # None
    BY <2>4, NoneAssumption
  <2>6. groups' \in [QuorumId -> Group \cup {None}] /\ groups'[q.quorum_id] # None
    BY <2>1, <2>3, <2>4, <2>5
  <2>7. /\ sessions' \in Seq(Session) /\ Len(sessions') = Len(sessions) + 1
        /\ DOMAIN sessions \subseteq DOMAIN sessions'
        /\ \A s \in DOMAIN sessions' :
             sessions'[s] = IF s \in DOMAIN sessions THEN sessions[s] ELSE Fresh(q, t)
    BY <2>1, <2>2, <2>3
  <2>8. \A s \in DOMAIN sessions' : groups'[sessions'[s].quorum.quorum_id] # None
    BY <2>1, <2>2, <2>3, <2>6, <2>7 DEF IInv, TypeOK
  <2>9. Len(sessions') <= MaxSessions
    BY <2>1, <2>3, <2>7, MaxSessionsAssumption
  <2> QED
    BY <1>3, <2>6, <2>7, <2>8, <2>9, OpensKeeps
<1> QED
  BY <1>1, <1>2, <1>3, StepShape DEF IInv

\* The invariant is inductive.
LEMMA StepHolds ==
  ASSUME IInv, [Next]_vars
  PROVE  IInv'
<1>1. TypeOK'
  BY SessionsKeep, TransportKeeps DEF IInv, TypeOK, RecordInv, RecordTyped
<1> QED
  BY <1>1, SessionsKeep DEF IInv

LEMMA Invariance == Spec => []IInv
<1>1. Init => IInv
  BY InitHolds
<1>2. IInv /\ [Next]_vars => IInv'
  BY StepHolds
<1> QED
  BY <1>1, <1>2, PTL DEF Spec

-----------------------------------------------------------------------------
(* Theorems *)

\* In every behaviour of the coordinator, whatever its members do, sessions
\* are over validated quorums and only their members are in the committed set.
THEOREM TypeCorrect == Spec => []TypeOK
<1>1. IInv => TypeOK
  BY DEF IInv
<1> QED
  BY <1>1, Invariance, PTL

\* Rounds are strict in every behaviour: those who signed are those who
\* committed, and there are exactly as many of them as the threshold.
THEOREM RoundsAreStrict == Spec => []RoundsStrict
<1>1. IInv => RoundsStrict
  BY DEF IInv, RoundsStrict, RecordInv, RecordRounds
<1> QED
  BY <1>1, Invariance, PTL

\* No session completes except by the valid partials of exactly the threshold
\* of its own members, also when quorum ids are reused.
THEOREM CompletedIsQualified == Spec => []QualifiedSignature
<1>1. IInv => QualifiedSignature
  BY DEF IInv, QualifiedSignature, RecordInv, RecordQualified
<1> QED
  BY <1>1, Invariance, PTL

\* What one update may do to a record, along the session lifecycle.
Advances(old, new) ==
  /\ <<old.state, new.state>> \in
       {<<x, x>> : x \in SessionState}
         \cup {<<"Pending", "CommitmentsCollected">>,
               <<"CommitmentsCollected", "SharesCollected">>,
               <<"SharesCollected", "Completed">>,
               <<"Pending", "Expired">>}
  /\ new.quorum = old.quorum
  /\ old.committed \subseteq new.committed
  /\ \A m \in Shared(old) : new.partials[m] = old.partials[m]
  /\ old.state # "Pending" => new.committed = old.committed
  /\ old.state \in {"SharesCollected", "Completed"} => new.partials = old.partials

LEMMA UpdateAdvances ==
  ASSUME NEW old, NEW new, NEW g, RecordInv(old, g), Updates(old, new, g)
  PROVE  Advances(old, new)
<1>1. old \in Session /\ RecordTyped(old) /\ RecordRounds(old)
  BY DEF RecordInv, RecordTyped
<1>2. CASE Aborts(old, new)
  BY <1>1, <1>2 DEF Aborts, Advances, Session
<1>3. CASE Commits(old, new)
  BY <1>1, <1>3 DEF Commits, Advances, Session, SessionState
<1>4. CASE Shares(old, new)
  <2>1. PICK m \in old.committed \ Shared(old), scalar \in Scalar :
          /\ old.state = "CommitmentsCollected"
          /\ new.partials = [old.partials EXCEPT ![m] = scalar]
          /\ new.state \in {old.state, "SharesCollected"}
          /\ new.quorum = old.quorum /\ new.committed = old.committed
    BY <1>1, <1>4 DEF Shares, Session
  <2>2. \A x \in Shared(old) : new.partials[x] = old.partials[x]
    BY <1>1, <2>1 DEF Shared, Session
  <2> QED
    BY <2>1, <2>2 DEF Advances, SessionState
<1>5. CASE Completes(old, new, g)
  <2>1. old.state \in {"SharesCollected", "Completed"}
    <3>1. old.quorum.threshold \in Nat \ {0} /\ Cardinality(Shared(old)) \in Nat
      BY <1>1, Counting
    <3>2. Cardinality(Shared(old)) >= old.quorum.threshold
      BY <1>5 DEF Completes
    <3> QED
      BY <1>1, <3>1, <3>2 DEF RecordRounds, Session, SessionState
  <2>2. new = [old EXCEPT !.state = "Completed"]
    BY <1>5 DEF Completes
  <2> QED
    BY <1>1, <2>1, <2>2 DEF Advances, Session, SessionState
<1> QED
  BY <1>2, <1>3, <1>4, <1>5 DEF Updates

\* The session lifecycle of confium.rs is one way in every behaviour: no
\* message, late, doubled or false, takes a session back, replaces what was
\* accepted, or changes the signers of a completed session; and while the clock
\* is past its deadline, nothing does anything to a session that is not completed.
THEOREM LifecycleIsOneWay == Spec => LifecycleAdvances
<1>1. ASSUME IInv, [Next]_vars
      PROVE  [Lifecycle]_sessions
  <2>1. CASE UNCHANGED <<sessions, groups>>
    BY <2>1
  <2>2. CASE UpdatesOne
    <3>0. PICK s \in DOMAIN sessions : \E new :
            /\ Live(s)
            /\ Updates(sessions[s], new, SessionGroup(s))
            /\ sessions' = [sessions EXCEPT ![s] = new]
      BY <2>2 DEF UpdatesOne
    <3>1. PICK new :
            /\ Live(s)
            /\ Updates(sessions[s], new, SessionGroup(s))
            /\ sessions' = [sessions EXCEPT ![s] = new]
      BY <3>0
    <3>2. Advances(sessions[s], new)
      BY <1>1, <3>1, UpdateAdvances DEF IInv
    <3>3. \A x \in DOMAIN sessions : sessions'[x] = IF x = s THEN new ELSE sessions[x]
      BY <1>1, <3>1 DEF IInv, TypeOK
    <3>4. \A x \in DOMAIN sessions : sessions[x] \in Session
      BY <1>1 DEF IInv, TypeOK
    <3>5. \A x \in DOMAIN sessions : Advances(sessions[x], sessions'[x])
      BY <3>2, <3>3, <3>4 DEF Advances, Session
    <3>6. \A x \in DOMAIN sessions :
            Elapsed(x) /\ sessions[x].state # "Completed" => sessions'[x] = sessions[x]
      BY <3>1, <3>3 DEF Live
    <3> QED
      BY <3>5, <3>6 DEF Lifecycle, Advances
  <2>3. CASE Opens
    <3>1. \A x \in DOMAIN sessions : sessions'[x] = sessions[x] /\ sessions[x] \in Session
      <4>1. sessions \in Seq(Session)
        BY <1>1 DEF IInv, TypeOK
      <4> QED
        BY <2>3, <4>1 DEF Opens
    <3>2. \A x \in DOMAIN sessions : Advances(sessions[x], sessions'[x])
      BY <3>1 DEF Advances, Session
    <3> QED
      BY <3>1, <3>2 DEF Lifecycle, Advances
  <2> QED
    BY <1>1, <2>1, <2>2, <2>3, StepShape DEF IInv
<1> QED
  BY <1>1, Invariance, PTL DEF Spec, LifecycleAdvances

-----------------------------------------------------------------------------
(* The coordinator implements the promise of QuorumSigning *)

\* An update leaves the act of its session alone or signs it.
LEMMA UpdateSigns ==
  ASSUME NEW old, NEW new, NEW g, RecordInv(old, g), Updates(old, new, g),
         old.state # "Completed"
  PROVE  new.state = "Completed" =>
           /\ Shared(new) \in SUBSET Members(old.quorum)
           /\ Cardinality(Shared(new)) = old.quorum.threshold
<1> SUFFICES ASSUME new.state = "Completed"
             PROVE  /\ Shared(new) \in SUBSET Members(old.quorum)
                    /\ Cardinality(Shared(new)) = old.quorum.threshold
  OBVIOUS
<1>1. RecordInv(new, g) /\ Advances(old, new)
  BY UpdateKeeps, UpdateAdvances
<1> QED
  BY <1>1 DEF RecordInv, RecordQualified, Advances

\* Opening a session opens its act.
LEMMA OpensAct ==
  ASSUME IInv, Opens
  PROVE  Promise!Next
<1> DEFINE k == Len(sessions) + 1
<1>1. PICK q \in Quorum, t \in Time \cup {None} :
        /\ Len(sessions) < MaxSessions
        /\ Validates(q)
        /\ sessions' = Append(sessions, Fresh(q, t))
  BY DEF Opens
<1>2. sessions \in Seq(Session) /\ Fresh(q, t) \in Session
  BY <1>1, FreshHolds DEF IInv, TypeOK, RecordInv, RecordTyped
<1>3. /\ k \in 1..MaxSessions /\ k \notin DOMAIN sessions
      /\ \A s \in 1..MaxSessions : s \in DOMAIN sessions' <=> s \in DOMAIN sessions \/ s = k
      /\ \A s \in DOMAIN sessions : sessions'[s] = sessions[s]
      /\ sessions'[k] = Fresh(q, t)
  BY <1>1, <1>2, MaxSessionsAssumption
<1>4. ActOf(sessions'[k]) = [quorum |-> q, signers |-> {}]
  BY <1>3 DEF ActOf, Fresh
<1>5. Acts[k] = None
  BY <1>3 DEF Acts
<1>6. Acts' = [Acts EXCEPT ![k] = [quorum |-> q, signers |-> {}]]
  <2>1. Acts' = [s \in 1..MaxSessions |->
                  IF s \in DOMAIN sessions' THEN ActOf(sessions'[s]) ELSE None]
    BY DEF Acts, ActOf, Shared
  <2> QED
    BY <1>3, <1>4, <2>1 DEF Acts
<1>7. q \in DOMAIN Qualifies
  BY <1>1 DEF Qualifies
<1> QED
  BY <1>3, <1>5, <1>6, <1>7 DEF Promise!Next, Promise!Open

\* Updating a session signs its act or leaves the acts alone.
LEMMA UpdatesAct ==
  ASSUME IInv, UpdatesOne
  PROVE  UNCHANGED Acts \/ Promise!Next
<1>0. PICK s \in DOMAIN sessions : \E new :
        /\ Updates(sessions[s], new, SessionGroup(s))
        /\ sessions' = [sessions EXCEPT ![s] = new]
  BY DEF UpdatesOne
<1>1. PICK new :
        /\ Updates(sessions[s], new, SessionGroup(s))
        /\ sessions' = [sessions EXCEPT ![s] = new]
  BY <1>0
<1>2. /\ sessions \in Seq(Session) /\ RecordInv(sessions[s], SessionGroup(s))
      /\ s \in 1..MaxSessions
  BY MaxSessionsAssumption DEF IInv, TypeOK
<1>3. /\ DOMAIN sessions' = DOMAIN sessions
      /\ \A x \in DOMAIN sessions : sessions'[x] = IF x = s THEN new ELSE sessions[x]
  BY <1>1, <1>2
<1>4. new.quorum = sessions[s].quorum /\ Advances(sessions[s], new)
  BY <1>1, <1>2, UpdateAdvances DEF Advances
<1>5. Acts' = [x \in 1..MaxSessions |->
                IF x \in DOMAIN sessions' THEN ActOf(sessions'[x]) ELSE None]
  BY DEF Acts, ActOf, Shared
<1>6. Acts' = [Acts EXCEPT ![s] = ActOf(new)]
  BY <1>2, <1>3, <1>5 DEF Acts
<1>7. Acts[s] = ActOf(sessions[s])
  BY <1>2 DEF Acts
<1>8. CASE sessions[s].state # "Completed" /\ new.state = "Completed"
  <2>1. /\ Shared(new) \in SUBSET Members(sessions[s].quorum)
        /\ Cardinality(Shared(new)) = sessions[s].quorum.threshold
    BY <1>1, <1>2, <1>8, UpdateSigns
  <2>2. Shared(new) \in Qualifies[Acts[s].quorum]
    <3>1. Acts[s].quorum = sessions[s].quorum
      BY <1>7 DEF ActOf
    <3>2. sessions[s].quorum \in Quorum /\ Validates(sessions[s].quorum)
      BY <1>2 DEF RecordInv, RecordTyped, Session
    <3> QED
      BY <2>1, <3>1, <3>2 DEF Qualifies
  <2>3. Acts[s] = [quorum |-> new.quorum, signers |-> {}]
    BY <1>4, <1>7, <1>8 DEF ActOf
  <2>4. Acts' = [Acts EXCEPT ![s].signers = Shared(new)]
    <3>1. ActOf(new) = [quorum |-> new.quorum, signers |-> Shared(new)]
      BY <1>8 DEF ActOf
    <3>2. [Acts[s] EXCEPT !.signers = Shared(new)] = ActOf(new)
      BY <2>3, <3>1
    <3> QED
      BY <1>6, <3>2
  <2>5. Acts[s] # None
    <3>1. Acts[s] \in Act
      BY <1>2, <1>7 DEF ActOf, Act, RecordInv, RecordTyped, Session, Shared
    <3> QED
      BY <3>1, NoneAssumption
  <2>6. Promise!Sign(s)
    <3>1. Acts[s].signers = {}
      BY <2>3
    <3>2. \E signers \in Qualifies[Acts[s].quorum] :
            Acts' = [Acts EXCEPT ![s].signers = signers]
      BY <2>2, <2>4, Zenon
    <3> QED
      BY <2>5, <3>1, <3>2, Zenon DEF Promise!Sign
  <2> QED
    BY <1>2, <2>6 DEF Promise!Next
<1>9. CASE ~(sessions[s].state # "Completed" /\ new.state = "Completed")
  <2>1. sessions[s].state = "Completed" =>
          new.state = "Completed" /\ Shared(new) = Shared(sessions[s])
    BY <1>4 DEF Advances, Shared
  <2>2. ActOf(new) = ActOf(sessions[s])
    BY <1>4, <1>9, <2>1 DEF ActOf
  <2> QED
    BY <1>2, <1>6, <1>7, <2>2 DEF Acts
<1> QED
  BY <1>8, <1>9

\* The two-round coordinator implements the one-step promise: every behaviour
\* of it is, act by act, opened once and signed at most once by the threshold.
THEOREM CeremonyImplementsPromise == Spec => ImplementsQuorumSigning
<1>1. Init => Promise!Init
  BY DEF Init, Acts, Promise!Init
<1>2. ASSUME IInv, [Next]_vars
      PROVE  [Promise!Next]_Acts
  <2>1. CASE UNCHANGED <<sessions, groups>>
    BY <2>1 DEF Acts, ActOf, Shared
  <2> QED
    BY <1>2, <2>1, StepShape, OpensAct, UpdatesAct DEF IInv
<1> QED
  BY <1>1, <1>2, Invariance, PTL DEF Spec, ImplementsQuorumSigning, Promise!Spec
-----------------------------------------------------------------------------
(* Blame.  What names an honest member can only be the answer to one of its *)
(* own messages, so the invariant is about those: each was built for a      *)
(* session its signer may speak in, and what a session holds of an honest   *)
(* member came by a message that no longer travels, unless it may again.    *)

\* A message still says what its session expects of its signer.
Expected(msg) ==
  /\ msg.signer \in Honest
  /\ msg.signer \in Members(sessions[msg.session].quorum)
  /\ msg.round = 2 => msg.signer \in sessions[msg.session].committed

\* A message that was built and, without retries, has been consumed.
Consumed(msg) == msg \in sent /\ (Retries \/ msg \notin inflight)

\* What a session holds of an honest member, its messages brought.
Accounted(s, m) ==
  /\ m \in sessions[s].committed => Consumed(Commitment(s, m))
  /\ sessions[s].partials[m] # None =>
       sessions[s].partials[m] = "honest" /\ Consumed(Share(s, m))

Deserved(abort) ==
  abort # None => abort.offender \notin Honest \/ (Retries /\ abort.offense = "double")

BlameInv ==
  /\ \A msg \in sent : Expected(msg)
  /\ \A s \in DOMAIN sessions :
       /\ \A m \in Honest : Accounted(s, m)
       /\ Deserved(sessions[s].abort)

\* A step of one session keeps the invariant when what it adds of an honest
\* member was brought by a message and the proof it leaves is deserved.
LEMMA BlameOfOne ==
  ASSUME IInv, BlameInv, NEW s \in DOMAIN sessions, NEW new,
         sessions' = [sessions EXCEPT ![s] = new],
         new.quorum = sessions[s].quorum,
         sessions[s].committed \subseteq new.committed,
         sent' = sent, inflight' \subseteq inflight,
         \A m \in Honest \cap new.committed :
           m \in sessions[s].committed \/ Consumed(Commitment(s, m))',
         \A m \in Honest : new.partials[m] # None =>
           \/ new.partials[m] = sessions[s].partials[m]
           \/ new.partials[m] = "honest" /\ Consumed(Share(s, m))',
         new.abort = sessions[s].abort \/ Deserved(new.abort)
  PROVE  BlameInv'
<1>1. /\ DOMAIN sessions' = DOMAIN sessions
      /\ \A x \in DOMAIN sessions : sessions'[x] = IF x = s THEN new ELSE sessions[x]
  BY DEF IInv, TypeOK
<1>2. \A msg : Consumed(msg) => Consumed(msg)'
  BY DEF Consumed
<1>3. ASSUME NEW msg \in sent' PROVE Expected(msg)'
  <2>1. msg.session \in DOMAIN sessions /\ Expected(msg)
    BY DEF IInv, TypeOK, BlameInv
  <2> QED
    BY <1>1, <2>1 DEF Expected
<1>4. ASSUME NEW x \in DOMAIN sessions', NEW m \in Honest PROVE Accounted(x, m)'
  <2>1. x \in DOMAIN sessions /\ Accounted(x, m)
    BY <1>1 DEF BlameInv
  <2>2. CASE x = s
    <3>1. sessions'[x] = new
      BY <1>1, <2>1, <2>2
    <3>2. m \in new.committed => Consumed(Commitment(x, m))'
      BY <1>2, <2>1, <2>2 DEF Accounted, Commitment
    <3>3. new.partials[m] # None => new.partials[m] = "honest" /\ Consumed(Share(x, m))'
      BY <1>2, <2>1, <2>2 DEF Accounted, Share
    <3> QED
      BY <3>1, <3>2, <3>3 DEF Accounted, Commitment, Share
  <2>3. CASE x # s
    <3>1. sessions'[x] = sessions[x]
      BY <1>1, <2>1, <2>3
    <3> QED
      BY <1>2, <2>1, <3>1 DEF Accounted, Commitment, Share
  <2> QED
    BY <2>2, <2>3
<1>5. ASSUME NEW x \in DOMAIN sessions' PROVE Deserved(sessions'[x].abort)
  BY <1>1 DEF BlameInv
<1> QED
  BY <1>3, <1>4, <1>5 DEF BlameInv, Deserved

\* A proof that names an outsider to Honest, or a repetition, is deserved.
LEMMA AbortIsDeserved ==
  ASSUME IInv, BlameInv, NEW s \in DOMAIN sessions, NEW m \in Node, NEW offense \in Offense,
         m \notin Honest \/ (Retries /\ offense = "double"),
         RecordAbort(s, m, offense), sent' = sent, inflight' \subseteq inflight
  PROVE  BlameInv'
<1> DEFINE new == [sessions[s] EXCEPT !.abort = [offender |-> m, offense |-> offense]]
<1>1. sessions[s] \in Session
  BY DEF IInv, TypeOK
<1>2. sessions' = [sessions EXCEPT ![s] = new]
  BY DEF RecordAbort
<1>3. /\ new.quorum = sessions[s].quorum /\ new.committed = sessions[s].committed
      /\ new.partials = sessions[s].partials
      /\ new.abort = [offender |-> m, offense |-> offense]
  BY <1>1 DEF Session
<1>4. Deserved(new.abort)
  BY <1>3 DEF Deserved
<1> HIDE DEF new
<1> QED
  BY <1>2, <1>3, <1>4, BlameOfOne

\* An accepted commitment is its sender's, and an honest one was consumed.
LEMMA CommitIsAccounted ==
  ASSUME IInv, BlameInv, NEW s \in DOMAIN sessions, NEW m \in Node,
         AcceptCommitment(s, m), m \in Honest => Consumed(Commitment(s, m))',
         sent' = sent, inflight' \subseteq inflight
  PROVE  BlameInv'
<1> DEFINE committed == sessions[s].committed \cup {m}
           new == [sessions[s] EXCEPT
             !.committed = committed,
             !.state = IF Cardinality(committed) >= sessions[s].quorum.threshold
                       THEN "CommitmentsCollected" ELSE @]
<1>1. sessions[s] \in Session
  BY DEF IInv, TypeOK
<1>2. sessions' = [sessions EXCEPT ![s] = new]
  BY <1>1 DEF AcceptCommitment, Session
<1>3. /\ new.quorum = sessions[s].quorum /\ new.committed = sessions[s].committed \cup {m}
      /\ new.partials = sessions[s].partials /\ new.abort = sessions[s].abort
  BY <1>1 DEF Session
<1> HIDE DEF new
<1>4. \A x \in Honest \cap new.committed :
        x \in sessions[s].committed \/ Consumed(Commitment(s, x))'
  BY <1>3
<1> QED
  BY <1>2, <1>3, <1>4, BlameOfOne

\* So is an accepted partial, and an honest one is the honest scalar.
LEMMA ShareIsAccounted ==
  ASSUME IInv, BlameInv, NEW s \in DOMAIN sessions, NEW m \in Node, NEW scalar,
         AcceptShare(s, m, scalar),
         m \in Honest => scalar = "honest" /\ Consumed(Share(s, m))',
         sent' = sent, inflight' \subseteq inflight
  PROVE  BlameInv'
<1> DEFINE partials == [sessions[s].partials EXCEPT ![m] = scalar]
           new == [sessions[s] EXCEPT
             !.partials = partials,
             !.state = IF Cardinality({x \in Node : partials[x] # None})
                            >= sessions[s].quorum.threshold
                       THEN "SharesCollected" ELSE @]
<1>1. sessions[s] \in Session
  BY DEF IInv, TypeOK
<1>2. sessions' = [sessions EXCEPT ![s] = new]
  BY <1>1 DEF AcceptShare, Session
<1>3. /\ new.quorum = sessions[s].quorum /\ new.committed = sessions[s].committed
      /\ new.partials = partials /\ new.abort = sessions[s].abort
  BY <1>1 DEF Session
<1>4. \A x \in Node : partials[x] = IF x = m THEN scalar ELSE sessions[s].partials[x]
  BY <1>1 DEF Session
<1> HIDE DEF new, partials
<1>5. \A x \in Honest : new.partials[x] # None =>
        \/ new.partials[x] = sessions[s].partials[x]
        \/ new.partials[x] = "honest" /\ Consumed(Share(s, x))'
  BY <1>3, <1>4, HonestAssumption
<1> QED
  BY <1>2, <1>3, <1>5, BlameOfOne

LEMMA DeliverBlame ==
  ASSUME IInv, BlameInv, NEW msg \in inflight, Deliver(msg)
  PROVE  BlameInv'
<1> DEFINE s == msg.session
           m == msg.signer
<1>1. /\ msg \in sent /\ msg \in Message /\ s \in DOMAIN sessions
      /\ Expected(msg) /\ m \in Node /\ m \in Honest
  BY HonestAssumption DEF IInv, TypeOK, BlameInv, Expected
<1>2. sent' = sent /\ inflight' \subseteq inflight /\ Consumed(msg)'
  BY <1>1 DEF Deliver, Consumed
<1>3. /\ msg.round = 1 => msg = Commitment(s, m)
      /\ msg.round = 2 => msg = Share(s, m)
  BY <1>1 DEF Message, Commitment, Share
<1>4. Accounted(s, m)
  BY <1>1 DEF BlameInv
<1>5. CASE UNCHANGED sessions
  BY <1>2, <1>5 DEF BlameInv, Expected, Accounted, Consumed, Commitment, Share
<1>6. CASE msg.round = 1 /\ SubmitCommitment(s, m, "nonce_point") /\ ~UNCHANGED sessions
  <2>1. CASE m \in sessions[s].committed /\ RecordAbort(s, m, "double")
    <3>1. Retries
      BY <1>3, <1>4, <1>6, <2>1 DEF Accounted, Consumed
    <3> QED
      BY <1>1, <1>2, <2>1, <3>1, AbortIsDeserved DEF Offense
  <2>2. CASE AcceptCommitment(s, m)
    BY <1>1, <1>2, <1>3, <1>6, <2>2, CommitIsAccounted
  <2> QED
    BY <1>1, <1>6, <2>1, <2>2 DEF SubmitCommitment, Expected
<1>7. CASE msg.round = 2 /\ SubmitShare(s, m, "honest") /\ ~UNCHANGED sessions
  <2>1. CASE m \in Shared(sessions[s]) /\ RecordAbort(s, m, "double")
    <3>1. Retries
      BY <1>3, <1>4, <1>7, <2>1 DEF Accounted, Consumed, Shared
    <3> QED
      BY <1>1, <1>2, <2>1, <3>1, AbortIsDeserved DEF Offense
  <2>2. CASE AcceptShare(s, m, "honest")
    BY <1>1, <1>2, <1>3, <1>7, <2>2, ShareIsAccounted
  <2> QED
    BY <1>1, <1>7, <2>1, <2>2 DEF SubmitShare, Expected
<1> QED
  BY <1>5, <1>6, <1>7 DEF Deliver

LEMMA MisbehaveBlame ==
  ASSUME IInv, BlameInv, NEW s \in DOMAIN sessions, NEW m \in Node \ Honest, Misbehave(s, m)
  PROVE  BlameInv'
<1>1. sent' = sent /\ inflight' \subseteq inflight
  BY DEF Misbehave
<1>2. CASE UNCHANGED sessions
  BY <1>2 DEF Misbehave, BlameInv, Expected, Accounted, Consumed, Commitment, Share
<1>3. ASSUME NEW offense \in Offense, RecordAbort(s, m, offense) PROVE BlameInv'
  BY <1>1, <1>3, AbortIsDeserved
<1>4. CASE AcceptCommitment(s, m)
  BY <1>1, <1>4, CommitIsAccounted
<1>5. ASSUME NEW scalar, AcceptShare(s, m, scalar) PROVE BlameInv'
  BY <1>1, <1>5, ShareIsAccounted
<1> QED
  BY <1>2, <1>3, <1>4, <1>5 DEF Misbehave, SubmitCommitment, SubmitShare, Offense

\* The culprit of a failed combination deviates, and an honest member does not.
LEMMA AggregateBlame ==
  ASSUME IInv, BlameInv, NEW s \in DOMAIN sessions, Aggregate(s)
  PROVE  BlameInv'
<1>1. sent' = sent /\ inflight' \subseteq inflight
  BY DEF Aggregate
<1>2. ASSUME NEW m \in Deviating(sessions[s]), RecordAbort(s, m, "invalid partial")
      PROVE  BlameInv'
  <2>1. /\ m \in Node /\ sessions[s].partials[m] # None
        /\ sessions[s].partials[m] # "honest"
    BY <1>2 DEF Deviating, Shared
  <2>2. m \notin Honest
    BY <2>1 DEF BlameInv, Accounted
  <2> QED
    BY <1>1, <1>2, <2>1, <2>2, AbortIsDeserved DEF Offense
<1>3. CASE sessions' = [sessions EXCEPT ![s].state = "Completed"]
  <2> DEFINE new == [sessions[s] EXCEPT !.state = "Completed"]
  <2>1. sessions[s] \in Session
    BY DEF IInv, TypeOK
  <2>2. sessions' = [sessions EXCEPT ![s] = new]
    BY <1>3
  <2>3. /\ new.quorum = sessions[s].quorum /\ new.committed = sessions[s].committed
        /\ new.partials = sessions[s].partials /\ new.abort = sessions[s].abort
    BY <2>1 DEF Session
  <2> HIDE DEF new
  <2> QED
    BY <1>1, <2>2, <2>3, BlameOfOne
<1> QED
  BY <1>2, <1>3 DEF Aggregate

\* A new session holds nothing of anybody.
LEMMA CreateBlame ==
  ASSUME IInv, BlameInv, NEW q \in Quorum, NEW kind, NEW t \in Time \cup {None},
         CreateSession(q, kind, t)
  PROVE  BlameInv'
<1>1. /\ sessions' = Append(sessions, Fresh(q, t))
      /\ UNCHANGED <<inflight, sent>> /\ Validates(q)
  BY DEF CreateSession, Fresh
<1>2. sessions \in Seq(Session) /\ Fresh(q, t) \in Session
  BY <1>1, FreshHolds DEF IInv, TypeOK, RecordInv, RecordTyped
<1>3. \A s \in DOMAIN sessions' :
        \/ s \in DOMAIN sessions /\ sessions'[s] = sessions[s]
        \/ sessions'[s] = Fresh(q, t)
  BY <1>1, <1>2
<1>4. \A s \in DOMAIN sessions : s \in DOMAIN sessions' /\ sessions'[s] = sessions[s]
  BY <1>1, <1>2
<1>5. ASSUME NEW msg \in sent' PROVE Expected(msg)'
  <2>1. msg.session \in DOMAIN sessions /\ Expected(msg)
    BY <1>1 DEF IInv, TypeOK, BlameInv
  <2> QED
    BY <1>4, <2>1 DEF Expected
<1>6. ASSUME NEW s \in DOMAIN sessions'
      PROVE  /\ \A m \in Honest : Accounted(s, m)'
             /\ Deserved(sessions'[s].abort)
  <2>1. CASE s \in DOMAIN sessions /\ sessions'[s] = sessions[s]
    BY <1>1, <2>1 DEF BlameInv, Accounted, Consumed, Commitment, Share
  <2>2. CASE sessions'[s] = Fresh(q, t)
    BY <2>2, HonestAssumption DEF Fresh, Accounted, Deserved
  <2> QED
    BY <1>3, <2>1, <2>2
<1> QED
  BY <1>5, <1>6 DEF BlameInv, Deserved

\* A message is built once, and a share only by who committed.
LEMMA SendBlame ==
  ASSUME IInv, BlameInv, NEW s \in DOMAIN sessions, NEW m \in Honest,
         SendCommitment(s, m) \/ SendShare(s, m)
  PROVE  BlameInv'
<1>1. PICK msg \in {Commitment(s, m), Share(s, m)} :
        /\ Send(msg)
        /\ m \in Members(sessions[s].quorum)
        /\ msg.round = 2 => m \in sessions[s].committed
  BY DEF SendCommitment, SendShare, CanSign, Commitment, Share
<1>2. /\ msg \notin sent /\ sent' = sent \cup {msg} /\ inflight' = inflight \cup {msg}
      /\ sessions' = sessions
  BY <1>1 DEF Send
<1>3. msg.session = s /\ msg.signer = m
  BY <1>1 DEF Commitment, Share
<1>4. Expected(msg)
  BY <1>1, <1>3 DEF Expected
<1>5. \A x : Consumed(x) => Consumed(x)'
  BY <1>2 DEF Consumed
<1>6. \A x \in sent' : Expected(x)'
  BY <1>2, <1>4 DEF BlameInv, Expected
<1>7. \A x \in DOMAIN sessions' : \A y \in Honest : Accounted(x, y)'
  BY <1>2, <1>5 DEF BlameInv, Accounted, Commitment, Share
<1> QED
  BY <1>2, <1>6, <1>7 DEF BlameInv, Deserved

LEMMA StepBlame ==
  ASSUME IInv, BlameInv, [Next]_vars
  PROVE  BlameInv'
<1>1. ASSUME UNCHANGED <<sessions, inflight, sent>> PROVE BlameInv'
  BY <1>1 DEF BlameInv, Expected, Accounted, Consumed, Commitment, Share
<1>2. CASE UNCHANGED vars
  BY <1>1, <1>2 DEF vars
<1>3. ASSUME NEW t \in Time, SetClock(t) PROVE BlameInv'
  BY <1>1, <1>3 DEF SetClock
<1> QED
  BY <1>2, <1>3, CreateBlame, SendBlame, MisbehaveBlame, AggregateBlame, DeliverBlame DEF Next

\* Identifiable abort blames nobody who followed the protocol: for every set of
\* honest members, whatever the others submit under their own names, however the
\* transport delays and reorders, and with retries but for a repeated message.
THEOREM BlameIsAlwaysDeserved == Spec => []BlameIsDeserved
<1>1. Init => BlameInv
  BY DEF Init, BlameInv
<1>2. IInv /\ BlameInv /\ [Next]_vars => BlameInv'
  BY StepBlame
<1>3. BlameInv => BlameIsDeserved
  BY DEF BlameInv, Deserved, BlameIsDeserved
<1> QED
  BY <1>1, <1>2, <1>3, Invariance, PTL DEF Spec

=============================================================================
