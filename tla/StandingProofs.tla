--------------------------- MODULE StandingProofs ---------------------------
(***************************************************************************)
(* Proofs about Standing, for every set of nodes, keys, grants,            *)
(* credentials and links, in circulation in any number and any order, and  *)
(* for every clock.             What is held only grows at its end and no  *)
(* key is forgotten (HeldGrows), so what was admissible stays so and what  *)
(* was found first stays first.                                            *)
(***************************************************************************)
EXTENDS Standing, SequenceTheorems, WellFoundedInduction, TLAPS

\* The inductive invariant: what is held was in circulation, and a commitment
\* holds the state of its prefix.
HeldTyped ==
  /\ grants \in Seq(Granted)
  /\ credentials \in Seq(Credentials)
  /\ log \in Seq(State)
  /\ links \in 0..Len(Links)

CommitmentsHold ==
  \A c \in commitments :
    /\ c.prefix_len \in 1..Len(log)
    /\ c.prefix_commitment = <<c.prefix_len, log[c.prefix_len]>>

BridgeTyped ==
  bridge \in [version : Nat, covered_classes : {DataClass}, refreshed_at : 0..MaxClock]

IInv ==
  /\ clock \in 0..MaxClock
  /\ known \in [NodeId -> SUBSET Key]
  /\ HeldTyped
  /\ CommitmentsHold
  /\ BridgeTyped

-----------------------------------------------------------------------------
(* The inductive invariant *)

LEMMA InitInv == Init => IInv
<1> SUFFICES ASSUME Init PROVE IInv
  OBVIOUS
<1>1. clock \in 0..MaxClock
  BY BoundAssumption DEF Init
<1>2. known \in [NodeId -> SUBSET Key]
  BY NodeAssumption DEF Init
<1>3. HeldTyped
  <2>1. Len(Links) \in Nat
    BY CirculationAssumption
  <2> QED
    BY <2>1, EmptySeq DEF Init, HeldTyped
<1>4. CommitmentsHold
  BY DEF Init, CommitmentsHold
<1>5. BridgeTyped
  BY BoundAssumption DEF Init, BridgeTyped
<1> QED
  BY <1>1, <1>2, <1>3, <1>4, <1>5 DEF IInv

\* What a step does to what is held and known.
Grew(s, t) ==
  /\ DOMAIN s \subseteq DOMAIN t
  /\ \A i \in DOMAIN s : t[i] = s[i]

HeldGrows ==
  /\ clock' >= clock
  /\ \A n \in NodeId : known[n] \subseteq known'[n]
  /\ Grew(grants, grants')
  /\ Grew(credentials, credentials')
  /\ Grew(log, log')
  /\ revoked \subseteq revoked'

LEMMA AppendGrows ==
  ASSUME NEW S, NEW s \in Seq(S), NEW x \in S
  PROVE  /\ Append(s, x) \in Seq(S)
         /\ Grew(s, Append(s, x))
         /\ DOMAIN Append(s, x) = DOMAIN s \cup {Len(s) + 1}
         /\ Append(s, x)[Len(s) + 1] = x
         /\ Len(Append(s, x)) = Len(s) + 1
<1>1. Len(s) \in Nat /\ DOMAIN s = 1..Len(s)
  BY LenProperties
<1>2. Append(s, x) \in Seq(S) /\ Len(Append(s, x)) = Len(s) + 1
  BY AppendProperties
<1>3. DOMAIN Append(s, x) = 1..(Len(s) + 1)
  BY <1>2, LenProperties
<1>4. \A i \in 1..Len(s) : Append(s, x)[i] = s[i]
  BY AppendProperties
<1>5. Append(s, x)[Len(s) + 1] = x
  BY AppendProperties
<1> QED
  BY <1>1, <1>2, <1>3, <1>4, <1>5 DEF Grew

LEMMA StepInv == ASSUME IInv, [Next]_vars PROVE IInv' /\ HeldGrows
<1> DEFINE Goal == IInv' /\ HeldGrows
<1> USE DEF IInv
<1>1. CASE Tick
  <2>1. clock' \in 0..MaxClock /\ clock' >= clock /\ clock \in Nat /\ clock' = clock + 1
    BY <1>1, BoundAssumption DEF Tick
  <2>2. bridge' = bridge
    BY <1>1 DEF Tick
  <2>3. BridgeTyped'
    BY <2>1, <2>2 DEF BridgeTyped
  <2>4. CommitmentsHold' /\ HeldTyped'
    BY <1>1 DEF Tick, held, device, CommitmentsHold, HeldTyped
  <2>5. HeldGrows
    BY <1>1, <2>1 DEF Tick, held, device, HeldGrows, Grew
  <2> QED
    BY <1>1, <2>1, <2>3, <2>4, <2>5 DEF Tick
<1>2. ASSUME NEW n \in NodeId, Learn(n) PROVE Goal
  <2>1. known' \in [NodeId -> SUBSET Key] /\ \A p \in NodeId : known[p] \subseteq known'[p]
    BY <1>2, NodeAssumption DEF Learn
  <2> QED
    BY <1>2, <2>1 DEF Learn, held, device, HeldTyped, CommitmentsHold,
                      BridgeTyped, HeldGrows, Grew
<1>3. ASSUME NEW g \in Granted, ReceiveGrant(g) PROVE Goal
  <2>1. grants \in Seq(Granted) /\ grants' = Append(grants, g)
    BY <1>3 DEF ReceiveGrant, HeldTyped
  <2>2. /\ grants' \in Seq(Granted)
        /\ Grew(grants, grants')
        /\ DOMAIN grants' = DOMAIN grants \cup {Len(grants) + 1}
        /\ grants'[Len(grants) + 1] = g
    BY <2>1, AppendGrows
  <2> QED
    BY <1>3, <2>2 DEF ReceiveGrant, device, HeldTyped, CommitmentsHold,
                            BridgeTyped, HeldGrows, Grew
<1>4. ASSUME NEW c \in Credentials, ReceiveCredential(c) PROVE Goal
  <2>1. credentials \in Seq(Credentials) /\ credentials' = Append(credentials, c)
    BY <1>4 DEF ReceiveCredential, HeldTyped
  <2>2. credentials' \in Seq(Credentials) /\ Grew(credentials, credentials')
    BY <2>1, AppendGrows
  <2> QED
    BY <1>4, <2>2 DEF ReceiveCredential, device, HeldTyped, CommitmentsHold,
                      BridgeTyped, HeldGrows, Grew
<1>5. ASSUME NEW k \in SlotKey, RevokeSlot(k) PROVE Goal
  BY <1>5 DEF RevokeSlot, device, HeldTyped, CommitmentsHold,
              BridgeTyped, HeldGrows, Grew
<1>6. CASE IngestLink
  <2>1. Len(Links) \in Nat
    BY CirculationAssumption
  <2> QED
    BY <1>6, <2>1 DEF IngestLink, device, HeldTyped, CommitmentsHold,
                      BridgeTyped, HeldGrows, Grew
<1>7. ASSUME NEW state \in State, Log(state) PROVE Goal
  <2>1. log \in Seq(State) /\ log' = Append(log, state)
    BY <1>7 DEF Log, HeldTyped
  <2>2. log' \in Seq(State) /\ Grew(log, log') /\ Len(log') = Len(log) + 1
    BY <2>1, AppendGrows
  <2>3. Len(log) \in Nat /\ DOMAIN log = 1..Len(log)
    BY <2>1, LenProperties
  <2>4. CommitmentsHold'
    BY <1>7, <2>2, <2>3 DEF Log, CommitmentsHold, Grew
  <2> QED
    BY <1>7, <2>2, <2>4 DEF Log, held, HeldTyped,
                            BridgeTyped, HeldGrows, Grew
<1>8. CASE Commit
  <2>1. Len(log) \in Nat /\ Len(log) # 0
    BY <1>8, EmptySeq DEF Commit, HeldTyped
  <2>2. CommitmentsHold'
    BY <1>8, <2>1 DEF Commit, CommitEdge, CommitmentsHold
  <2> QED
    BY <1>8, <2>2 DEF Commit, held, HeldTyped,
                      BridgeTyped, HeldGrows, Grew
<1>9. ASSUME NEW at \in 0..MaxClock, Refresh(at) PROVE Goal
  <2>1. BridgeTyped'
    <3>1. bridge.version + 1 \in Nat
      BY DEF BridgeTyped
    <3> QED
      BY <1>9, <3>1 DEF Refresh, BridgeTyped
  <2>2. HeldGrows
    BY <1>9, BoundAssumption DEF Refresh, held, device, HeldGrows, Grew
  <2>3. HeldTyped' /\ CommitmentsHold'
    BY <1>9 DEF Refresh, held, device, HeldTyped, CommitmentsHold
  <2> QED
    BY <1>9, <2>1, <2>2, <2>3 DEF Refresh
<1>10. CASE UNCHANGED vars
  BY <1>10 DEF vars, HeldTyped, CommitmentsHold, BridgeTyped,
               HeldGrows, Grew
<1> QED
  BY <1>1, <1>2, <1>3, <1>4, <1>5, <1>6, <1>7, <1>8, <1>9, <1>10 DEF Next

LEMMA Invariance == Spec => []IInv
<1>1. IInv /\ [Next]_vars => IInv'
  BY StepInv
<1> QED
  BY InitInv, <1>1, PTL DEF Spec

-----------------------------------------------------------------------------
(* One voice *)

\* What verifies under the keys that are known verifies under more.
LEMMA MoreKeysSign ==
  ASSUME NEW less, NEW more, NEW signer, less[signer] \subseteq more[signer],
         NEW slot, NEW domain, NEW payload, SignedBy(less, signer, slot, domain, payload)
  PROVE  SignedBy(more, signer, slot, domain, payload)
BY DEF SignedBy

\* At most one credential is found first, and it stays the one that is found.
LEMMA FirstStaysFirst ==
  ASSUME NEW s \in Seq(Credentials), NEW t \in Seq(Credentials), Grew(s, t),
         NEW d, NEW k, NEW i \in FirstHeld(s, d, k), NEW j \in FirstHeld(t, d, k)
  PROVE  i = j /\ t[j] = s[i]
<1>1. DOMAIN s = 1..Len(s) /\ DOMAIN t = 1..Len(t) /\ Len(s) \in Nat /\ Len(t) \in Nat
  BY LenProperties
<1>2. i \in HeldFor(s, d, k) /\ \A n \in HeldFor(s, d, k) : i <= n
  BY DEF FirstHeld
<1>3. j \in HeldFor(t, d, k) /\ \A n \in HeldFor(t, d, k) : j <= n
  BY DEF FirstHeld
<1>4. i \in DOMAIN s /\ j \in DOMAIN t
  BY <1>2, <1>3 DEF HeldFor
<1>5. i \in HeldFor(t, d, k)
  BY <1>2, <1>4 DEF HeldFor, Grew
<1>6. j <= i
  BY <1>3, <1>5
<1>7. j \in DOMAIN s
  BY <1>1, <1>4, <1>6
<1>8. j \in HeldFor(s, d, k)
  BY <1>3, <1>7 DEF HeldFor, Grew
<1>9. i <= j
  BY <1>2, <1>8
<1>10. i = j
  BY <1>1, <1>4, <1>6, <1>9
<1> QED
  BY <1>4, <1>10 DEF Grew

\* A standing that is not no-chain is of the first credential, and revoked if the
\* slot key is.
LEMMA StandingIsOfFirst ==
  ASSUME NEW keys, NEW s, NEW d, NEW k, NEW segment, NEW gone,
         SlotStanding(keys, s, d, k, segment, gone) # "no-chain"
  PROVE  /\ \E i \in FirstHeld(s, d, k) : s[i].segment = segment
         /\ k \in gone => SlotStanding(keys, s, d, k, segment, gone) = "revoked"
BY DEF SlotStanding

\* However many credentials and keys come after it, the first credential decides
\* what a slot key speaks for, a revoked key is heard no more, and no commitment
\* can be revealed to be of another state than the one it was made of.
THEOREM OneVoice == Spec => DeviceSpeaksWithOneVoice
<1>1. ASSUME IInv, [Next]_vars PROVE SpeaksForOneSegment /\ CommitmentsBind
  <2>1. IInv' /\ HeldGrows
    BY <1>1, StepInv
  <2>2. SpeaksForOneSegment
    <3> SUFFICES ASSUME NEW k \in SlotKey, NEW s \in Segment, NEW t \in Segment,
                        SlotStanding(known, credentials, Device, k, s, revoked) # "no-chain",
                        SlotStanding(known', credentials', Device, k, t, revoked') # "no-chain"
                 PROVE  /\ s = t
                        /\ k \in revoked =>
                             SlotStanding(known', credentials', Device, k, t, revoked') = "revoked"
      BY DEF SpeaksForOneSegment
    <3>1. PICK i \in FirstHeld(credentials, Device, k) : credentials[i].segment = s
      BY StandingIsOfFirst
    <3>2. PICK j \in FirstHeld(credentials', Device, k) : credentials'[j].segment = t
      BY StandingIsOfFirst
    <3>3. credentials \in Seq(Credentials) /\ credentials' \in Seq(Credentials)
      BY <1>1, <2>1 DEF IInv, HeldTyped
    <3>4. Grew(credentials, credentials')
      BY <2>1 DEF HeldGrows
    <3>5. credentials'[j] = credentials[i]
      BY <3>3, <3>4, FirstStaysFirst
    <3>6. k \in revoked => k \in revoked'
      BY <2>1 DEF HeldGrows
    <3> QED
      BY <3>1, <3>2, <3>5, <3>6, StandingIsOfFirst
  <2>3. CommitmentsBind
    <3> SUFFICES ASSUME NEW c \in commitments, NEW n \in DOMAIN log', NEW state \in State,
                        VerifyReveal(c, n, state)
                 PROVE  n = c.prefix_len /\ state = log'[n]
      BY DEF CommitmentsBind
    <3>1. c.prefix_len \in 1..Len(log) /\ c.prefix_commitment = <<c.prefix_len, log[c.prefix_len]>>
      BY <1>1 DEF IInv, CommitmentsHold
    <3>2. n = c.prefix_len /\ state = log[c.prefix_len]
      BY <3>1 DEF VerifyReveal
    <3>3. c.prefix_len \in DOMAIN log
      <4>1. log \in Seq(State)
        BY <1>1 DEF IInv, HeldTyped
      <4> QED
        BY <3>1, <4>1, LenProperties
    <3> QED
      BY <2>1, <3>2, <3>3 DEF HeldGrows, Grew
  <2> QED
    BY <2>2, <2>3
<1> QED
  BY <1>1, Invariance, PTL DEF Spec, DeviceSpeaksWithOneVoice

-----------------------------------------------------------------------------
(* What has lapsed *)

\* Of the grants of one party there is one latest at most.
LEMMA OneLatest ==
  ASSUME NEW keys, NEW s \in Seq(Granted), NEW party,
         NEW i \in Latest(keys, s, party), NEW j \in Latest(keys, s, party)
  PROVE  i = j
<1>1. DOMAIN s = 1..Len(s) /\ Len(s) \in Nat
  BY LenProperties
<1>2. /\ i \in Admissible(keys, s, party) /\ j \in Admissible(keys, s, party)
      /\ s[j].version < s[i].version \/ (s[j].version = s[i].version /\ j <= i)
      /\ s[i].version < s[j].version \/ (s[i].version = s[j].version /\ i <= j)
  BY DEF Latest
<1>3. i \in DOMAIN s /\ j \in DOMAIN s
  BY <1>2 DEF Admissible
<1>4. s[i] \in Granted /\ s[j] \in Granted
  BY <1>1, <1>3, ElementOfSeq
<1>5. s[i].version \in Nat /\ s[j].version \in Nat
  BY <1>4, CirculationAssumption
<1> QED
  BY <1>1, <1>2, <1>3, <1>5

\* What was admissible stays so.
LEMMA StaysAdmissible ==
  ASSUME IInv, HeldGrows, NEW i \in Admissible(known, grants, Lab)
  PROVE  i \in Admissible(known', grants', Lab) /\ grants'[i] = grants[i]
<1>1. i \in DOMAIN grants /\ grants[i].accredited = Lab /\ GrantVerifies(known, grants[i])
  BY DEF Admissible
<1>2. grants[i].authority \in NodeId
  <2>1. grants[i] \in Granted
    BY <1>1, LenProperties, ElementOfSeq DEF IInv, HeldTyped
  <2> QED
    BY <2>1, NodeAssumption
<1>3. GrantVerifies(known', grants[i])
  BY <1>1, <1>2, MoreKeysSign DEF GrantVerifies, HeldGrows
<1> QED
  BY <1>1, <1>3 DEF Admissible, HeldGrows, Grew

LEMMA GrantRevives == ASSUME IInv, IInv', HeldGrows PROVE NewGrantRevives
<1> SUFFICES ASSUME StandingAt(known, grants, Lab, clock) = "expired",
                    StandingAt(known', grants', Lab, clock') = "live",
                    NEW i \in Latest(known, grants, Lab),
                    NEW j \in Latest(known', grants', Lab),
                    grants[i].valid_from <= clock
             PROVE  grants'[j] # grants[i] /\ grants'[j].version >= grants[i].version
  BY DEF NewGrantRevives
<1>1. grants \in Seq(Granted) /\ grants' \in Seq(Granted)
  BY DEF IInv, HeldTyped
<1>2. i \in DOMAIN grants /\ j \in DOMAIN grants' /\ Grew(grants, grants')
  BY DEF Latest, Admissible, HeldGrows
<1>3. grants[i] \in Granted /\ grants'[j] \in Granted
  BY <1>1, <1>2, LenProperties, ElementOfSeq
<1>4. /\ grants[i].version \in Nat /\ grants'[j].version \in Nat
      /\ grants[i].valid_to # None => grants[i].valid_to \in Nat
  BY <1>3, CirculationAssumption
<1>5. ~LiveAt(grants[i], clock)
  BY DEF StandingAt
<1>6. LiveAt(grants'[j], clock')
  <2>1. PICK n \in Latest(known', grants', Lab) : LiveAt(grants'[n], clock')
    BY DEF StandingAt
  <2>2. n = j
    BY <1>1, <2>1, OneLatest
  <2> QED
    BY <2>1, <2>2
<1>7. grants'[j] # grants[i]
  <2>1. clock \in Nat /\ clock' \in Nat /\ clock' >= clock
    BY BoundAssumption DEF IInv, HeldGrows
  <2> QED
    BY <1>4, <1>5, <1>6, <2>1 DEF LiveAt
<1>8. i \in Admissible(known', grants', Lab)
  BY StaysAdmissible DEF Latest
<1>9. grants'[i].version < grants'[j].version \/ grants'[i].version = grants'[j].version
  BY <1>8 DEF Latest
<1> QED
  BY <1>2, <1>4, <1>7, <1>9 DEF Grew

LEMMA BridgeRevives == ASSUME IInv, HeldGrows, [Next]_vars PROVE RefreshRevives
<1>1. clock \in Nat /\ clock' >= clock /\ clock' \in Int
  BY StepInv, BoundAssumption DEF IInv, HeldGrows
<1>2. bridge.version \in Nat /\ bridge.refreshed_at \in Nat
  BY BoundAssumption DEF IInv, BridgeTyped
<1>3. CASE bridge' = bridge
  <2> SUFFICES ASSUME NEW c \in DataClass,
                      <<c, FALSE>> \in BridgeHealth(<<bridge>>, clock, MaxAge)[1],
                      <<c, TRUE>> \in BridgeHealth(<<bridge>>, clock', MaxAge)[1]
               PROVE  clock < bridge.refreshed_at /\ bridge.refreshed_at <= clock'
    BY <1>3 DEF RefreshRevives
  <2>1. ~BridgeFresh(bridge, clock, MaxAge) /\ BridgeFresh(bridge, clock', MaxAge)
    <3>1. \A at : BridgeHealth(<<bridge>>, at, MaxAge)[1]
                   = {<<d, BridgeFresh(bridge, at, MaxAge)>> : d \in bridge.covered_classes}
      BY DEF BridgeHealth
    <3>2. /\ <<c, FALSE>> \in {<<d, BridgeFresh(bridge, clock, MaxAge)>> :
                                  d \in bridge.covered_classes}
          /\ <<c, TRUE>> \in {<<d, BridgeFresh(bridge, clock', MaxAge)>> :
                                  d \in bridge.covered_classes}
      BY <3>1
    <3>3. FALSE = BridgeFresh(bridge, clock, MaxAge) /\ TRUE = BridgeFresh(bridge, clock', MaxAge)
      BY <3>2
    <3> QED
      BY <3>3
  <2> QED
    BY <1>1, <1>2, <2>1, BoundAssumption DEF BridgeFresh
<1>4. ASSUME NEW at \in 0..MaxClock, Refresh(at) PROVE RefreshRevives
  <2>1. bridge'.version = bridge.version + 1
    BY <1>4 DEF Refresh, IInv, BridgeTyped
  <2> QED
    BY <1>2, <2>1 DEF RefreshRevives
<1>5. bridge' = bridge \/ \E at \in 0..MaxClock : Refresh(at)
  BY DEF Next, vars, Tick, Learn, ReceiveGrant, ReceiveCredential, RevokeSlot,
         IngestLink, Log, Commit
<1> QED
  BY <1>3, <1>4, <1>5

LEMMA LinksNarrow == ASSUME IInv, [Next]_vars PROVE LinksOnlyNarrow
<1> SUFFICES ASSUME links' > links, ChainAdmits(known', CertifiedChain', Act[clock'])
             PROVE  ChainAdmits(known, CertifiedChain, Act[clock])
  BY DEF LinksOnlyNarrow
<1>1. links \in 0..Len(Links) /\ Len(Links) \in Nat
  BY CirculationAssumption DEF IInv, HeldTyped
<1>2. IngestLink
  <2>1. links' = links \/ IngestLink
    BY DEF Next, vars, Tick, Learn, ReceiveGrant, ReceiveCredential, RevokeSlot,
           Log, Commit, Refresh, held
  <2> QED
    BY <1>1, <2>1
<1>3. known' = known /\ clock' = clock /\ links' = links + 1 /\ links' <= Len(Links)
  BY <1>1, <1>2 DEF IngestLink
<1> DEFINE Before == SubSeq(Links, 1, links)
           After == SubSeq(Links, 1, links + 1)
<1>4. \A i \in 1..Len(Links) : Links[i] \in {Links[n] : n \in DOMAIN Links}
  BY CirculationAssumption, LenProperties
<1>5. DOMAIN Before = 1..links /\ \A i \in 1..links : Before[i] = Links[i]
  <2>1. \A i \in 1..links : Links[i] \in {Links[n] : n \in DOMAIN Links}
    BY <1>1, <1>4
  <2>2. /\ Before \in Seq({Links[n] : n \in DOMAIN Links})
        /\ Len(Before) = IF 1 <= links THEN links - 1 + 1 ELSE 0
        /\ \A i \in 1..(links - 1 + 1) : Before[i] = Links[1 + i - 1]
    BY <1>1, <2>1, SubSeqProperties
  <2> QED
    BY <1>1, <2>2, LenProperties
<1>6. DOMAIN After = 1..(links + 1) /\ \A i \in 1..(links + 1) : After[i] = Links[i]
  <2>1. \A i \in 1..(links + 1) : Links[i] \in {Links[n] : n \in DOMAIN Links}
    BY <1>1, <1>3, <1>4
  <2>2. /\ After \in Seq({Links[n] : n \in DOMAIN Links})
        /\ Len(After) = IF 1 <= links + 1 THEN links + 1 - 1 + 1 ELSE 0
        /\ \A i \in 1..(links + 1 - 1 + 1) : After[i] = Links[1 + i - 1]
    BY <1>1, <2>1, SubSeqProperties
  <2> QED
    BY <1>1, <2>2, LenProperties
<1>7. \A i \in DOMAIN Before : i \in DOMAIN After /\ After[i] = Before[i]
  BY <1>1, <1>5, <1>6
<1>8. CertifiedChain = [nodes |-> ChainNodes, links |-> Before]
  BY DEF CertifiedChain
<1>9. CertifiedChain' = [nodes |-> ChainNodes, links |-> After]
  BY <1>3 DEF CertifiedChain
<1> QED
  BY <1>3, <1>7, <1>8, <1>9 DEF ChainAdmits

\* However many grants, keys, refreshes and links come and in whatever order, a
\* standing that ended is live again only by a grant that is not older, a bridge
\* by a refresh or when the day of one is come, and nothing is admitted by one more
\* link.
THEOREM Lapsed == Spec => LapsedStaysLapsed
<1>1. ASSUME IInv, [Next]_vars PROVE NewGrantRevives /\ RefreshRevives /\ LinksOnlyNarrow
  <2>1. IInv' /\ HeldGrows
    BY <1>1, StepInv
  <2> QED
    BY <1>1, <2>1, GrantRevives, BridgeRevives, LinksNarrow
<1> QED
  BY <1>1, Invariance, PTL DEF Spec, LapsedStaysLapsed

\* Without a new grant as recent as one that was admissible, the latest one stays.
LEMMA LatestStays ==
  ASSUME IInv, IInv', HeldGrows,
         \A j \in NowAdmissible : \E i \in Admissible(known, grants, Lab) :
           ~(grants[i].version <= grants'[j].version)
  PROVE  Latest(known', grants', Lab) = Latest(known, grants, Lab)
<1> DEFINE Old == Admissible(known, grants, Lab)
           New == Admissible(known', grants', Lab)
<1>1. \A i \in Old : i \in New /\ grants'[i] = grants[i]
  BY StaysAdmissible
<1>2. /\ \A i \in Old : i \in Nat /\ grants[i].version \in Nat
      /\ \A j \in New : j \in Nat /\ grants'[j].version \in Nat
  BY CirculationAssumption, LenProperties, ElementOfSeq DEF IInv, HeldTyped, Admissible
<1>3. NowAdmissible = New \ Old
  BY DEF NowAdmissible
<1> HIDE DEF Old, New
<1>4. ASSUME NEW i \in Latest(known, grants, Lab) PROVE i \in Latest(known', grants', Lab)
  <2>1. /\ i \in Old
        /\ \A j \in Old : \/ grants[j].version < grants[i].version
                          \/ grants[j].version = grants[i].version /\ j <= i
    BY DEF Latest, Old
  <2>2. ASSUME NEW j \in New
        PROVE  \/ grants'[j].version < grants'[i].version
               \/ grants'[j].version = grants'[i].version /\ j <= i
    <3>1. CASE j \in Old
      BY <1>1, <2>1, <3>1
    <3>2. CASE j \notin Old
      <4>1. PICK h \in Old : ~(grants[h].version <= grants'[j].version)
        BY <1>3, <2>2, <3>2 DEF Old
      <4>2. /\ grants[h].version \in Nat /\ grants[i].version \in Nat
            /\ grants'[j].version \in Nat
        BY <1>2, <2>1
      <4>3. grants[h].version <= grants[i].version
        BY <2>1, <4>2
      <4> QED
        BY <1>1, <2>1, <4>1, <4>2, <4>3
    <3> QED
      BY <3>1, <3>2
  <2> QED
    BY <1>1, <2>1, <2>2 DEF Latest, New
<1>5. ASSUME NEW i \in Latest(known', grants', Lab) PROVE i \in Latest(known, grants, Lab)
  <2>1. /\ i \in New
        /\ \A j \in New : \/ grants'[j].version < grants'[i].version
                          \/ grants'[j].version = grants'[i].version /\ j <= i
    BY DEF Latest, New
  <2>2. i \in Old
    <3> SUFFICES ASSUME i \notin Old PROVE FALSE
      OBVIOUS
    <3>1. PICK h \in Old : ~(grants[h].version <= grants'[i].version)
      BY <1>3, <2>1 DEF Old
    <3>2. grants'[h].version <= grants'[i].version
      BY <1>1, <1>2, <2>1
    <3> QED
      BY <1>1, <3>1, <3>2
  <2> QED
    BY <1>1, <2>1, <2>2 DEF Latest, Old
<1> QED
  BY <1>4, <1>5

\* For every set of grants and keys and however they arrive: forged and older
\* grants neither end the standing of the laboratory nor give it one.
THEOREM LatestGrades == Spec => GradedByTheLatest
<1>1. ASSUME IInv, [Next]_vars PROVE ByTheLatest
  <2>1. IInv' /\ HeldGrows
    BY <1>1, StepInv
  <2> SUFFICES ASSUME NEW h \in Admissible(known, grants, Lab)
               PROVE  ByTheLatest
    BY DEF ByTheLatest
  <2>2. Admissible(known', grants', Lab) # {}
    BY <1>1, <2>1, StaysAdmissible
  <2>3. StandingAt(known', grants', Lab, clock') # "missing"
    BY <2>2 DEF StandingAt
  <2>4. ASSUME clock' = clock,
               \A j \in NowAdmissible : \E i \in Admissible(known, grants, Lab) :
                 ~(grants[i].version <= grants'[j].version)
        PROVE  StandingAt(known', grants', Lab, clock') = StandingAt(known, grants, Lab, clock)
    <3>1. Latest(known', grants', Lab) = Latest(known, grants, Lab)
      BY <1>1, <2>1, <2>4, LatestStays
    <3>2. \A i \in Latest(known, grants, Lab) : grants'[i] = grants[i]
      BY <1>1, <2>1, StaysAdmissible DEF Latest
    <3> QED
      BY <2>2, <2>4, <3>1, <3>2 DEF StandingAt
  <2> QED
    BY <2>3, <2>4 DEF ByTheLatest
<1> QED
  BY <1>1, Invariance, PTL DEF Spec, GradedByTheLatest

-----------------------------------------------------------------------------
(* Chains of any length *)

\* A set of numbers has a least.
LEMMA LeastNumber ==
  ASSUME NEW T, T \subseteq Nat, T # {}
  PROVE  \E n \in T : \A m \in T : n <= m
<1> DEFINE R == OpToRel(<, Nat)
<1>1. IsWellFoundedOn(R, Nat)
  BY NatLessThanWellFounded
<1>2. \E n \in T : \A m \in T : ~ (<<m, n>> \in R)
  <2> HIDE DEF R
  <2> QED
    BY <1>1, WFMin
<1>3. \A m, n \in Nat : m < n => <<m, n>> \in R
  BY DEF OpToRel
<1> HIDE DEF R
<1>4. PICK n \in T : \A m \in T : ~ (<<m, n>> \in R)
  BY <1>2
<1>5. ASSUME NEW m \in T PROVE n <= m
  <2>1. m \in Nat /\ n \in Nat /\ ~(m < n)
    BY <1>3, <1>4
  <2> QED
    BY <2>1
<1> QED
  BY <1>5

WindowsNarrow(a, b) ==
  \A t \in Time : Scopes!WindowContains(b, t) => Scopes!WindowContains(a, t)

LEMMA NarrowerWindow ==
  ASSUME Time \subseteq Nat,
         NEW a \in Scopes!WindowConstraint, NEW b \in Scopes!WindowConstraint,
         Scopes!WindowEntails(a, b)
  PROVE  WindowsNarrow(a, b)
<1> SUFFICES ASSUME NEW t \in Time, Scopes!WindowContains(b, t), a # Wildcard
             PROVE  Scopes!WindowContains(a, t)
  BY DEF WindowsNarrow, Scopes!WindowContains
<1>1. b # Wildcard /\ a \in Scopes!Interval /\ b \in Scopes!Interval
  BY DEF Scopes!WindowEntails, Scopes!WindowConstraint
<1>2. /\ b.from >= a.from
      /\ a.to # None => b.to # None /\ b.to <= a.to
      /\ b.from <= t
      /\ b.to # None => t <= b.to
  BY <1>1 DEF Scopes!WindowEntails, Scopes!WindowContains, Scopes!IntervalContains
<1>3. /\ a.from \in Nat /\ b.from \in Nat /\ t \in Nat
      /\ a.to # None => a.to \in Nat
      /\ b.to # None => b.to \in Nat
  BY <1>1 DEF Scopes!Interval
<1>4. a.from <= t /\ (a.to # None => t <= a.to)
  BY <1>2, <1>3
<1> QED
  BY <1>4 DEF Scopes!WindowContains, Scopes!IntervalContains

\* What an admitted scope grants, the one that admits it grants.
LEMMA AdmittedGrants ==
  ASSUME Time \subseteq Nat,
         NEW parent \in Scopes!DelegationScope, NEW child \in Scopes!DelegationScope,
         Scopes!Admits(parent, child), NEW act \in Scopes!ScopeRequest,
         Scopes!Grants(child, act)
  PROVE  Scopes!Grants(parent, act)
<1>1. \A l \in Layer : Scopes!LayerContains(parent.layers[l], act.layers[l])
  BY DEF Scopes!Grants, Scopes!Matches, Scopes!Admits, Scopes!LayerContains, Scopes!LayerEntails
<1>2. Scopes!WindowContains(parent.window, act.at)
  <2>1. /\ parent.window \in Scopes!WindowConstraint /\ child.window \in Scopes!WindowConstraint
        /\ act.at \in Time
    BY DEF Scopes!DelegationScope, Scopes!ScopeRequest
  <2>2. WindowsNarrow(parent.window, child.window)
    BY <2>1, NarrowerWindow DEF Scopes!Admits
  <2> QED
    BY <2>1, <2>2 DEF WindowsNarrow, Scopes!Grants, Scopes!Matches
<1>3. Scopes!ConditionsHold(parent, act)
  BY DEF Scopes!Grants, Scopes!ConditionsHold, Scopes!Admits
<1> QED
  BY <1>1, <1>2, <1>3 DEF Scopes!Grants, Scopes!Matches

\* admits, which never compares one link with another, agrees with the narrowing
\* algebra on every chain whose links verify and narrow: it admits an act when,
\* and only when, the last link's scope grants it.
THEOREM ChainsNarrow ==
  ASSUME Time \subseteq Nat, NEW keys, NEW chain, NEW n \in Nat \ {0},
         DOMAIN chain.links = 1..n,
         \A i \in 1..n : /\ LinkVerifies(keys, chain.links[i], chain.nodes[i])
                         /\ chain.links[i].scope \in Scopes!DelegationScope,
         \A i \in 1..(n - 1) : Scopes!Admits(chain.links[i].scope, chain.links[i + 1].scope),
         NEW act \in Scopes!ScopeRequest
  PROVE  ChainAdmits(keys, chain, act) <=> Scopes!Grants(chain.links[n].scope, act)
<1> DEFINE Held(i) == Scopes!Grants(chain.links[i].scope, act)
<1>1. ChainAdmits(keys, chain, act) <=> \A i \in 1..n : Held(i)
  BY DEF ChainAdmits, Scopes!Grants
<1>2. \A i \in 1..(n - 1) : Held(i + 1) => Held(i)
  BY AdmittedGrants
<1> HIDE DEF Held
<1>3. ASSUME Held(n), NEW i \in 1..n, ~Held(i) PROVE FALSE
  <2> DEFINE S == {d \in 0..(n - 1) : ~Held(n - d)}
  <2>1. S \in SUBSET Nat /\ n - i \in S
    <3>1. n - (n - i) = i /\ n - i \in 0..(n - 1)
      OBVIOUS
    <3> QED
      BY <1>3, <3>1
  <2>2. PICK d \in S : \A k \in S : d <= k
    <3> HIDE DEF S
    <3> QED
      BY <2>1, LeastNumber
  <2>3. d # 0
    BY <1>3, <2>2
  <2>4. d - 1 \in 0..(n - 1) /\ d - 1 \notin S
    BY <2>2, <2>3
  <2>5. Held(n - (d - 1)) /\ n - d \in 1..(n - 1) /\ n - (d - 1) = (n - d) + 1
    BY <2>2, <2>3, <2>4
  <2> QED
    BY <1>2, <2>2, <2>5
<1>4. n \in 1..n
  OBVIOUS
<1> QED
  BY <1>1, <1>3, <1>4 DEF Held

=============================================================================
