------------------------------ MODULE Standing ------------------------------
(***************************************************************************)
(* What a verifier makes of a laboratory and a device from what reaches it *)
(* over time: accreditation grants and slot credentials of any age and in  *)
(* any order, revoked slot keys, the links of a certified chain, refreshed *)
(* bridges, while the device goes on logging and committing, and while the *)
(* verifier learns the keys of authorities.  Everything is judged when it  *)
(* is used, by the clock of then.                                          *)
(***************************************************************************)
EXTENDS Parties, Devices, Recognition, FiniteSets

CONSTANTS
  Lab,          \* the accredited party
  Device, SlotKey, Segment, State,
  KeyOf,        \* the key of each node
  KnownFirst,   \* the nodes whose key the verifier starts with
  Granted, Credentials,   \* those that are in circulation
  ChainNodes, Links,     \* the nodes of the chain, and its links in order
  Act,          \* an act at an instant
  MaxAge,       \* how old a bridge may be
  MaxClock, MaxActs      \* bounds

ASSUME NodeAssumption ==
  /\ KeyOf \in [NodeId -> Key]
  /\ KnownFirst \subseteq NodeId
  /\ Lab \in NodeId
  /\ \A g \in Granted : g.authority \in NodeId
  /\ \A c \in Credentials : c.authority \in NodeId

ASSUME CirculationAssumption ==
  /\ \A g \in Granted : g.version \in Nat /\ (g.valid_to # None => g.valid_to \in Nat)
  /\ Links \in Seq({Links[i] : i \in DOMAIN Links})

ASSUME BoundAssumption == MaxClock \in Nat /\ MaxActs \in Nat /\ MaxAge \in Nat

VARIABLES
  clock,
  known,         \* the keys of the verifier's graph
  grants,        \* the grants it holds, as they came
  credentials,   \* the slot credentials it holds, as they came
  revoked,       \* the slot keys it holds to be revoked
  links,         \* how many links of the chain it ingested
  log,           \* the states of the device, one an event
  commitments,   \* what the device committed to
  bridge         \* the descriptor of the bridge

vars == <<clock, known, grants, credentials, revoked, links, log, commitments, bridge>>

held == <<grants, credentials, revoked, links>>
device == <<log, commitments>>

Init ==
  /\ clock = 0
  /\ known = [n \in NodeId |-> IF n \in KnownFirst THEN {KeyOf[n]} ELSE {}]
  /\ grants = <<>> /\ credentials = <<>> /\ revoked = {} /\ links = 0
  /\ log = <<>> /\ commitments = {}
  /\ bridge = [version |-> 1, covered_classes |-> DataClass, refreshed_at |-> 0]

\* The bound on what happens besides time and keys.
MayAct ==
  Len(grants) + Len(credentials) + Cardinality(revoked) + links + Len(log)
    + Cardinality(commitments) + bridge.version <= MaxActs

CertifiedChain == [nodes |-> ChainNodes, links |-> SubSeq(Links, 1, links)]

Tick ==
  /\ clock < MaxClock
  /\ clock' = clock + 1
  /\ UNCHANGED <<known, held, device, bridge>>

Learn(n) ==
  /\ known[n] = {}
  /\ known' = [known EXCEPT ![n] = {KeyOf[n]}]
  /\ UNCHANGED <<clock, held, device, bridge>>

\* A grant arrives, again or late, and is held: its signature is verified when it
\* is used, and the class of its authority is asked for nowhere.
ReceiveGrant(g) ==
  /\ MayAct
  /\ grants' = Append(grants, g)
  /\ UNCHANGED <<clock, known, credentials, revoked, links, device, bridge>>

ReceiveCredential(c) ==
  /\ MayAct
  /\ credentials' = Append(credentials, c)
  /\ UNCHANGED <<clock, known, grants, revoked, links, device, bridge>>

RevokeSlot(k) ==
  /\ MayAct
  /\ revoked' = revoked \cup {k}
  /\ UNCHANGED <<clock, known, grants, credentials, links, device, bridge>>

IngestLink ==
  /\ MayAct
  /\ links < Len(Links)
  /\ links' = links + 1
  /\ UNCHANGED <<clock, known, grants, credentials, revoked, device, bridge>>

\* The device has an event.
Log(state) ==
  /\ MayAct
  /\ log' = Append(log, state)
  /\ UNCHANGED <<clock, known, held, commitments, bridge>>

\* It commits to the state it is in.
Commit ==
  /\ MayAct
  /\ log # <<>>
  /\ commitments' = commitments \cup {CommitEdge(Device, "segment", Len(log), log[Len(log)])}
  /\ UNCHANGED <<clock, known, held, log, bridge>>

\* The bridge is described anew, refreshed at any instant, one to come included.
Refresh(at) ==
  /\ MayAct
  /\ bridge' = [bridge EXCEPT !.version = @ + 1, !.refreshed_at = at]
  /\ UNCHANGED <<clock, known, held, device>>

Next ==
  \/ Tick
  \/ \E n \in NodeId : Learn(n)
  \/ \E g \in Granted : ReceiveGrant(g)
  \/ \E c \in Credentials : ReceiveCredential(c)
  \/ \E k \in SlotKey : RevokeSlot(k)
  \/ IngestLink
  \/ \E state \in State : Log(state)
  \/ Commit
  \/ \E at \in 0..MaxClock : Refresh(at)

Spec == Init /\ [][Next]_vars

-----------------------------------------------------------------------------
(* Properties *)

\* The grants that did not verify, or were not held, and now count.
NowAdmissible == Admissible(known', grants', Lab) \ Admissible(known, grants, Lab)

ByTheLatest ==
  Admissible(known, grants, Lab) # {} =>
    /\ StandingAt(known', grants', Lab, clock') # "missing"
    /\ /\ clock' = clock
       /\ StandingAt(known', grants', Lab, clock') # StandingAt(known, grants, Lab, clock)
       => \E j \in NowAdmissible : \A i \in Admissible(known, grants, Lab) :
            grants[i].version <= grants'[j].version

\* The laboratory is graded by the latest of the grants that verify (the comment
\* in standing_at): once it has a standing it keeps one, and while the clock stands
\* it is graded differently only when a grant that did not verify, or was not held,
\* is admissible now and not older than any that was.  Forged grants and older
\* ones, however late they come, neither end a standing nor give one.
GradedByTheLatest == [][ByTheLatest]_vars

\* From expired to live, another grant is the latest, not older than that which
\* had ended.
NewGrantRevives ==
  /\ StandingAt(known, grants, Lab, clock) = "expired"
  /\ StandingAt(known', grants', Lab, clock') = "live"
  => \A i \in Latest(known, grants, Lab), j \in Latest(known', grants', Lab) :
       grants[i].valid_from <= clock =>
         grants'[j] # grants[i] /\ grants'[j].version >= grants[i].version

\* From stale to fresh, the bridge was described anew, or the instant of its
\* refresh, which was to come, is come.
RefreshRevives ==
  \A c \in DataClass :
    /\ <<c, FALSE>> \in BridgeHealth(<<bridge>>, clock, MaxAge)[1]
    /\ <<c, TRUE>> \in BridgeHealth(<<bridge'>>, clock', MaxAge)[1]
    => \/ bridge'.version > bridge.version
       \/ clock < bridge.refreshed_at /\ bridge.refreshed_at <= clock'

\* What is admitted with one more link was admitted without.
LinksOnlyNarrow ==
  links' > links /\ ChainAdmits(known', CertifiedChain', Act[clock'])
    => ChainAdmits(known, CertifiedChain, Act[clock])

\* What has lapsed does not come back by itself, nor by what is older: when the
\* standing of the laboratory goes from expired to live, then another grant, not
\* older than the one that had ended, is the latest; when a bridge goes from stale
\* to fresh, it was described anew or the day of its refresh is come; and an act
\* that the chain did not admit is not admitted for one more link.
LapsedStaysLapsed == [][NewGrantRevives /\ RefreshRevives /\ LinksOnlyNarrow]_vars

\* A slot key that has a standing for one segment has none for another one later,
\* and is revoked from then on once it is revoked.
SpeaksForOneSegment ==
  \A k \in SlotKey, s, t \in Segment :
    /\ SlotStanding(known, credentials, Device, k, s, revoked) # "no-chain"
    /\ SlotStanding(known', credentials', Device, k, t, revoked') # "no-chain"
    => /\ s = t
       /\ k \in revoked =>
            SlotStanding(known', credentials', Device, k, t, revoked') = "revoked"

\* What a commitment can be revealed to be is what the device logged.
CommitmentsBind ==
  \A c \in commitments, n \in DOMAIN log', state \in State :
    VerifyReveal(c, n, state) => n = c.prefix_len /\ state = log'[n]

\* A slot key speaks for one segment at most, the same for ever, whatever
\* credentials arrive for it later and whatever keys are learned, and for none
\* once it is revoked; and of all that the device could reveal, a commitment
\* fits nothing but the state the device was in after that many events, however
\* far its log has gone on.
DeviceSpeaksWithOneVoice == [][SpeaksForOneSegment /\ CommitmentsBind]_vars

=============================================================================
