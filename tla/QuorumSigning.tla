--------------------------- MODULE QuorumSigning ----------------------------
(***************************************************************************)
(* What a threshold ceremony promises its callers (confium.rs, the         *)
(* CeremonyCoordinator seam), without rounds, messages or cryptography: an *)
(* act is opened for one quorum and is signed at most once, in one step,   *)
(* by a set of nodes that qualifies for that quorum.                       *)
(***************************************************************************)
EXTENDS Integers

CONSTANTS
  Qualifies,  \* for each quorum, the sets of nodes that may sign for it
  MaxActs,    \* bound on the acts
  Unopened    \* an act that has not been opened

VARIABLE acts   \* by number: Unopened, or the quorum of the act and who signed

Open(s, q) ==
  /\ acts[s] = Unopened
  /\ acts' = [acts EXCEPT ![s] = [quorum |-> q, signers |-> {}]]

Sign(s) ==
  /\ acts[s] # Unopened
  /\ acts[s].signers = {}
  /\ \E signers \in Qualifies[acts[s].quorum] :
       acts' = [acts EXCEPT ![s].signers = signers]

Init == acts = [s \in 1..MaxActs |-> Unopened]

Next ==
  \E s \in 1..MaxActs : Sign(s) \/ \E q \in DOMAIN Qualifies : Open(s, q)

Spec == Init /\ [][Next]_acts
=============================================================================
