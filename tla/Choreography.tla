---------------------------- MODULE Choreography ----------------------------
(***************************************************************************)
(* The signed cross-border messages of s13.rs and the replay of a journal. *)
(*                                                                         *)
(* The request and the response themselves are another crate's: a request  *)
(* has a subject and a data class, a response names the request it answers *)
(* by digest (here the request), its custodian, an outcome and a policy.   *)
(***************************************************************************)
EXTENDS Signing, Sequences

CONSTANTS
  Request,     \* the requests: [id, subject, class]
  Subject      \* what requests are about

\* Which outcomes the authority counter-signs.
Outcome == {"permit", "attestation-offer", "deny"}

Response == [request : Request, custodian : NodeId, outcome : Outcome, policy : Nat]

\* SignedS13Request::issue and verify.  The requester is not in what it signs.
SignRequest(request, requester, key) ==
  [kind |-> "request", request |-> request, requester |-> requester,
   signature |-> Slot(key, "s13-message", <<"request", request>>)]

RequestVerifies(keys, m) ==
  SignedBy(keys, m.requester, m.signature, "s13-message", <<"request", m.request>>)

\* SignedS13Response::issue and verify.
SignResponse(response, key) ==
  [kind |-> "response", response |-> response,
   signature |-> Slot(key, "s13-message", <<"response", response>>)]

ResponseVerifies(keys, m) ==
  SignedBy(keys, m.response.custodian, m.signature, "s13-message", <<"response", m.response>>)

\* authority_payload_for: the answer by its request, its place and its policy.
AuthorityPayload(response, sequence) ==
  <<"answer", response.request, sequence, response.policy>>

\* NonRepudiableResponse::issue.
Countersign(m, authority, key, sequence) ==
  [kind |-> "countersigned", response |-> m.response, signature |-> m.signature,
   authority |-> authority, sequence |-> sequence,
   authority_signature |-> Slot(key, "s13-message", AuthorityPayload(m.response, sequence))]

\* Mutant: any later place will do.
CountersignedVerifiesLater(keys, m, expected) ==
  /\ ResponseVerifies(keys, m)
  /\ m.sequence >= expected
  /\ SignedBy(keys, m.authority, m.authority_signature, "s13-message",
              AuthorityPayload(m.response, m.sequence))

\* NonRepudiableResponse::verify, at the place that is expected.
CountersignedVerifies(keys, m, expected) ==
  /\ ResponseVerifies(keys, m)
  /\ m.sequence = expected
  /\ SignedBy(keys, m.authority, m.authority_signature, "s13-message",
              AuthorityPayload(m.response, m.sequence))

-----------------------------------------------------------------------------
(* Replay *)

DecisionOf(response) ==
  [request |-> response.request, outcome |-> response.outcome, policy |-> response.policy]

Asked(entries) == {entries[i].request : i \in {i \in DOMAIN entries : entries[i].kind = "request"}}

\* The key of an answer's sequence: subject and custodian.
PlaceOf(response) == <<response.request.subject, response.custodian>>

Failed == [ok |-> FALSE, decisions |-> <<>>, last |-> [p \in Subject \X NodeId |-> 0]]

\* One entry of replay: what comes before it, then what it adds, or the failure.
ReplayEntry(keys, before, asked, m) ==
  IF ~before.ok THEN Failed
  ELSE IF m.kind = "request"
  THEN IF RequestVerifies(keys, m) THEN before ELSE Failed
  ELSE IF m.kind = "response"
  THEN IF ResponseVerifies(keys, m) /\ m.response.request \in asked
       THEN [before EXCEPT !.decisions = Append(@, DecisionOf(m.response))]
       ELSE Failed
  ELSE IF /\ m.response.request \in asked
          /\ CountersignedVerifies(keys, m, before.last[PlaceOf(m.response)] + 1)
       THEN [before EXCEPT !.decisions = Append(@, DecisionOf(m.response)),
                           !.last[PlaceOf(m.response)] = m.sequence]
       ELSE Failed

\* S13Journal::replay, from the journal alone.
Replay(keys, entries) ==
  LET after[n \in 0..Len(entries)] ==
        IF n = 0
        THEN [ok |-> TRUE, decisions |-> <<>>, last |-> [p \in Subject \X NodeId |-> 0]]
        ELSE ReplayEntry(keys, after[n - 1], Asked(SubSeq(entries, 1, n - 1)), entries[n])
  IN after[Len(entries)]

=============================================================================
