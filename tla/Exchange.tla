------------------------------ MODULE Exchange ------------------------------
(***************************************************************************)
(* A verifier asks a custodian about subjects while both go on declaring   *)
(* what they are willing to exchange.  Requests and answers are journaled  *)
(* on both sides; what is sent arrives late, in any order, again or never. *)
(* An answer crosses only through deliver or through a hub's relay.        *)
(***************************************************************************)
EXTENDS Declarations, Choreography, FiniteSets

CONSTANTS
  Verifier, Custodian, Hub, Authority,   \* nodes of the two sides, a hub, a policy authority
  KeyOf,               \* the key each of them signs with
  Offered,             \* the declarations that are registered
  MaxDeclarations,     \* bound: registrations
  MaxAnswers,          \* bound: answers
  MaxJournal           \* bound: entries of each journal

ASSUME PartyAssumption ==
  /\ {Verifier, Custodian, Hub, Authority} \subseteq NodeId
  /\ KeyOf \in [NodeId -> Key]
  /\ \A n \in NodeId : CanSign(KeyOf[n])

ASSUME ContentAssumption ==
  /\ \A r \in Request : r.subject \in Subject
  /\ \A d \in Offered :
       /\ d.version \in Nat
       /\ \A c \in DOMAIN d.postures :
            d.postures[c] \in ClassPosture /\ d.postures[c] # None

\* None is no signature.
ASSUME NoneAssumption ==
  /\ None \notin Key \X SigningDomain \X ({"request"} \X Request)
  /\ None \notin Key \X SigningDomain \X ({"response"} \X Response)
  /\ None \notin Key \X SigningDomain \X ({"answer"} \X Request \X Nat \X Nat)

ASSUME BoundAssumption == MaxDeclarations \in Nat /\ MaxAnswers \in Nat /\ MaxJournal \in Nat

VARIABLES
  registry,      \* DeclarationSet.declarations
  requests,      \* the signed requests that were sent
  answers,       \* the signed answers that were sent
  verifier,      \* the entries of the verifier's journal
  custodian,     \* the entries of the custodian's journal
  places         \* the last place the authority counter-signed, by subject

vars == <<registry, requests, answers, verifier, custodian, places>>

\* The keys of each node in the graph of both sides.
Keys == [n \in NodeId |-> {KeyOf[n]}]

Init ==
  /\ registry = <<>>
  /\ requests = {}
  /\ answers = {}
  /\ verifier = <<>>
  /\ custodian = <<>>
  /\ places = [s \in Subject |-> 0]

\* DeclarationSet::register, which checks nothing.
Register(d) ==
  /\ Len(registry) < MaxDeclarations
  /\ registry' = Append(registry, d)
  /\ UNCHANGED <<requests, answers, verifier, custodian, places>>

\* The verifier signs a request, journals it and sends it.
Ask(request) ==
  \E m \in {SignRequest(request, Verifier, KeyOf[Verifier])} :
    /\ Len(verifier) < MaxJournal
    /\ m \notin requests
    /\ requests' = requests \cup {m}
    /\ verifier' = Append(verifier, m)
    /\ UNCHANGED <<registry, answers, custodian, places>>

\* A request arrives, verifies and is journaled.
Receive(m) ==
  /\ RequestVerifies(Keys, m)
  /\ Len(custodian) < MaxJournal
  /\ custodian' = Append(custodian, m)
  /\ UNCHANGED <<registry, requests, answers, verifier, places>>

\* The authority's own book of the places it gave, which issue is handed: an
\* answer takes the next one unless it permits.
PlacesAfter(subject, outcome) ==
  IF outcome = "permit" THEN places ELSE [places EXCEPT ![subject] = @ + 1]

\* The custodian answers a request it journaled, again if it likes: it journals
\* and sends what it signs, with the authority's counter-signature at the next
\* place of the subject unless it permits.
Answer(request, outcome, policy) ==
  LET response == [request |-> request, custodian |-> Custodian, outcome |-> outcome,
                   policy |-> policy]
      signed == SignResponse(response, KeyOf[Custodian])
      sent == IF outcome = "permit" THEN signed
              ELSE Countersign(signed, Authority, KeyOf[Authority], places[request.subject] + 1)
  IN
  /\ request \in Asked(custodian)
  /\ Cardinality(answers) < MaxAnswers
  /\ Len(custodian) < MaxJournal
  /\ answers' = answers \cup {sent}
  /\ custodian' = Append(custodian, sent)
  /\ places' = PlacesAfter(request.subject, outcome)
  /\ UNCHANGED <<registry, requests, verifier>>

\* An answer that the custodian's declaration lets through is journaled.
DeliverAnswer(m, mode) ==
  /\ Len(verifier) < MaxJournal
  /\ Deliver(registry, Custodian, Verifier, m.response.request.class, mode) = "delivered"
  /\ verifier' = Append(verifier, m)
  /\ UNCHANGED <<registry, requests, answers, custodian, places>>

\* A hub relays an answer; the verifier journals what arrives beside the relay's
\* statement when that statement is about it.
RelayAnswer(m, arrived) ==
  LET class == m.response.request.class IN
  /\ Len(verifier) < MaxJournal
  /\ BothWilling(registry, Custodian, Verifier, class)
  /\ RelayVerifies(Keys, Relayed(Hub, m, Custodian, Verifier, class, KeyOf[Hub]), arrived)
  /\ verifier' = Append(verifier, arrived)
  /\ UNCHANGED <<registry, requests, answers, custodian, places>>

Next ==
  \/ \E d \in Offered : Register(d)
  \/ \E r \in Request : Ask(r)
  \/ \E m \in requests : Receive(m)
  \/ \E r \in Request, o \in Outcome : Answer(r, o, 1)
  \/ \E m \in answers, mode \in {"protocol", "document"} : DeliverAnswer(m, mode)
  \/ \E m, arrived \in answers : RelayAnswer(m, arrived)

Spec == Init /\ [][Next]_vars

-----------------------------------------------------------------------------
(* Properties *)

\* An answer about a subject that the authority counter-signed.
CounterSigned(m, s) == m.kind = "countersigned" /\ m.response.request.subject = s

\* A posture of a party toward another that no other declaration overtakes.
Stands(i, declarer, counterpart, class) ==
  /\ registry[i].declarer = declarer
  /\ registry[i].counterpart = counterpart
  /\ class \in DOMAIN registry[i].postures
  /\ \A j \in DOMAIN registry :
       registry[j].declarer = declarer /\ registry[j].counterpart = counterpart =>
         \/ registry[j].version < registry[i].version
         \/ registry[j].version = registry[i].version /\ j <= i

\* An answer that the verifier journals now crosses by the will of those who say
\* how they exchange its class.
CrossesByWill(m) ==
  Len(verifier') > Len(verifier) /\ verifier'[Len(verifier')] = m =>
    \A class \in {m.response.request.class} :
    \A i \in DOMAIN registry : Stands(i, Custodian, Verifier, class) =>
      /\ registry[i].postures[class].level # 0
      /\ registry[i].postures[class].transports = {"hub"} =>
           \A j \in DOMAIN registry : Stands(j, Verifier, Custodian, class) =>
             registry[j].postures[class].level # 0

\* Once the custodian's newest word on a class toward the verifier is that it does
\* not exchange it, no answer of that class crosses, however long ago it was
\* signed and however old the declarations registered since; and when that word
\* leaves the hub as the only way, the verifier's newest word stops it too.
WithdrawnWillIsNeverBrokered == [][\A m \in answers : CrossesByWill(m)]_vars

\* A declaration that is registered with a version below one of the same pair.
ComesLate(i) ==
  /\ Len(registry') = Len(registry) + 1
  /\ registry'[Len(registry')].declarer = registry[i].declarer
  /\ registry'[Len(registry')].counterpart = registry[i].counterpart
  /\ registry'[Len(registry')].version < registry[i].version

SameWill ==
  \A p, q \in {Verifier, Custodian}, c \in DataClass :
    /\ \A mode \in TransportMode :
         Permits(registry', p, q, c, mode) = Permits(registry, p, q, c, mode)
    /\ DeclaredLevel(registry', p, q, c) = DeclaredLevel(registry, p, q, c)

\* A declaration that arrives late, with a version below one that is registered
\* for the same pair, changes no permission and no level.
LateVersionChangesNothing == [][\A i \in DOMAIN registry : ComesLate(i) => SameWill]_vars

\* How many of the first n entries of a journal are counter-signed answers about s.
Rank(entries, s, n) == Cardinality({i \in 1..n : CounterSigned(entries[i], s)})

\* The custodian's journal always replays, to as many decisions as it holds answers.
CustodianReplays ==
  \A told \in {Replay(Keys, custodian)} :
    /\ told.ok
    /\ Len(told.decisions) = Cardinality({i \in DOMAIN custodian : custodian[i].kind # "request"})

\* Every answer of a journal comes after the request it answers.
EveryAnswerWasAsked(entries) ==
  \A i \in DOMAIN entries : entries[i].kind # "request" =>
    \E j \in 1..(i - 1) :
      entries[j].kind = "request" /\ entries[j].request = entries[i].response.request

\* The n-th counter-signed answer about a subject in the verifier's journal is the
\* n-th in the custodian's.
CounterAgrees ==
  \A s \in Subject : \A i \in DOMAIN verifier : CounterSigned(verifier[i], s) =>
    \E j \in DOMAIN custodian :
      custodian[j] = verifier[i] /\ Rank(custodian, s, j) = Rank(verifier, s, i)

\* The custodian's journal always replays, to what it answered.  When the
\* verifier's replays, every decision it shows was asked for, and the
\* counter-signed ones of each subject are the first that the custodian took, in
\* its order, with none missing and none twice, whatever was lost, repeated or
\* reordered on the way.
ReplayTellsTheExchange ==
  /\ CustodianReplays
  /\ Replay(Keys, verifier).ok => EveryAnswerWasAsked(verifier) /\ CounterAgrees

=============================================================================
