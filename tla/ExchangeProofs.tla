--------------------------- MODULE ExchangeProofs ---------------------------
(***************************************************************************)
(* Proofs about Exchange, for every set of requests and of declarations,   *)
(* registered and answered in any number and any order.  The head of a     *)
(* chain of declarations is one (OneHead), so the posture that a delivery  *)
(* consults is the one that stands (StandingIsConsulted); a declaration    *)
(* that comes late is the head of nothing (HeadsStay).                     *)
(***************************************************************************)
EXTENDS Exchange, SequenceTheorems, FiniteSetTheorems, WellFoundedInduction, TLAPS

-----------------------------------------------------------------------------
(* What is registered, sent and journaled *)

\* What was sent is what it is taken for, and the journals hold nothing else.
Sent ==
  /\ \A m \in requests : m.kind = "request" /\ m.request \in Request
  /\ \A m \in answers : m.kind # "request" /\ m.response \in Response
  /\ \A i \in DOMAIN verifier : verifier[i] \in requests \cup answers
  /\ \A i \in DOMAIN custodian : custodian[i] \in requests \cup answers

IInv ==
  /\ registry \in Seq(Offered)
  /\ verifier \in Seq(requests \cup answers)
  /\ custodian \in Seq(requests \cup answers)
  /\ places \in [Subject -> Nat]
  /\ Sent

LEMMA InitInv == Init => IInv
<1> SUFFICES ASSUME Init PROVE IInv
  OBVIOUS
<1>1. /\ registry = <<>> /\ verifier = <<>> /\ custodian = <<>>
      /\ requests = {} /\ answers = {}
      /\ places = [s \in Subject |-> 0]
  BY DEF Init
<1>2. Sent
  BY <1>1 DEF Sent
<1> QED
  BY <1>1, <1>2 DEF IInv

\* A sequence keeps its type when what it holds grows.
LEMMA SeqWidens ==
  ASSUME NEW S, NEW T, S \subseteq T, NEW s \in Seq(S)
  PROVE  s \in Seq(T)
<1>1. \A i \in 1..Len(s) : s[i] \in T
  BY ElementOfSeq
<1>2. s \in [1..Len(s) -> S] /\ Len(s) \in Nat
  BY LenProperties
<1> QED
  BY <1>1, <1>2

LEMMA RegisterInv == ASSUME IInv, NEW d \in Offered, Register(d) PROVE IInv'
<1>1. registry' \in Seq(Offered) /\ UNCHANGED <<requests, answers, verifier, custodian, places>>
  BY AppendProperties DEF Register, IInv
<1> QED
  BY <1>1 DEF IInv, Sent

\* The entries of a journal are what was sent.
LEMMA EntriesSent ==
  ASSUME NEW S, NEW s \in Seq(S)
  PROVE  \A i \in DOMAIN s : s[i] \in S
BY LenProperties, ElementOfSeq

LEMMA AskInv == ASSUME IInv, NEW request \in Request, Ask(request) PROVE IInv'
<1>1. PICK m \in {SignRequest(request, Verifier, KeyOf[Verifier])} :
        /\ requests' = requests \cup {m}
        /\ verifier' = Append(verifier, m)
        /\ UNCHANGED <<registry, answers, custodian, places>>
  BY DEF Ask
<1>2. m.kind = "request" /\ m.request = request
  BY <1>1 DEF SignRequest
<1>3. /\ custodian' \in Seq(requests' \cup answers')
      /\ verifier \in Seq(requests' \cup answers')
  BY <1>1, SeqWidens DEF IInv
<1>4. verifier' \in Seq(requests' \cup answers')
  BY <1>1, <1>3, AppendProperties
<1>5. /\ \A i \in DOMAIN verifier' : verifier'[i] \in requests' \cup answers'
      /\ \A i \in DOMAIN custodian' : custodian'[i] \in requests' \cup answers'
  BY <1>3, <1>4, EntriesSent
<1>6. Sent'
  BY <1>1, <1>2, <1>5 DEF IInv, Sent
<1> QED
  BY <1>1, <1>3, <1>4, <1>6 DEF IInv

LEMMA ReceiveInv == ASSUME IInv, NEW m \in requests, Receive(m) PROVE IInv'
<1>1. custodian' = Append(custodian, m) /\ UNCHANGED <<registry, requests, answers, verifier, places>>
  BY DEF Receive
<1>2. custodian' \in Seq(requests \cup answers)
  BY <1>1, AppendProperties DEF IInv
<1>3. \A i \in DOMAIN custodian' : custodian'[i] \in requests \cup answers
  BY <1>2, EntriesSent
<1>4. Sent'
  BY <1>1, <1>3 DEF IInv, Sent
<1> QED
  BY <1>1, <1>2, <1>4 DEF IInv

\* What the verifier journals of the answers that were sent.
LEMMA JournalInv ==
  ASSUME IInv, NEW m \in answers, verifier' = Append(verifier, m),
         UNCHANGED <<registry, requests, answers, custodian, places>>
  PROVE  IInv'
<1>1. verifier' \in Seq(requests \cup answers)
  BY AppendProperties DEF IInv
<1>2. \A i \in DOMAIN verifier' : verifier'[i] \in requests \cup answers
  BY <1>1, EntriesSent
<1>3. Sent'
  BY <1>2 DEF IInv, Sent
<1> QED
  BY <1>1, <1>3 DEF IInv

LEMMA AnswerInv ==
  ASSUME IInv, NEW request \in Request, NEW outcome \in Outcome, Answer(request, outcome, 1)
  PROVE  IInv'
<1> DEFINE response == [request |-> request, custodian |-> Custodian, outcome |-> outcome,
                        policy |-> 1]
           signed == SignResponse(response, KeyOf[Custodian])
           sent == IF outcome = "permit" THEN signed
                   ELSE Countersign(signed, Authority, KeyOf[Authority],
                                    places[request.subject] + 1)
<1>1. /\ answers' = answers \cup {sent}
      /\ custodian' = Append(custodian, sent)
      /\ places' = PlacesAfter(request.subject, outcome)
      /\ UNCHANGED <<registry, requests, verifier>>
  BY DEF Answer
<1>2. response \in Response
  BY PartyAssumption DEF Response
<1>3. request.subject \in Subject /\ places \in [Subject -> Nat]
  BY ContentAssumption DEF IInv
<1>4. /\ sent.response = response
      /\ sent.kind = IF outcome = "permit" THEN "response" ELSE "countersigned"
  BY DEF SignResponse, Countersign
<1>5. places' \in [Subject -> Nat]
  BY <1>1, <1>3 DEF PlacesAfter
<1>6. /\ verifier' \in Seq(requests' \cup answers')
      /\ custodian' \in Seq(requests' \cup answers')
  <2>1. /\ verifier \in Seq(requests' \cup answers')
        /\ custodian \in Seq(requests' \cup answers')
    BY <1>1, SeqWidens DEF IInv
  <2>2. sent \in requests' \cup answers'
    BY <1>1
  <2>3. Append(custodian, sent) \in Seq(requests' \cup answers')
    BY <2>1, <2>2, AppendProperties
  <2> QED
    BY <1>1, <2>1, <2>3
<1>7. /\ \A i \in DOMAIN verifier' : verifier'[i] \in requests' \cup answers'
      /\ \A i \in DOMAIN custodian' : custodian'[i] \in requests' \cup answers'
  BY <1>6, EntriesSent
<1>8. \A m \in answers' : m.kind # "request" /\ m.response \in Response
  BY <1>1, <1>2, <1>4 DEF IInv, Sent
<1>9. Sent'
  BY <1>1, <1>7, <1>8 DEF IInv, Sent
<1> QED
  BY <1>1, <1>5, <1>6, <1>9 DEF IInv

LEMMA StepInv == ASSUME IInv, [Next]_vars PROVE IInv'
<1>1. ASSUME NEW d \in Offered, Register(d) PROVE IInv'
  BY <1>1, RegisterInv
<1>2. ASSUME NEW r \in Request, Ask(r) PROVE IInv'
  BY <1>2, AskInv
<1>3. ASSUME NEW m \in requests, Receive(m) PROVE IInv'
  BY <1>3, ReceiveInv
<1>4. ASSUME NEW r \in Request, NEW o \in Outcome, Answer(r, o, 1) PROVE IInv'
  BY <1>4, AnswerInv
<1>5. ASSUME NEW m \in answers, NEW mode, DeliverAnswer(m, mode) PROVE IInv'
  BY <1>5, JournalInv DEF DeliverAnswer
<1>6. ASSUME NEW m \in answers, NEW arrived \in answers, RelayAnswer(m, arrived) PROVE IInv'
  BY <1>6, JournalInv DEF RelayAnswer
<1>7. CASE UNCHANGED vars
  BY <1>7 DEF vars, IInv, Sent
<1> QED
  BY <1>1, <1>2, <1>3, <1>4, <1>5, <1>6, <1>7 DEF Next

LEMMA Invariance == Spec => []IInv
<1>1. IInv /\ [Next]_vars => IInv'
  BY StepInv
<1> QED
  BY InitInv, <1>1, PTL DEF Spec

-----------------------------------------------------------------------------
(* The head of a chain *)

LEMMA OneHead ==
  ASSUME NEW reg \in Seq(Offered), NEW p, NEW q,
         NEW i \in ChainHead(reg, p, q), NEW j \in ChainHead(reg, p, q)
  PROVE  i = j
<1>1. DOMAIN reg = 1..Len(reg) /\ Len(reg) \in Nat
  BY LenProperties
<1>2. /\ i \in Chain(reg, p, q) /\ j \in Chain(reg, p, q)
      /\ reg[j].version < reg[i].version \/ (reg[j].version = reg[i].version /\ j <= i)
      /\ reg[i].version < reg[j].version \/ (reg[i].version = reg[j].version /\ i <= j)
  BY DEF ChainHead
<1>3. i \in DOMAIN reg /\ j \in DOMAIN reg
  BY <1>2 DEF Chain
<1>4. reg[i].version \in Nat /\ reg[j].version \in Nat
  BY <1>3, EntriesSent, ContentAssumption
<1> QED
  BY <1>1, <1>2, <1>3, <1>4

\* A posture that stands is the one that is consulted.
LEMMA StandingIsConsulted ==
  ASSUME registry \in Seq(Offered), NEW p, NEW q, NEW class,
         NEW i \in DOMAIN registry, Stands(i, p, q, class)
  PROVE  ConsultedPosture(registry, p, q, class) = registry[i].postures[class]
<1> DEFINE covering(c) == {n \in ChainHead(registry, p, c) :
                             PostureFor(registry[n], class) # None}
           chosen == IF covering(q) # {} THEN covering(q) ELSE covering(AnyParty)
<1>1. i \in ChainHead(registry, p, q)
  BY DEF Stands, ChainHead, Chain
<1>2. PostureFor(registry[i], class) = registry[i].postures[class]
  BY DEF Stands, PostureFor
<1>3. registry[i].postures[class] # None
  BY EntriesSent, ContentAssumption DEF Stands
<1>4. covering(q) = {i}
  BY <1>1, <1>2, <1>3, OneHead
<1>5. chosen = {i}
  BY <1>4
<1>6. (CHOOSE n \in chosen : TRUE) = i
  BY <1>5
<1>7. ConsultedPosture(registry, p, q, class)
        = IF chosen = {} THEN None
          ELSE PostureFor(registry[CHOOSE n \in chosen : TRUE], class)
  BY DEF ConsultedPosture
<1> QED
  BY <1>2, <1>5, <1>6, <1>7

LEMMA PermittedByStanding ==
  ASSUME registry \in Seq(Offered), NEW p, NEW q, NEW class, NEW mode,
         NEW i \in DOMAIN registry, Stands(i, p, q, class),
         Permits(registry, p, q, class, mode) = "permitted"
  PROVE  /\ registry[i].postures[class].level # 0
         /\ mode \in registry[i].postures[class].transports
BY StandingIsConsulted DEF Permits

\* No answer crosses against the newest word of the custodian on its class, nor,
\* where only the hub is left, against that of the verifier, for every set of
\* declarations in whatever order they are registered.
THEOREM WithdrawnWill == Spec => WithdrawnWillIsNeverBrokered
<1>1. ASSUME IInv, [Next]_vars, NEW m \in answers PROVE CrossesByWill(m)
  <2> SUFFICES ASSUME Len(verifier') > Len(verifier), verifier'[Len(verifier')] = m,
                      NEW class, class = m.response.request.class,
                      NEW i \in DOMAIN registry, Stands(i, Custodian, Verifier, class)
               PROVE  /\ registry[i].postures[class].level # 0
                      /\ registry[i].postures[class].transports = {"hub"} =>
                           \A j \in DOMAIN registry : Stands(j, Verifier, Custodian, class) =>
                             registry[j].postures[class].level # 0
    BY DEF CrossesByWill
  <2> DEFINE Goal == /\ registry[i].postures[class].level # 0
                     /\ registry[i].postures[class].transports = {"hub"} =>
                          \A j \in DOMAIN registry : Stands(j, Verifier, Custodian, class) =>
                            registry[j].postures[class].level # 0
  <2>1. registry \in Seq(Offered) /\ verifier \in Seq(requests \cup answers)
        /\ Len(verifier) \in Nat
    BY <1>1, LenProperties DEF IInv
  <2>2. ASSUME NEW x \in requests \cup answers, verifier' = Append(verifier, x) PROVE m = x
    <3>1. verifier'[Len(verifier) + 1] = x /\ Len(verifier') = Len(verifier) + 1
      BY <2>1, <2>2, AppendProperties
    <3> QED
      BY <3>1
  <2>3. ASSUME NEW request \in Request, Ask(request) PROVE Goal
    <3>1. PICK x \in {SignRequest(request, Verifier, KeyOf[Verifier])} :
            /\ requests' = requests \cup {x}
            /\ verifier' = Append(verifier, x)
      BY <2>3 DEF Ask
    <3>2. x.kind = "request"
      BY <3>1 DEF SignRequest
    <3>3. verifier \in Seq(requests' \cup answers)
      BY <2>1, <3>1, SeqWidens
    <3>4. verifier'[Len(verifier) + 1] = x /\ Len(verifier') = Len(verifier) + 1
      BY <3>1, <3>3, AppendProperties
    <3>5. m.kind # "request"
      BY <1>1 DEF IInv, Sent
    <3> QED
      BY <3>2, <3>4, <3>5
  <2>4. ASSUME NEW x \in answers, NEW mode \in {"protocol", "document"}, DeliverAnswer(x, mode)
        PROVE  Goal
    <3>1. x = m
      BY <2>2, <2>4 DEF DeliverAnswer
    <3>2. Permits(registry, Custodian, Verifier, class, mode) = "permitted"
      BY <2>4, <3>1 DEF DeliverAnswer, Deliver
    <3>3. /\ registry[i].postures[class].level # 0
          /\ mode \in registry[i].postures[class].transports
      BY <2>1, <3>2, PermittedByStanding
    <3> QED
      BY <3>3
  <2>5. ASSUME NEW x \in answers, NEW arrived \in answers, RelayAnswer(x, arrived) PROVE Goal
    <3>1. arrived = m
      BY <2>2, <2>5 DEF RelayAnswer
    <3>2. x = arrived
      BY <2>5 DEF RelayAnswer, RelayVerifies, Relayed
    <3>3. BothWilling(registry, Custodian, Verifier, class)
      BY <2>5, <3>1, <3>2 DEF RelayAnswer
    <3>4. registry[i].postures[class].level # 0
      BY <2>1, <3>3, PermittedByStanding DEF BothWilling
    <3>5. ASSUME NEW j \in DOMAIN registry, Stands(j, Verifier, Custodian, class)
          PROVE  registry[j].postures[class].level # 0
      BY <2>1, <3>3, <3>5, PermittedByStanding DEF BothWilling
    <3> QED
      BY <3>4, <3>5
  <2>6. CASE verifier' = verifier
    BY <2>1, <2>6
  <2>7. \/ \E request \in Request : Ask(request)
        \/ \E x \in answers, mode \in {"protocol", "document"} : DeliverAnswer(x, mode)
        \/ \E x, arrived \in answers : RelayAnswer(x, arrived)
        \/ verifier' = verifier
    BY <1>1 DEF Next, vars, Register, Receive, Answer
  <2> QED
    BY <2>3, <2>4, <2>5, <2>6, <2>7
<1>2. IInv /\ [Next]_vars => \A m \in answers : CrossesByWill(m)
  BY <1>1
<1> QED
  BY <1>2, Invariance, PTL DEF Spec, WithdrawnWillIsNeverBrokered

-----------------------------------------------------------------------------
(* What comes late *)

\* Every chain keeps its head, and is empty after if it was before.
SameHeads ==
  \A p, q : /\ ChainHead(registry', p, q) = ChainHead(registry, p, q)
            /\ Chain(registry', p, q) = {} <=> Chain(registry, p, q) = {}
            /\ \A n \in ChainHead(registry, p, q) : registry'[n] = registry[n]

LEMMA HeadsStay ==
  ASSUME registry \in Seq(Offered), NEW d \in Offered, registry' = Append(registry, d),
         NEW i \in DOMAIN registry, ComesLate(i)
  PROVE  SameHeads
<1>1. /\ DOMAIN registry = 1..Len(registry) /\ Len(registry) \in Nat
      /\ registry' \in Seq(Offered)
      /\ Len(registry') = Len(registry) + 1
      /\ \A n \in 1..Len(registry) : registry'[n] = registry[n]
      /\ registry'[Len(registry) + 1] = d
  BY LenProperties, AppendProperties
<1>2. DOMAIN registry' = 1..(Len(registry) + 1)
  BY <1>1, LenProperties
<1>3. /\ d.declarer = registry[i].declarer /\ d.counterpart = registry[i].counterpart
      /\ d.version < registry[i].version
  BY <1>1 DEF ComesLate
<1>4. \A n \in DOMAIN registry : registry[n].version \in Nat
  BY EntriesSent, ContentAssumption
<1>5. d.version \in Nat
  BY ContentAssumption
<1> SUFFICES ASSUME NEW p, NEW q
             PROVE  /\ ChainHead(registry', p, q) = ChainHead(registry, p, q)
                    /\ Chain(registry', p, q) = {} <=> Chain(registry, p, q) = {}
                    /\ \A n \in ChainHead(registry, p, q) : registry'[n] = registry[n]
  BY DEF SameHeads
<1> DEFINE Is(x) == x.declarer = p /\ x.counterpart = q
<1>6. Chain(registry', p, q)
        = Chain(registry, p, q) \cup (IF Is(d) THEN {Len(registry) + 1} ELSE {})
  BY <1>1, <1>2 DEF Chain
<1>7. Is(d) => i \in Chain(registry, p, q)
  BY <1>3 DEF Chain
<1>8. Chain(registry, p, q) \subseteq DOMAIN registry
  BY DEF Chain
<1>9. \A n \in ChainHead(registry, p, q) : n \in DOMAIN registry /\ registry'[n] = registry[n]
  BY <1>1, <1>8 DEF ChainHead
<1>10. ASSUME NEW n \in ChainHead(registry, p, q) PROVE n \in ChainHead(registry', p, q)
  <2>1. n \in Chain(registry, p, q) /\ n \in Chain(registry', p, q)
    BY <1>6 DEF ChainHead
  <2>2. ASSUME NEW j \in Chain(registry', p, q)
        PROVE  \/ registry'[j].version < registry'[n].version
               \/ registry'[j].version = registry'[n].version /\ j <= n
    <3>1. CASE j \in Chain(registry, p, q)
      BY <1>1, <1>8, <1>9, <3>1 DEF ChainHead
    <3>2. CASE j = Len(registry) + 1 /\ Is(d)
      <4>1. registry[i].version <= registry[n].version
        BY <1>4, <1>7, <1>8, <1>9, <2>1, <3>2 DEF ChainHead
      <4> QED
        BY <1>1, <1>3, <1>4, <1>5, <1>9, <3>2, <4>1
    <3> QED
      BY <1>6, <2>2, <3>1, <3>2
  <2> QED
    BY <2>1, <2>2 DEF ChainHead
<1>11. ASSUME NEW n \in ChainHead(registry', p, q) PROVE n \in ChainHead(registry, p, q)
  <2>1. n \in Chain(registry', p, q)
    BY DEF ChainHead
  <2>2. n # Len(registry) + 1
    <3> SUFFICES ASSUME n = Len(registry) + 1 PROVE FALSE
      OBVIOUS
    <3>1. Is(d)
      BY <1>1, <1>6, <1>8, <2>1
    <3>2. i \in Chain(registry', p, q)
      BY <1>6, <1>7, <3>1
    <3>3. registry'[i].version <= registry'[n].version
      BY <1>1, <1>4, <1>5, <3>2 DEF ChainHead
    <3> QED
      BY <1>1, <1>3, <1>4, <1>5, <3>3
  <2>3. n \in Chain(registry, p, q)
    BY <1>6, <2>1, <2>2
  <2>4. ASSUME NEW j \in Chain(registry, p, q)
        PROVE  \/ registry[j].version < registry[n].version
               \/ registry[j].version = registry[n].version /\ j <= n
    <3>1. j \in Chain(registry', p, q)
      BY <1>6, <2>4
    <3>2. registry'[j] = registry[j] /\ registry'[n] = registry[n]
      BY <1>1, <1>8, <2>3, <2>4
    <3> QED
      BY <3>1, <3>2 DEF ChainHead
  <2> QED
    BY <2>3, <2>4 DEF ChainHead
<1>12. Chain(registry', p, q) = {} <=> Chain(registry, p, q) = {}
  BY <1>6, <1>7
<1> QED
  BY <1>9, <1>10, <1>11, <1>12

\* The same heads give the same permissions and levels.
LEMMA HeadsDecide == ASSUME SameHeads PROVE SameWill
<1>1. ASSUME NEW p, NEW q, NEW c
      PROVE  ConsultedPosture(registry', p, q, c) = ConsultedPosture(registry, p, q, c)
  <2> DEFINE covering(r, x) == {n \in ChainHead(r, p, x) : PostureFor(r[n], c) # None}
             chosen(r) == IF covering(r, q) # {} THEN covering(r, q) ELSE covering(r, AnyParty)
             consulted(r) == IF chosen(r) = {} THEN None
                             ELSE PostureFor(r[CHOOSE n \in chosen(r) : TRUE], c)
  <2>1. \A x : covering(registry', x) = covering(registry, x)
    BY DEF SameHeads
  <2>2. chosen(registry') = chosen(registry)
    BY <2>1
  <2>3. \A n \in chosen(registry) : registry'[n] = registry[n]
    BY DEF SameHeads
  <2>4. consulted(registry') = consulted(registry)
    <3> DEFINE h == CHOOSE n \in chosen(registry) : TRUE
    <3>1. chosen(registry) # {} => h \in chosen(registry)
      OBVIOUS
    <3>2. h = CHOOSE n \in chosen(registry') : TRUE
      BY <2>2
    <3> HIDE DEF chosen, h
    <3>3. chosen(registry) # {} => registry'[h] = registry[h]
      BY <2>3, <3>1
    <3> QED
      BY <2>2, <3>2, <3>3
  <2>5. \A r : ConsultedPosture(r, p, q, c) = consulted(r)
    BY DEF ConsultedPosture
  <2> QED
    BY <2>4, <2>5
<1>2. ASSUME NEW p, NEW q, NEW c
      PROVE  SideLevel(registry', p, q, c) = SideLevel(registry, p, q, c)
  <2>1. LatestFor(registry', p, q) = LatestFor(registry, p, q)
    BY DEF LatestFor, SameHeads
  <2>2. \A n \in LatestFor(registry, p, q) : registry'[n] = registry[n]
    BY DEF LatestFor, SameHeads
  <2> QED
    BY <2>1, <2>2 DEF SideLevel
<1>3. ASSUME NEW p, NEW q, NEW c, NEW mode
      PROVE  Permits(registry', p, q, c, mode) = Permits(registry, p, q, c, mode)
  BY <1>1 DEF Permits
<1>4. ASSUME NEW p, NEW q, NEW c
      PROVE  DeclaredLevel(registry', p, q, c) = DeclaredLevel(registry, p, q, c)
  <2> DEFINE levels(r) == SideLevel(r, p, q, c) \cup SideLevel(r, q, p, c)
             lowest(ls) == IF ls = {} THEN None ELSE CHOOSE l \in ls : \A m \in ls : l <= m
  <2>1. levels(registry') = levels(registry)
    BY <1>2
  <2>2. \A r : DeclaredLevel(r, p, q, c) = lowest(levels(r))
    BY DEF DeclaredLevel
  <2> HIDE DEF levels, lowest
  <2> QED
    BY <2>1, <2>2
<1> QED
  BY <1>3, <1>4 DEF SameWill

\* However many declarations are registered and in whatever order, one that comes
\* after a higher version of its pair changes no permission and no level.
THEOREM LateVersion == Spec => LateVersionChangesNothing
<1>1. ASSUME IInv, [Next]_vars, NEW i \in DOMAIN registry, ComesLate(i) PROVE SameWill
  <2>1. registry \in Seq(Offered) /\ Len(registry) \in Nat
    BY <1>1, LenProperties DEF IInv
  <2>2. registry' = registry \/ \E d \in Offered : registry' = Append(registry, d)
    BY <1>1 DEF Next, vars, Register, Ask, Receive, Answer, DeliverAnswer, RelayAnswer
  <2>3. registry' # registry
    BY <1>1, <2>1 DEF ComesLate
  <2> QED
    BY <1>1, <2>1, <2>2, <2>3, HeadsStay, HeadsDecide
<1>2. IInv /\ [Next]_vars => \A i \in DOMAIN registry : ComesLate(i) => SameWill
  BY <1>1
<1> QED
  BY <1>2, Invariance, PTL DEF Spec, LateVersionChangesNothing

-----------------------------------------------------------------------------
(* The replay of a journal, entry by entry *)

\* Complete induction, of a set: no step of it takes an operator.
LEMMA CompleteInduction ==
  ASSUME NEW S, \A n \in Nat : (\A m \in 0..(n - 1) : m \in S) => n \in S
  PROVE  Nat \subseteq S
<1> DEFINE R == OpToRel(<, Nat)
           T == Nat \ S
<1>1. IsWellFoundedOn(R, Nat)
  BY NatLessThanWellFounded
<1>2. SUFFICES ASSUME T # {} PROVE FALSE
  OBVIOUS
<1>3. \E x \in T : \A y \in T : ~ (<<y, x>> \in R)
  <2> HIDE DEF R
  <2>1. T \subseteq Nat
    OBVIOUS
  <2> HIDE DEF T
  <2> QED
    BY <1>1, <1>2, <2>1, WFMin
<1>4. PICK x \in T : \A y \in T : ~ (<<y, x>> \in R)
  BY <1>3
<1>5. \A y \in Nat : y < x => <<y, x>> \in R
  BY DEF OpToRel
<1> HIDE DEF R
<1>6. ASSUME NEW y \in 0..(x - 1) PROVE y \in S
  <2>1. x \in Nat /\ y \in Nat /\ y < x
    OBVIOUS
  <2>2. <<y, x>> \in R
    BY <1>5, <2>1
  <2> QED
    BY <1>4, <2>1, <2>2
<1> QED
  BY <1>4, <1>6

Start == [ok |-> TRUE, decisions |-> <<>>, last |-> [p \in Subject \X NodeId |-> 0]]

\* What the n-th entry makes of the replay of those before it.
After(keys, s, n, before) ==
  IF n = 0 THEN Start ELSE ReplayEntry(keys, before, Asked(SubSeq(s, 1, n - 1)), s[n])

\* The replays of the first k entries of s.
Replays(keys, s, k, f) == f = [n \in 0..k |-> After(keys, s, n, f[n - 1])]

LEMMA ReplaysExist ==
  ASSUME NEW keys, NEW s
  PROVE  \A k \in Nat : \E f : Replays(keys, s, k, f)
<1> DEFINE S == {k \in Nat : \E f : Replays(keys, s, k, f)}
<1>1. ASSUME NEW k \in Nat, \A m \in 0..(k - 1) : m \in S PROVE k \in S
  <2> SUFFICES \E f : Replays(keys, s, k, f)
    OBVIOUS
  <2>1. CASE k = 0
    <3> DEFINE f == [n \in 0..0 |-> Start]
    <3>1. f = [n \in 0..k |-> After(keys, s, n, f[n - 1])]
      BY <2>1 DEF After
    <3> QED
      BY <3>1 DEF Replays
  <2>2. CASE k # 0
    <3>1. k - 1 \in 0..(k - 1) /\ k - 1 \in Nat
      BY <2>2
    <3>2. PICK g : Replays(keys, s, k - 1, g)
      BY <1>1, <3>1
    <3>3. \A n \in 0..(k - 1) : g[n] = After(keys, s, n, g[n - 1])
      BY <3>2 DEF Replays
    <3> DEFINE f == [n \in 0..k |-> IF n = k THEN After(keys, s, k, g[k - 1]) ELSE g[n]]
    <3>4. \A n \in 0..(k - 1) : f[n] = g[n]
      BY <3>1
    <3>5. ASSUME NEW n \in 0..k PROVE f[n] = After(keys, s, n, f[n - 1])
      <4>1. CASE n = k
        BY <3>1, <3>4, <4>1
      <4>2. CASE n = 0
        BY <2>2, <3>1, <3>3, <3>4, <4>2 DEF After
      <4>3. CASE n # k /\ n # 0
        <5>1. n \in 0..(k - 1) /\ n - 1 \in 0..(k - 1)
          BY <4>3
        <5> QED
          BY <3>3, <3>4, <5>1
      <4> QED
        BY <4>1, <4>2, <4>3
    <3>6. f = [n \in 0..k |-> f[n]]
      OBVIOUS
    <3> HIDE DEF f
    <3>7. f = [n \in 0..k |-> After(keys, s, n, f[n - 1])]
      BY <3>5, <3>6, Zenon
    <3> QED
      BY <3>7 DEF Replays
  <2> QED
    BY <2>1, <2>2
<1> HIDE DEF S
<1>2. Nat \subseteq S
  BY <1>1, CompleteInduction
<1> QED
  BY <1>2 DEF S

Alike(s, t, k) ==
  \A n \in 1..k : s[n] = t[n] /\ Asked(SubSeq(s, 1, n - 1)) = Asked(SubSeq(t, 1, n - 1))

\* Two sequences replay alike as long as they are alike.
LEMMA ReplaysAgree ==
  ASSUME NEW keys, NEW s, NEW t, NEW k \in Nat, NEW l \in Nat, k <= l, NEW f, NEW g,
         Replays(keys, s, k, f), Replays(keys, t, l, g),
         Alike(s, t, k)
  PROVE  \A n \in 0..k : f[n] = g[n]
<1> DEFINE S == {n \in Nat : n <= k => f[n] = g[n]}
<1>1. ASSUME NEW n \in Nat, \A m \in 0..(n - 1) : m \in S PROVE n \in S
  <2> SUFFICES ASSUME n <= k PROVE f[n] = g[n]
    OBVIOUS
  <2>1. f[n] = After(keys, s, n, f[n - 1]) /\ g[n] = After(keys, t, n, g[n - 1])
    BY DEF Replays
  <2>2. CASE n = 0
    BY <2>1, <2>2 DEF After
  <2>3. CASE n # 0
    <3>1. n - 1 \in 0..(n - 1) /\ n - 1 <= k /\ n \in 1..k
      BY <2>3
    <3>2. f[n - 1] = g[n - 1]
      BY <1>1, <3>1
    <3>3. s[n] = t[n] /\ Asked(SubSeq(s, 1, n - 1)) = Asked(SubSeq(t, 1, n - 1))
      BY <3>1 DEF Alike
    <3> QED
      BY <2>1, <3>2, <3>3 DEF After
  <2> QED
    BY <2>2, <2>3
<1> HIDE DEF S
<1>2. Nat \subseteq S
  BY <1>1, CompleteInduction
<1> QED
  BY <1>2 DEF S

LEMMA ReplayIs ==
  ASSUME NEW keys, NEW s, Len(s) \in Nat, NEW f, Replays(keys, s, Len(s), f)
  PROVE  Replay(keys, s) = f[Len(s)]
<1> DEFINE body(n, before) ==
             IF n = 0
             THEN [ok |-> TRUE, decisions |-> <<>>, last |-> [p \in Subject \X NodeId |-> 0]]
             ELSE ReplayEntry(keys, before, Asked(SubSeq(s, 1, n - 1)), s[n])
           after[n \in 0..Len(s)] == body(n, after[n - 1])
<1>1. \A n, before : body(n, before) = After(keys, s, n, before)
  BY DEF After, Start
<1>2. \E g : g = [n \in 0..Len(s) |-> body(n, g[n - 1])]
  <2> HIDE DEF body
  <2>1. f = [n \in 0..Len(s) |-> body(n, f[n - 1])]
    BY <1>1, Zenon DEF Replays
  <2> QED
    BY <2>1
<1>3. after = [n \in 0..Len(s) |-> body(n, after[n - 1])]
  <2> HIDE DEF body
  <2> QED
    BY <1>2, Zenon
<1>4. Replay(keys, s) = after[Len(s)]
  BY DEF Replay
<1> HIDE DEF body, after
<1>5. Replays(keys, s, Len(s), after)
  BY <1>1, <1>3 DEF Replays
<1>6. \A n \in 0..Len(s) : after[n] = f[n]
  BY <1>5, ReplaysAgree DEF Alike
<1> QED
  BY <1>4, <1>6

\* A journal replays as it did before its last entry, and then that entry.
LEMMA ReplayAppend ==
  ASSUME NEW keys, NEW S, NEW s \in Seq(S), NEW m \in S
  PROVE  Replay(keys, Append(s, m)) = ReplayEntry(keys, Replay(keys, s), Asked(s), m)
<1> DEFINE t == Append(s, m)
           k == Len(s)
<1>1. /\ k \in Nat /\ t \in Seq(S) /\ Len(t) = k + 1 /\ t[k + 1] = m
      /\ \A n \in 1..k : t[n] = s[n]
      /\ \A n \in 1..k : s[n] \in S
  BY AppendProperties, LenProperties, ElementOfSeq
<1> HIDE DEF t, k
<1>2. \A n \in 0..k : SubSeq(t, 1, n) = SubSeq(s, 1, n)
  <2> TAKE n \in 0..k
  <2>1. \A i \in 1..n : s[i] \in S /\ t[i] \in S
    BY <1>1
  <2>2. /\ SubSeq(s, 1, n) \in Seq(S) /\ SubSeq(t, 1, n) \in Seq(S)
        /\ Len(SubSeq(s, 1, n)) = n /\ Len(SubSeq(t, 1, n)) = n
        /\ \A i \in 1..n : SubSeq(s, 1, n)[i] = s[i] /\ SubSeq(t, 1, n)[i] = t[i]
    BY <1>1, <2>1, SubSeqProperties
  <2> QED
    BY <1>1, <2>2, SeqEqual
<1>3. SubSeq(s, 1, k) = s
  BY SubSeqFull DEF k
<1>4. PICK f : Replays(keys, s, k, f)
  BY <1>1, ReplaysExist
<1>5. PICK g : Replays(keys, t, k + 1, g)
  BY <1>1, ReplaysExist
<1>6. Alike(s, t, k)
  <2> SUFFICES ASSUME NEW n \in 1..k
               PROVE  s[n] = t[n] /\ Asked(SubSeq(s, 1, n - 1)) = Asked(SubSeq(t, 1, n - 1))
    BY DEF Alike
  <2>1. n - 1 \in 0..k
    BY <1>1
  <2> QED
    BY <1>1, <1>2, <2>1
<1>7. f[k] = g[k]
  <2> DEFINE l == k + 1
  <2>1. l \in Nat /\ k \in Nat /\ k <= l /\ k \in 0..k
    BY <1>1
  <2>2. Replays(keys, t, l, g)
    BY <1>5
  <2> HIDE DEF l
  <2>3. \A n \in 0..k : f[n] = g[n]
    BY <1>4, <1>6, <2>1, <2>2, ReplaysAgree
  <2> QED
    BY <2>1, <2>3
<1>8. Replay(keys, s) = f[k]
  BY <1>1, <1>4, ReplayIs DEF k
<1>9. Replay(keys, t) = g[k + 1]
  BY <1>1, <1>5, ReplayIs
<1>10. g[k + 1] = ReplayEntry(keys, g[k], Asked(SubSeq(t, 1, k)), t[k + 1])
  <2>1. k + 1 \in 0..(k + 1) /\ k + 1 # 0 /\ (k + 1) - 1 = k
    BY <1>1
  <2>2. g[k + 1] = After(keys, t, k + 1, g[(k + 1) - 1])
    BY <1>5, <2>1 DEF Replays
  <2> QED
    BY <2>1, <2>2 DEF After
<1>11. SubSeq(t, 1, k) = s
  BY <1>1, <1>2, <1>3
<1> QED
  BY <1>1, <1>7, <1>8, <1>9, <1>10, <1>11 DEF t

LEMMA ReplayEmpty == \A keys : Replay(keys, <<>>) = Start
<1> TAKE keys
<1>1. Len(<<>>) = 0 /\ 0 \in Nat
  OBVIOUS
<1>2. PICK f : Replays(keys, <<>>, 0, f)
  BY <1>1, ReplaysExist
<1>3. f[0] = Start
  BY <1>2 DEF Replays, After
<1> QED
  BY <1>1, <1>2, <1>3, ReplayIs

-----------------------------------------------------------------------------
(* What the journals show *)

Told(entries) == Replay(Keys, entries)

Answers(entries) == {i \in DOMAIN entries : entries[i].kind # "request"}

\* What can be in a journal: requests, and answers of the custodian.
IsMessage(m) ==
  /\ m.kind \in {"request", "response", "countersigned"}
  /\ m.kind # "request" => m.response \in Response /\ m.response.custodian = Custodian
  /\ m.kind = "countersigned" => m.sequence \in Nat

\* A journal that replays shows as many decisions as it holds answers, each
\* asked for, and the place of each counter-signed one is its rank.
Faithful(entries) ==
  LET told == Told(entries) IN
  told.ok =>
    /\ told = [ok |-> TRUE, decisions |-> told.decisions, last |-> told.last]
    /\ told.decisions \in Seq({DecisionOf(r) : r \in Response})
    /\ Len(told.decisions) = Cardinality(Answers(entries))
    /\ EveryAnswerWasAsked(entries)
    /\ told.last \in [Subject \X NodeId -> Nat]
    /\ \A s \in Subject :
         /\ told.last[<<s, Custodian>>] = Rank(entries, s, Len(entries))
         /\ \A i \in DOMAIN entries : CounterSigned(entries[i], s) =>
              entries[i].sequence = Rank(entries, s, i)

LEMMA AppendedIs ==
  ASSUME NEW S, NEW e \in Seq(S), NEW m \in S
  PROVE  /\ Len(e) \in Nat
         /\ DOMAIN e = 1..Len(e)
         /\ Append(e, m) \in Seq(S)
         /\ Len(Append(e, m)) = Len(e) + 1
         /\ DOMAIN Append(e, m) = 1..(Len(e) + 1)
         /\ \A i \in 1..Len(e) : Append(e, m)[i] = e[i]
         /\ Append(e, m)[Len(e) + 1] = m
<1>1. /\ Append(e, m) \in Seq(S) /\ Len(Append(e, m)) = Len(e) + 1
      /\ \A i \in 1..Len(e) : Append(e, m)[i] = e[i]
      /\ Append(e, m)[Len(e) + 1] = m
  BY AppendProperties
<1>2. Len(e) \in Nat /\ DOMAIN e = 1..Len(e)
  BY LenProperties
<1>3. DOMAIN Append(e, m) = 1..Len(Append(e, m))
  BY <1>1, LenProperties
<1> QED
  BY <1>1, <1>2, <1>3

\* One entry more adds to the ranks of its subject alone, and only if it is
\* counter-signed.
LEMMA RankAppend ==
  ASSUME NEW S, NEW e \in Seq(S), NEW m \in S, NEW s
  PROVE  /\ \A n \in 0..Len(e) : Rank(Append(e, m), s, n) = Rank(e, s, n)
         /\ Rank(Append(e, m), s, Len(e) + 1)
              = Rank(e, s, Len(e)) + (IF CounterSigned(m, s) THEN 1 ELSE 0)
         /\ Rank(e, s, Len(e)) \in Nat
<1> DEFINE signed(q, n) == {i \in 1..n : CounterSigned(q[i], s)}
           k == Len(e)
           t == Append(e, m)
<1>1. /\ k \in Nat /\ \A i \in 1..k : t[i] = e[i]
      /\ t[k + 1] = m
  BY AppendedIs
<1> HIDE DEF k, t
<1>2. \A n \in 0..k : signed(t, n) = signed(e, n)
  BY <1>1
<1>3. signed(t, k + 1) = signed(e, k) \cup (IF CounterSigned(m, s) THEN {k + 1} ELSE {})
  BY <1>1
<1>4. IsFiniteSet(signed(e, k)) /\ Cardinality(signed(e, k)) \in Nat
  <2>1. signed(e, k) \subseteq 1..k /\ 1 \in Int /\ k \in Int
    BY <1>1
  <2>2. IsFiniteSet(1..k)
    BY <2>1, FS_Interval
  <2> HIDE DEF signed
  <2> QED
    BY <2>1, <2>2, FS_Subset, FS_CardinalityType
<1>5. k + 1 \notin signed(e, k)
  BY <1>1
<1>6. \A q, n : Rank(q, s, n) = Cardinality(signed(q, n))
  BY DEF Rank
<1> HIDE DEF signed
<1>7. Cardinality(signed(e, k) \cup {k + 1}) = Cardinality(signed(e, k)) + 1
  BY <1>4, <1>5, FS_AddElement
<1>8. \A n \in 0..k : Rank(t, s, n) = Rank(e, s, n)
  BY <1>2, <1>6
<1>9. Rank(t, s, k + 1) = Rank(e, s, k) + (IF CounterSigned(m, s) THEN 1 ELSE 0)
  <2>1. CASE CounterSigned(m, s)
    BY <1>3, <1>6, <1>7, <2>1
  <2>2. CASE ~CounterSigned(m, s)
    <3>1. signed(t, k + 1) = signed(e, k)
      BY <1>3, <2>2
    <3> QED
      BY <1>4, <1>6, <2>2, <3>1
  <2> QED
    BY <2>1, <2>2
<1> QED
  BY <1>4, <1>6, <1>8, <1>9 DEF k, t

LEMMA AnswersAppend ==
  ASSUME NEW S, NEW e \in Seq(S), NEW m \in S
  PROVE  /\ Cardinality(Answers(Append(e, m)))
              = Cardinality(Answers(e)) + (IF m.kind # "request" THEN 1 ELSE 0)
         /\ Cardinality(Answers(e)) \in Nat
<1> DEFINE k == Len(e)
           t == Append(e, m)
<1>1. /\ k \in Nat /\ \A i \in 1..k : t[i] = e[i]
      /\ t[k + 1] = m
      /\ DOMAIN e = 1..k /\ DOMAIN t = 1..(k + 1)
  BY AppendedIs
<1> HIDE DEF k, t
<1>2. Answers(t) = Answers(e) \cup (IF m.kind # "request" THEN {k + 1} ELSE {})
  BY <1>1 DEF Answers
<1>3. IsFiniteSet(Answers(e)) /\ Cardinality(Answers(e)) \in Nat
  <2>1. Answers(e) \subseteq 1..k /\ 1 \in Int /\ k \in Int
    BY <1>1 DEF Answers
  <2>2. IsFiniteSet(1..k)
    BY <2>1, FS_Interval
  <2> QED
    BY <2>1, <2>2, FS_Subset, FS_CardinalityType
<1>4. k + 1 \notin Answers(e)
  BY <1>1 DEF Answers
<1>5. Cardinality(Answers(e) \cup {k + 1}) = Cardinality(Answers(e)) + 1
  BY <1>3, <1>4, FS_AddElement
<1>6. CASE m.kind # "request"
  BY <1>2, <1>3, <1>5, <1>6 DEF t
<1>7. CASE m.kind = "request"
  <2>1. Answers(t) = Answers(e)
    BY <1>2, <1>7
  <2> QED
    BY <1>3, <1>7, <2>1 DEF t
<1> QED
  BY <1>6, <1>7

LEMMA AskedAppend ==
  ASSUME NEW S, NEW e \in Seq(S), NEW m \in S, EveryAnswerWasAsked(e),
         m.kind # "request" => m.response.request \in Asked(e)
  PROVE  EveryAnswerWasAsked(Append(e, m))
<1> DEFINE k == Len(e)
           t == Append(e, m)
<1>1. /\ k \in Nat /\ \A i \in 1..k : t[i] = e[i]
      /\ t[k + 1] = m
      /\ DOMAIN e = 1..k /\ DOMAIN t = 1..(k + 1)
  BY AppendedIs
<1> HIDE DEF k, t
<1> SUFFICES ASSUME NEW i \in DOMAIN t, t[i].kind # "request"
             PROVE  \E j \in 1..(i - 1) : t[j].kind = "request"
                                          /\ t[j].request = t[i].response.request
  BY DEF EveryAnswerWasAsked, t
<1>2. CASE i \in 1..k
  <2>1. PICK j \in 1..(i - 1) : e[j].kind = "request" /\ e[j].request = e[i].response.request
    BY <1>1, <1>2 DEF EveryAnswerWasAsked
  <2> QED
    BY <1>1, <1>2, <2>1
<1>3. CASE i = k + 1
  <2>1. PICK j \in DOMAIN e : e[j].kind = "request" /\ e[j].request = m.response.request
    BY <1>1, <1>3 DEF Asked
  <2> QED
    BY <1>1, <1>3, <2>1
<1> QED
  BY <1>1, <1>2, <1>3

\* What an entry does to a journal that replays: a request that verifies leaves
\* what was told, an answer adds its decision and, counter-signed, its place.
LEMMA EntryTold ==
  ASSUME NEW S, NEW e \in Seq(S), NEW m \in S, IsMessage(m), Faithful(e), Told(Append(e, m)).ok
  PROVE  /\ Told(e).ok
         /\ Told(Append(e, m)) = [ok |-> TRUE, decisions |-> Told(Append(e, m)).decisions,
                                  last |-> Told(Append(e, m)).last]
         /\ m.kind = "request" => Told(Append(e, m)) = Told(e)
         /\ m.kind # "request" =>
              /\ m.response.request \in Asked(e)
              /\ Told(Append(e, m)).decisions = Append(Told(e).decisions, DecisionOf(m.response))
         /\ m.kind = "response" => Told(Append(e, m)).last = Told(e).last
         /\ m.kind = "countersigned" =>
              /\ m.sequence = Told(e).last[PlaceOf(m.response)] + 1
              /\ Told(Append(e, m)).last
                   = [Told(e).last EXCEPT ![PlaceOf(m.response)] = m.sequence]
<1> DEFINE before == Told(e)
           after == Told(Append(e, m))
<1>1. after = ReplayEntry(Keys, before, Asked(e), m)
  BY ReplayAppend DEF Told
<1>2. ~Failed.ok
  BY DEF Failed
<1>3. after # Failed
  BY <1>2
<1> HIDE DEF before, after
<1>4. /\ before.ok
      /\ m.kind = "request" => after = before
      /\ m.kind # "request" => m.response.request \in Asked(e)
      /\ m.kind = "response" =>
           after = [before EXCEPT !.decisions = Append(@, DecisionOf(m.response))]
      /\ m.kind \notin {"request", "response"} =>
           /\ CountersignedVerifies(Keys, m, before.last[PlaceOf(m.response)] + 1)
           /\ after = [before EXCEPT !.decisions = Append(@, DecisionOf(m.response)),
                                     !.last[PlaceOf(m.response)] = m.sequence]
  BY <1>1, <1>3 DEF ReplayEntry
<1>5. before = [ok |-> TRUE, decisions |-> before.decisions, last |-> before.last]
  BY <1>4 DEF Faithful, before
<1>6. m.kind \in {"request", "response", "countersigned"}
  BY DEF IsMessage
<1>7. /\ after = [ok |-> TRUE, decisions |-> after.decisions, last |-> after.last]
      /\ m.kind # "request" => after.decisions = Append(before.decisions, DecisionOf(m.response))
      /\ m.kind = "response" => after.last = before.last
      /\ m.kind = "countersigned" =>
           after.last = [before.last EXCEPT ![PlaceOf(m.response)] = m.sequence]
  <2>1. CASE m.kind = "request"
    BY <1>4, <1>5, <2>1
  <2>2. CASE m.kind = "response"
    BY <1>4, <1>5, <2>2
  <2>3. CASE m.kind = "countersigned"
    BY <1>4, <1>5, <2>3
  <2> QED
    BY <1>6, <2>1, <2>2, <2>3
<1>8. m.kind = "countersigned" => m.sequence = before.last[PlaceOf(m.response)] + 1
  BY <1>4 DEF CountersignedVerifies
<1> QED
  BY <1>4, <1>7, <1>8 DEF before, after

LEMMA FaithfulAppend ==
  ASSUME ContentAssumption, PartyAssumption,
         NEW S, NEW e \in Seq(S), NEW m \in S, IsMessage(m), Faithful(e)
  PROVE  Faithful(Append(e, m))
<1> DEFINE t == Append(e, m)
           k == Len(e)
           Decision == {DecisionOf(r) : r \in Response}
<1> SUFFICES ASSUME Told(t).ok
             PROVE  /\ Told(t) = [ok |-> TRUE, decisions |-> Told(t).decisions,
                                  last |-> Told(t).last]
                    /\ Told(t).decisions \in Seq(Decision)
                    /\ Len(Told(t).decisions) = Cardinality(Answers(t))
                    /\ EveryAnswerWasAsked(t)
                    /\ Told(t).last \in [Subject \X NodeId -> Nat]
                    /\ \A s \in Subject :
                         /\ Told(t).last[<<s, Custodian>>] = Rank(t, s, Len(t))
                         /\ \A i \in DOMAIN t : CounterSigned(t[i], s) =>
                              t[i].sequence = Rank(t, s, i)
  BY DEF Faithful
<1>1. /\ Told(e).ok
      /\ Told(t) = [ok |-> TRUE, decisions |-> Told(t).decisions, last |-> Told(t).last]
      /\ m.kind = "request" => Told(t) = Told(e)
      /\ m.kind # "request" =>
           /\ m.response.request \in Asked(e)
           /\ Told(t).decisions = Append(Told(e).decisions, DecisionOf(m.response))
      /\ m.kind = "response" => Told(t).last = Told(e).last
      /\ m.kind = "countersigned" =>
           /\ m.sequence = Told(e).last[PlaceOf(m.response)] + 1
           /\ Told(t).last = [Told(e).last EXCEPT ![PlaceOf(m.response)] = m.sequence]
  BY EntryTold
<1>2. /\ Told(e).decisions \in Seq(Decision)
      /\ Len(Told(e).decisions) = Cardinality(Answers(e))
      /\ EveryAnswerWasAsked(e)
      /\ Told(e).last \in [Subject \X NodeId -> Nat]
      /\ \A s \in Subject :
           /\ Told(e).last[<<s, Custodian>>] = Rank(e, s, k)
           /\ \A i \in DOMAIN e : CounterSigned(e[i], s) => e[i].sequence = Rank(e, s, i)
  BY <1>1 DEF Faithful
<1>3. /\ m.kind \in {"request", "response", "countersigned"}
      /\ m.kind # "request" => m.response \in Response /\ m.response.custodian = Custodian
      /\ m.kind = "countersigned" => m.sequence \in Nat
  BY DEF IsMessage
<1>4. /\ k \in Nat /\ DOMAIN e = 1..k /\ DOMAIN t = 1..(k + 1) /\ Len(t) = k + 1
      /\ \A i \in 1..k : t[i] = e[i]
      /\ t[k + 1] = m
  BY AppendedIs
<1>5. /\ Cardinality(Answers(t)) = Cardinality(Answers(e)) + (IF m.kind # "request" THEN 1 ELSE 0)
      /\ Cardinality(Answers(e)) \in Nat
  BY AnswersAppend
<1>6. EveryAnswerWasAsked(t)
  BY <1>1, <1>2, AskedAppend
<1> HIDE DEF t, k, Decision
<1>7. Told(t).decisions \in Seq(Decision) /\ Len(Told(t).decisions) = Cardinality(Answers(t))
  <2>1. CASE m.kind = "request"
    BY <1>1, <1>2, <1>5, <2>1
  <2>2. CASE m.kind # "request"
    <3>1. DecisionOf(m.response) \in Decision
      BY <1>3, <2>2 DEF Decision
    <3>2. Told(t).decisions \in Seq(Decision)
          /\ Len(Told(t).decisions) = Len(Told(e).decisions) + 1
      <4> DEFINE d == Told(e).decisions
                 x == DecisionOf(m.response)
      <4>1. d \in Seq(Decision) /\ x \in Decision
        BY <1>2, <3>1
      <4>2. Told(t).decisions = Append(d, x)
        BY <1>1, <2>2
      <4> HIDE DEF d, x
      <4>3. Append(d, x) \in Seq(Decision) /\ Len(Append(d, x)) = Len(d) + 1
        BY <4>1, AppendProperties
      <4> QED
        BY <4>2, <4>3 DEF d
    <3> QED
      BY <1>2, <1>5, <2>2, <3>2
  <2> QED
    BY <2>1, <2>2
<1>8. m.kind = "countersigned" => PlaceOf(m.response) = <<m.response.request.subject, Custodian>>
                                  /\ m.response.request.subject \in Subject
                                  /\ PlaceOf(m.response) \in Subject \X NodeId
  BY <1>3, ContentAssumption, PartyAssumption DEF PlaceOf, Response
<1>9. Told(t).last \in [Subject \X NodeId -> Nat]
  <2>1. CASE m.kind = "countersigned"
    BY <1>1, <1>2, <1>3, <1>8, <2>1
  <2> QED
    BY <1>1, <1>2, <1>3, <2>1
<1>10. ASSUME NEW s \in Subject
       PROVE  /\ Told(t).last[<<s, Custodian>>] = Rank(t, s, Len(t))
              /\ \A i \in DOMAIN t : CounterSigned(t[i], s) => t[i].sequence = Rank(t, s, i)
  <2>1. /\ \A n \in 0..k : Rank(t, s, n) = Rank(e, s, n)
        /\ Rank(t, s, k + 1) = Rank(e, s, k) + (IF CounterSigned(m, s) THEN 1 ELSE 0)
        /\ Rank(e, s, k) \in Nat
    BY RankAppend DEF t, k
  <2>2. <<s, Custodian>> \in Subject \X NodeId
    BY PartyAssumption
  <2>3. /\ Told(t).last[<<s, Custodian>>] = Rank(t, s, k + 1)
        /\ CounterSigned(m, s) => m.sequence = Rank(t, s, k + 1)
    <3>1. CASE CounterSigned(m, s)
      <4>1. m.kind = "countersigned" /\ PlaceOf(m.response) = <<s, Custodian>>
        BY <1>8, <3>1 DEF CounterSigned
      <4>2. Told(t).last[<<s, Custodian>>] = m.sequence
        BY <1>1, <1>2, <2>2, <4>1
      <4>3. m.sequence = Rank(e, s, k) + 1
        BY <1>1, <1>2, <4>1
      <4>4. Rank(t, s, k + 1) = Rank(e, s, k) + 1
        BY <2>1, <3>1
      <4> QED
        BY <4>2, <4>3, <4>4
    <3>2. CASE ~CounterSigned(m, s)
      <4>1. Rank(t, s, k + 1) = Rank(e, s, k)
        BY <2>1, <3>2
      <4>2. Told(t).last[<<s, Custodian>>] = Told(e).last[<<s, Custodian>>]
        <5>1. CASE m.kind = "countersigned"
          <6>1. PlaceOf(m.response) # <<s, Custodian>>
            BY <1>8, <3>2, <5>1 DEF CounterSigned
          <6> QED
            BY <1>1, <1>2, <2>2, <5>1, <6>1
        <5> QED
          BY <1>1, <1>3, <5>1
      <4> QED
        BY <1>2, <3>2, <4>1, <4>2
    <3> QED
      BY <3>1, <3>2
  <2>4. ASSUME NEW i \in DOMAIN t, CounterSigned(t[i], s) PROVE t[i].sequence = Rank(t, s, i)
    <3>1. CASE i \in 1..k
      <4>1. i \in 0..k /\ i \in DOMAIN e /\ t[i] = e[i]
        BY <1>4, <3>1
      <4> QED
        BY <1>2, <2>1, <2>4, <4>1
    <3>2. CASE i = k + 1
      BY <1>4, <2>3, <2>4, <3>2
    <3> QED
      BY <1>4, <3>1, <3>2
  <2> QED
    BY <1>4, <2>3, <2>4
<1> QED
  BY <1>1, <1>6, <1>7, <1>9, <1>10

LEMMA FaithfulEmpty == Faithful(<<>>) /\ Told(<<>>).ok
<1>1. Told(<<>>) = Start
  BY ReplayEmpty DEF Told
<1>2. Answers(<<>>) = {} /\ DOMAIN <<>> = {} /\ Len(<<>>) = 0
  BY DEF Answers
<1>3. Cardinality(Answers(<<>>)) = 0
  BY <1>2, FS_EmptySet
<1>4. \A s : Rank(<<>>, s, 0) = 0
  <2> TAKE s
  <2>1. {i \in 1..0 : CounterSigned(<<>>[i], s)} = {}
    OBVIOUS
  <2> QED
    BY <2>1, FS_EmptySet DEF Rank
<1>5. /\ Start.ok /\ Start = [ok |-> TRUE, decisions |-> Start.decisions, last |-> Start.last]
      /\ Start.decisions = <<>>
      /\ Start.last \in [Subject \X NodeId -> Nat]
      /\ \A s \in Subject : Start.last[<<s, Custodian>>] = 0
  BY PartyAssumption DEF Start
<1>6. EveryAnswerWasAsked(<<>>)
  BY <1>2 DEF EveryAnswerWasAsked
<1> HIDE DEF Start
<1>7. Faithful(Start.decisions)
  <2>1. Start.decisions \in Seq({DecisionOf(r) : r \in Response})
    BY <1>5
  <2> QED
    BY <1>1, <1>2, <1>3, <1>4, <1>5, <1>6, <2>1 DEF Faithful
<1> QED
  BY <1>1, <1>5, <1>7

-----------------------------------------------------------------------------
(* What the custodian answered, and what the verifier is told *)

\* A party's own signature verifies under the key it holds.
LEMMA OwnSlotVerifies ==
  ASSUME NEW n \in NodeId, NEW payload, Signature(KeyOf[n], "s13-message", payload) # None
  PROVE  SignedBy(Keys, n, Slot(KeyOf[n], "s13-message", payload), "s13-message", payload)
<1>1. KeyOf[n] \in Key /\ IsComputed(SuiteOf[KeyOf[n]])
  BY PartyAssumption DEF CanSign
<1>2. SuiteOf[KeyOf[n]] \in Suite
  BY <1>1, KeyAssumption
<1>3. ~Deferred(SuiteOf[KeyOf[n]]) /\ ~Unsupported(SuiteOf[KeyOf[n]])
  BY <1>1, <1>2, SuiteTables
<1>4. KeyOf[n] \in Keys[n]
  BY DEF Keys
<1> QED
  BY <1>3, <1>4 DEF SignedBy, SlotVerifies, Slot

\* What the custodian signs verifies, and so does its counter-signature at its place.
LEMMA AnswerVerifies ==
  ASSUME NEW response \in Response, response.custodian = Custodian, NEW place \in Nat,
         response.policy \in Nat, response.request \in Request
  PROVE  LET signed == SignResponse(response, KeyOf[Custodian])
             sent == Countersign(signed, Authority, KeyOf[Authority], place)
         IN  ResponseVerifies(Keys, signed) /\ CountersignedVerifies(Keys, sent, place)
<1> DEFINE signed == SignResponse(response, KeyOf[Custodian])
           sent == Countersign(signed, Authority, KeyOf[Authority], place)
<1>1. /\ Custodian \in NodeId /\ Authority \in NodeId
      /\ KeyOf[Custodian] \in Key /\ KeyOf[Authority] \in Key
      /\ "s13-message" \in SigningDomain
  BY PartyAssumption DEF SigningDomain
<1>2. Signature(KeyOf[Custodian], "s13-message", <<"response", response>>) # None
  BY <1>1, NoneAssumption DEF Signature
<1>3. Signature(KeyOf[Authority], "s13-message", AuthorityPayload(response, place)) # None
  BY <1>1, NoneAssumption DEF Signature, AuthorityPayload
<1>4. SignedBy(Keys, Custodian, Slot(KeyOf[Custodian], "s13-message", <<"response", response>>),
               "s13-message", <<"response", response>>)
  BY <1>1, <1>2, OwnSlotVerifies
<1>5. SignedBy(Keys, Authority,
               Slot(KeyOf[Authority], "s13-message", AuthorityPayload(response, place)),
               "s13-message", AuthorityPayload(response, place))
  BY <1>1, <1>3, OwnSlotVerifies
<1>6. /\ signed.response = response
      /\ signed.signature = Slot(KeyOf[Custodian], "s13-message", <<"response", response>>)
      /\ sent.response = response /\ sent.signature = signed.signature
      /\ sent.authority = Authority /\ sent.sequence = place
      /\ sent.authority_signature
           = Slot(KeyOf[Authority], "s13-message", AuthorityPayload(response, place))
  BY DEF SignResponse, Countersign
<1> HIDE DEF signed, sent
<1>7. ResponseVerifies(Keys, signed) /\ ResponseVerifies(Keys, sent)
  BY <1>4, <1>6 DEF ResponseVerifies
<1>8. CountersignedVerifies(Keys, sent, place)
  BY <1>5, <1>6, <1>7 DEF CountersignedVerifies
<1> QED
  BY <1>7, <1>8 DEF signed, sent

\* The invariant: the custodian's journal replays and holds every answer that was
\* sent, with the rank of the last of a subject the counter; both journals are
\* faithful to what they hold.
JInv ==
  /\ \A m \in requests \cup answers : IsMessage(m)
  /\ Told(custodian).ok
  /\ Faithful(custodian)
  /\ Faithful(verifier)
  /\ \A s \in Subject : Rank(custodian, s, Len(custodian)) = places[s]
  /\ \A m \in answers : \E j \in DOMAIN custodian : custodian[j] = m

LEMMA InitJournals == Init => JInv
<1> SUFFICES ASSUME Init PROVE JInv
  OBVIOUS
<1>1. /\ verifier = <<>> /\ custodian = <<>> /\ requests = {} /\ answers = {}
      /\ places = [s \in Subject |-> 0]
  BY DEF Init
<1>2. \A s : Rank(<<>>, s, 0) = 0
  <2> TAKE s
  <2>1. {i \in 1..0 : CounterSigned(<<>>[i], s)} = {}
    OBVIOUS
  <2> QED
    BY <2>1, FS_EmptySet DEF Rank
<1>3. /\ Told(custodian).ok /\ Faithful(custodian) /\ Faithful(verifier)
  BY <1>1, FaithfulEmpty
<1>4. Len(custodian) = 0
  BY <1>1
<1> QED
  BY <1>1, <1>2, <1>3, <1>4 DEF JInv

\* The verifier journals a message.
LEMMA VerifierJournals ==
  ASSUME IInv, JInv, NEW m \in requests' \cup answers, IsMessage(m),
         requests \subseteq requests', \A x \in requests' : IsMessage(x),
         verifier' = Append(verifier, m),
         UNCHANGED <<answers, custodian, places>>
  PROVE  JInv'
<1> DEFINE S == requests' \cup answers
<1>1. verifier \in Seq(S) /\ m \in S
  BY SeqWidens DEF IInv
<1> HIDE DEF S
<1>2. Faithful(verifier)
  BY DEF JInv
<1>3. Faithful(Append(verifier, m))
  BY <1>1, <1>2, FaithfulAppend, ContentAssumption, PartyAssumption
<1>4. Faithful(verifier')
  BY <1>3
<1> QED
  BY <1>4 DEF JInv

\* The custodian journals a message that verifies after what it journaled.
LEMMA CustodianJournals ==
  ASSUME IInv, JInv, NEW m \in requests \cup answers', IsMessage(m),
         answers' \in {answers, answers \cup {m}}, custodian' = Append(custodian, m),
         Told(custodian').ok,
         \A s \in Subject :
           places'[s] = places[s] + (IF CounterSigned(m, s) THEN 1 ELSE 0),
         UNCHANGED <<requests, verifier>>
  PROVE  JInv'
<1> DEFINE S == requests \cup answers'
<1>1. custodian \in Seq(S) /\ m \in S
  BY SeqWidens DEF IInv
<1> HIDE DEF S
<1>2. Faithful(custodian')
  BY <1>1, FaithfulAppend, ContentAssumption, PartyAssumption DEF JInv
<1>3. \A s \in Subject : Rank(custodian', s, Len(custodian')) = places'[s]
  <2> TAKE s \in Subject
  <2>1. Rank(custodian', s, Len(custodian) + 1)
          = Rank(custodian, s, Len(custodian)) + (IF CounterSigned(m, s) THEN 1 ELSE 0)
    BY <1>1, RankAppend
  <2>2. Len(custodian') = Len(custodian) + 1
    BY <1>1, AppendedIs
  <2> QED
    BY <2>1, <2>2 DEF JInv
<1>4. \A x \in answers' : \E j \in DOMAIN custodian' : custodian'[j] = x
  <2>1. /\ Len(custodian) \in Nat /\ DOMAIN custodian = 1..Len(custodian)
        /\ DOMAIN custodian' = 1..(Len(custodian) + 1)
        /\ \A i \in 1..Len(custodian) : custodian'[i] = custodian[i]
        /\ custodian'[Len(custodian) + 1] = m
    BY <1>1, AppendedIs
  <2>2. \E j \in DOMAIN custodian' : custodian'[j] = m
    BY <2>1
  <2>3. ASSUME NEW x \in answers PROVE \E j \in DOMAIN custodian' : custodian'[j] = x
    <3>1. PICK j \in DOMAIN custodian : custodian[j] = x
      BY DEF JInv
    <3> QED
      BY <2>1, <3>1
  <2> QED
    BY <2>2, <2>3
<1>5. \A x \in requests' \cup answers' : IsMessage(x)
  BY DEF JInv
<1> QED
  BY <1>2, <1>3, <1>4, <1>5 DEF JInv

LEMMA AskJournals == ASSUME IInv, JInv, NEW request \in Request, Ask(request) PROVE JInv'
<1>1. PICK m \in {SignRequest(request, Verifier, KeyOf[Verifier])} :
        /\ requests' = requests \cup {m}
        /\ verifier' = Append(verifier, m)
        /\ UNCHANGED <<answers, custodian, places>>
  BY DEF Ask
<1>2. IsMessage(m)
  <2>1. m.kind = "request"
    BY <1>1 DEF SignRequest
  <2> QED
    BY <2>1 DEF IsMessage
<1>3. \A x \in requests' : IsMessage(x)
  BY <1>1, <1>2 DEF JInv
<1> QED
  BY <1>1, <1>2, <1>3, VerifierJournals

LEMMA ReceiveJournals == ASSUME IInv, JInv, NEW m \in requests, Receive(m) PROVE JInv'
<1>1. /\ RequestVerifies(Keys, m) /\ custodian' = Append(custodian, m)
      /\ UNCHANGED <<requests, answers, verifier, places>>
  BY DEF Receive
<1>2. IsMessage(m) /\ m.kind = "request"
  BY DEF JInv, IInv, Sent
<1>3. Told(custodian').ok
  <2>1. custodian \in Seq(requests \cup answers)
    BY DEF IInv
  <2>2. Told(custodian') = ReplayEntry(Keys, Told(custodian), Asked(custodian), m)
    BY <1>1, <2>1, ReplayAppend DEF Told
  <2>3. Told(custodian') = Told(custodian)
    BY <1>1, <1>2, <2>2 DEF ReplayEntry, JInv
  <2> QED
    BY <2>3 DEF JInv
<1>4. \A s \in Subject :
        places'[s] = places[s] + (IF CounterSigned(m, s) THEN 1 ELSE 0)
  <2> TAKE s \in Subject
  <2>1. ~CounterSigned(m, s)
    BY <1>2 DEF CounterSigned
  <2> QED
    BY <1>1, <2>1 DEF IInv
<1> QED
  BY <1>1, <1>2, <1>3, <1>4, CustodianJournals

LEMMA AnswerJournals ==
  ASSUME IInv, JInv, NEW request \in Request, NEW outcome \in Outcome,
         Answer(request, outcome, 1)
  PROVE  JInv'
<1> DEFINE response == [request |-> request, custodian |-> Custodian, outcome |-> outcome,
                        policy |-> 1]
           signed == SignResponse(response, KeyOf[Custodian])
           place == places[request.subject] + 1
           counter == Countersign(signed, Authority, KeyOf[Authority], place)
           sent == IF outcome = "permit" THEN signed ELSE counter
<1>1. /\ request \in Asked(custodian)
      /\ answers' = answers \cup {sent}
      /\ custodian' = Append(custodian, sent)
      /\ places' = PlacesAfter(request.subject, outcome)
      /\ UNCHANGED <<requests, verifier>>
  BY DEF Answer
<1>2. /\ response \in Response /\ response.custodian = Custodian /\ response.policy \in Nat
      /\ response.request = request
  BY PartyAssumption DEF Response
<1>3. /\ request.subject \in Subject /\ places \in [Subject -> Nat] /\ place \in Nat
      /\ places[request.subject] \in Nat
  BY ContentAssumption DEF IInv
<1>4. /\ sent.response = response
      /\ sent.kind = IF outcome = "permit" THEN "response" ELSE "countersigned"
      /\ outcome # "permit" => sent.sequence = place
  BY DEF SignResponse, Countersign
<1>5. IsMessage(sent)
  BY <1>2, <1>3, <1>4 DEF IsMessage
<1>6. IF outcome = "permit" THEN ResponseVerifies(Keys, sent)
      ELSE CountersignedVerifies(Keys, sent, place)
  <2>1. ResponseVerifies(Keys, signed) /\ CountersignedVerifies(Keys, counter, place)
    BY <1>2, <1>3, AnswerVerifies
  <2> QED
    BY <2>1
<1> HIDE DEF sent
<1>7. Told(custodian').ok
  <2> DEFINE before == Told(custodian)
  <2>1. custodian \in Seq(requests \cup answers')
    BY <1>1, SeqWidens DEF IInv
  <2>2. Told(custodian') = ReplayEntry(Keys, before, Asked(custodian), sent)
    BY <1>1, <2>1, ReplayAppend DEF Told
  <2>3. /\ before = [ok |-> TRUE, decisions |-> before.decisions, last |-> before.last]
        /\ before.last[<<request.subject, Custodian>>] = Rank(custodian, request.subject, Len(custodian))
    BY <1>3 DEF JInv, Faithful
  <2>4. before.last[PlaceOf(sent.response)] + 1 = place
    BY <1>2, <1>3, <1>4, <2>3 DEF PlaceOf, JInv
  <2> HIDE DEF before, place
  <2>5. before.ok
    BY <2>3
  <2>6. sent.kind # "request" /\ sent.response.request \in Asked(custodian)
    BY <1>1, <1>2, <1>4
  <2>7. CASE outcome = "permit"
    <3>1. Told(custodian') = [before EXCEPT !.decisions = Append(@, DecisionOf(sent.response))]
      BY <1>4, <1>6, <2>2, <2>5, <2>6, <2>7 DEF ReplayEntry
    <3> QED
      BY <2>3, <3>1
  <2>8. CASE outcome # "permit"
    <3>1. Told(custodian')
            = [before EXCEPT !.decisions = Append(@, DecisionOf(sent.response)),
                             !.last[PlaceOf(sent.response)] = sent.sequence]
      BY <1>4, <1>6, <2>2, <2>4, <2>5, <2>6, <2>8 DEF ReplayEntry
    <3> QED
      BY <2>3, <3>1
  <2> QED
    BY <2>7, <2>8
<1>8. \A s \in Subject :
        places'[s] = places[s] + (IF CounterSigned(sent, s) THEN 1 ELSE 0)
  <2> TAKE s \in Subject
  <2>1. CounterSigned(sent, s) <=> outcome # "permit" /\ s = request.subject
    BY <1>2, <1>4 DEF CounterSigned
  <2>2. CASE CounterSigned(sent, s)
    BY <1>1, <1>3, <2>1, <2>2 DEF PlacesAfter
  <2>3. CASE ~CounterSigned(sent, s)
    BY <1>1, <1>3, <2>1, <2>3 DEF PlacesAfter
  <2> QED
    BY <2>2, <2>3
<1> QED
  BY <1>1, <1>5, <1>7, <1>8, CustodianJournals

LEMMA StepJournals == ASSUME IInv, JInv, [Next]_vars PROVE JInv'
<1>1. ASSUME NEW d \in Offered, Register(d) PROVE JInv'
  BY <1>1 DEF Register, JInv
<1>2. ASSUME NEW r \in Request, Ask(r) PROVE JInv'
  BY <1>2, AskJournals
<1>3. ASSUME NEW m \in requests, Receive(m) PROVE JInv'
  BY <1>3, ReceiveJournals
<1>4. ASSUME NEW r \in Request, NEW o \in Outcome, Answer(r, o, 1) PROVE JInv'
  BY <1>4, AnswerJournals
<1>5. ASSUME NEW m \in answers, verifier' = Append(verifier, m),
             UNCHANGED <<requests, answers, custodian, places>>
      PROVE  JInv'
  <2>1. IsMessage(m) /\ \A x \in requests' : IsMessage(x)
    BY <1>5 DEF JInv
  <2> QED
    BY <1>5, <2>1, VerifierJournals
<1>6. ASSUME NEW m \in answers, NEW mode, DeliverAnswer(m, mode) PROVE JInv'
  BY <1>5, <1>6 DEF DeliverAnswer
<1>7. ASSUME NEW m \in answers, NEW arrived \in answers, RelayAnswer(m, arrived) PROVE JInv'
  BY <1>5, <1>7 DEF RelayAnswer
<1>8. CASE UNCHANGED vars
  BY <1>8 DEF vars, JInv
<1> QED
  BY <1>1, <1>2, <1>3, <1>4, <1>6, <1>7, <1>8 DEF Next

LEMMA JournalsTell == IInv /\ JInv => ReplayTellsTheExchange
<1> SUFFICES ASSUME IInv, JInv PROVE ReplayTellsTheExchange
  OBVIOUS
<1>1. CustodianReplays
  BY DEF JInv, Faithful, Told, Answers, CustodianReplays
<1>2. ASSUME Told(verifier).ok PROVE EveryAnswerWasAsked(verifier)
  BY <1>2 DEF JInv, Faithful
<1>3. ASSUME Told(verifier).ok PROVE CounterAgrees
  <2> SUFFICES ASSUME NEW s \in Subject, NEW i \in DOMAIN verifier,
                      CounterSigned(verifier[i], s)
               PROVE  \E j \in DOMAIN custodian :
                        /\ custodian[j] = verifier[i]
                        /\ Rank(custodian, s, j) = Rank(verifier, s, i)
    BY DEF CounterAgrees
  <2>1. verifier[i] \in answers
    BY DEF IInv, Sent, CounterSigned
  <2>2. PICK j \in DOMAIN custodian : custodian[j] = verifier[i]
    BY <2>1 DEF JInv
  <2>3. verifier[i].sequence = Rank(verifier, s, i)
    BY <1>3 DEF JInv, Faithful
  <2>4. custodian[j].sequence = Rank(custodian, s, j)
    BY <2>2 DEF JInv, Faithful
  <2> QED
    BY <2>2, <2>3, <2>4
<1> QED
  BY <1>1, <1>2, <1>3 DEF ReplayTellsTheExchange, Told

\* The custodian's journal always replays.  When the verifier's does, what it
\* shows was asked for, and its counter-signed answers about each subject are the
\* first of the custodian's in its order, for any number of requests, answers and
\* subjects and whatever was lost, repeated or reordered.
THEOREM ReplayIsTheExchange == Spec => []ReplayTellsTheExchange
<1>1. Init => IInv /\ JInv
  BY InitInv, InitJournals
<1>2. IInv /\ JInv /\ [Next]_vars => (IInv /\ JInv)'
  BY StepInv, StepJournals
<1> QED
  BY <1>1, <1>2, JournalsTell, PTL DEF Spec

=============================================================================
