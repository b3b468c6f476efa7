----------------------------- MODULE MCExchange -----------------------------
(* Two requests about one subject; the custodian declares itself willing to  *)
(* anyone, then to the verifier, then withdraws, and the verifier's word     *)
(* decides the relay.  The declarations arrive in any order.                 *)
EXTENDS Exchange, Envelope

CONSTANTS q1, q2, battery, telemetry, ka, kc, kh, ku, vera, cust, hubb, auth, uni, every,
          x1, x2, hint, other, seed, fresh

OneRequest == [id |-> q1, subject |-> battery, class |-> telemetry]
Other == [id |-> q2, subject |-> battery, class |-> telemetry]

AllRequests == {OneRequest, Other}

Holder == [n \in NodeId |->
             IF n = vera THEN ka ELSE IF n = cust THEN kc ELSE IF n = hubb THEN kh ELSE ku]

Suites == [k \in Key |-> IF k = ku THEN "ecdsa-p256" ELSE "ed25519"]

At(level, modes) == [level |-> level, recognition |-> "bilateral-anchors", transports |-> modes]

Says(from, to, version, class, posture) ==
  IssueDeclaration(from, to, version, [c \in {class} |-> posture], 1, 9, Holder[from])

Declared ==
  {Says(cust, uni, 1, every, At(2, {"document"})),
   Says(cust, vera, 1, telemetry, At(4, {"hub"})),
   Says(cust, vera, 2, telemetry, At(0, {"protocol", "hub"})),
   Says(vera, cust, 1, telemetry, At(3, {"hub"})),
   Says(vera, cust, 2, telemetry, At(0, {}))}

\* Whoever signs a declaration, its verify accepts it from nobody else.
ASSUME DeclarationsVerify == \A d \in Declared : DeclarationVerifies(Keys, d)

-----------------------------------------------------------------------------
(* Envelopes for at most two of three recipients, one of them of ML-KEM.      *)

KemKey == SeededKem("x25519", x1) \cup SeededKem("x25519", x2) \cup SeededKem("ml-kem-768", x1)

WithoutMlKem == INSTANCE Envelope WITH Feature <- {}

Lists == UNION {[1..n -> KemKey] : n \in 0..2}

Sealed(recipients, payload, s) == Seal(payload, hint, recipients, s)

(* An envelope is sealed for somebody, when the suites of all compute, and    *)
(* opens to its payload for those it was sealed for and nobody else.          *)
ASSUME EnvelopesOpen ==
  \A recipients \in Lists :
    /\ Seals(recipients) <=> recipients # <<>>
    /\ WithoutMlKem!Seals(recipients) <=> Seals(recipients) /\ \A i \in DOMAIN recipients : recipients[i].suite = "x25519"
    /\ WithoutMlKem!SeededKem("ml-kem-768", seed) = {}
    /\ \A k \in KemKey :
         Open(Sealed(recipients, battery, seed), k)
           = {battery : i \in {i \in DOMAIN recipients : recipients[i] = k}}

(* Of two envelopes from two seeds no mixture of the parts opens, unless all  *)
(* that is read of it is of one of them.                                      *)
MixedBlocks(b, c) ==
  [kem : {b.kem, c.kem}, key_id : {b.key_id, c.key_id},
   encapsulated_key : {b.encapsulated_key, c.encapsulated_key},
   wrapped_key : {b.wrapped_key, c.wrapped_key}, wrap_nonce : {b.wrap_nonce, c.wrap_nonce}]

Mixed(e, f) ==
  [nonce : {e.nonce, f.nonce}, ciphertext : {e.ciphertext, f.ciphertext}, aad : {e.aad, other},
   recipients : {<<b>> : b \in MixedBlocks(e.recipients[1], f.recipients[1])}]

ASSUME MixturesStayShut ==
  \A k, l, reader \in KemKey :
    LET e == Sealed(<<k>>, battery, seed)
        f == Sealed(<<l>>, telemetry, fresh)
    IN \A m \in Mixed(e, f) : Open(m, reader) # {} => m \in {e, f}

=============================================================================
