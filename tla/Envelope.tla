------------------------------ MODULE Envelope ------------------------------
(***************************************************************************)
(* Envelopes for several recipients (envelope.rs): one content key, one    *)
(* ciphertext, and the content key wrapped once for each recipient.        *)
(*                                                                         *)
(* What is derived is the term of what it is derived from.  A ciphertext   *)
(* is the term of its key, nonce, message and authenticated context, and   *)
(* is opened by who has all of them but the message.                       *)
(***************************************************************************)
EXTENDS Signing, Sequences

KemSuite == {"x25519", "ml-kem-768"}

KemComputed(suite) == suite = "x25519" \/ (suite = "ml-kem-768" /\ "ml-kem" \in Feature)

\* Encryption, and the messages that are decrypted: one or none.
Encrypt(key, nonce, msg, aad) == [key |-> key, nonce |-> nonce, msg |-> msg, aad |-> aad]
Decrypt(key, nonce, c, aad) == {m \in {c.msg} : c = Encrypt(key, nonce, m, aad)}

\* hkdf_expand from the seed of the envelope, for a purpose.
Derive(seed, purpose) == <<seed, purpose>>

\* KemKeyPair::seeded: the recipient's key, if its suite computes here.  Its id is
\* the hash of its suite and its public bytes, and stands for both.
SeededKem(suite, seed) ==
  {[suite |-> t, public |-> Derive(seed, <<"recipient", t>>)] : t \in {t \in {suite} : KemComputed(t)}}

ContentKey(seed) == Derive(seed, <<"content-key">>)

\* What the recipient encapsulates from: an ephemeral key, which is the same for
\* every X25519 key, or the ciphertext of a message for one ML-KEM key.
Encapsulated(k, index, seed) ==
  IF k.suite = "x25519"
  THEN <<"x25519", Derive(seed, <<"ephemeral", index>>)>>
  ELSE <<"ml-kem-768", <<k, Derive(seed, <<"message", index>>)>>>>

\* The key both sides derive, the sender from its secret and the recipient from
\* its own.
Kek(k, encapsulated) == <<k.suite, k, encapsulated>>

\* wrap_for.
WrapFor(k, index, seed) ==
  LET encapsulated == Encapsulated(k, index, seed)
      nonce == Derive(seed, <<"wrap-nonce", index>>)
  IN [kem |-> k.suite, key_id |-> k, encapsulated_key |-> encapsulated,
      wrapped_key |-> Encrypt(Kek(k, encapsulated), nonce, ContentKey(seed), k),
      wrap_nonce |-> nonce]

\* envelope_encrypt: for nobody, or for a recipient whose suite does not compute
\* here, there is no envelope.
Seals(recipients) ==
  recipients # <<>> /\ \A i \in DOMAIN recipients : KemComputed(recipients[i].suite)

Seal(payload, aad, recipients, seed) ==
  LET nonce == Derive(seed, <<"content-nonce">>) IN
  [nonce |-> nonce, ciphertext |-> Encrypt(ContentKey(seed), nonce, payload, aad), aad |-> aad,
   recipients |-> [i \in DOMAIN recipients |-> WrapFor(recipients[i], i, seed)]]

\* Envelope::recipient: the first block with the id of the key.
BlockOf(envelope, k) ==
  LET blocks == envelope.recipients IN
  {blocks[i] : i \in {i \in DOMAIN blocks :
                       /\ blocks[i].key_id = k
                       /\ \A j \in 1..(i - 1) : blocks[j].key_id # k}}

\* unwrap_for: the content keys that a block gives to a key of its suite.
Unwrapped(k, block) ==
  IF block.kem = k.suite /\ block.encapsulated_key[1] = k.suite
  THEN Decrypt(Kek(k, block.encapsulated_key), block.wrap_nonce, block.wrapped_key, block.key_id)
  ELSE {}

\* envelope_open: the payloads that a key opens an envelope to.
Open(envelope, k) ==
  UNION {Decrypt(content_key, envelope.nonce, envelope.ciphertext, envelope.aad) :
           content_key \in UNION {Unwrapped(k, block) : block \in BlockOf(envelope, k)}}

=============================================================================
