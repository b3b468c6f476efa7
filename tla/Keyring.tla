------------------------------- MODULE Keyring -------------------------------
(***************************************************************************)
(* Public keys and the forms they travel in (keyring.rs): the raw encoding *)
(* that gives away its suite or does not, the serialized form, the         *)
(* fingerprint that is displayed, and which keys this build computes with. *)
(*                                                                         *)
(* An encoding is its length, whether it is an uncompressed point (it      *)
(* begins with 0x04), and the material it holds.  The digest of an         *)
(* encoding is 32 bytes.                                                   *)
(***************************************************************************)
EXTENDS Signing

CONSTANT Material   \* what tells two keys of a suite apart

Encoding == [len : {32, 65, 1952}, point : BOOLEAN, body : Material]

\* The lengths of the suites that have an encoding.
KeyLength ==
  [suite \in {"ed25519", "ecdsa-p256", "sm2", "ml-dsa-65"} |->
    CASE suite = "ed25519" -> 32
      [] suite \in {"ecdsa-p256", "sm2"} -> 65
      [] suite = "ml-dsa-65" -> 1952]

Encodes(suite, bytes) ==
  /\ suite \in DOMAIN KeyLength
  /\ bytes.len = KeyLength[suite]
  /\ suite \in {"ecdsa-p256", "sm2"} => bytes.point

Public(suite, bytes) == [suite |-> suite, bytes |-> bytes]

PublicKey == {p \in [suite : Suite, bytes : Encoding] : Encodes(p.suite, p.bytes)}

\* from_bytes_in: the key that is read, if any.
FromBytesIn(suite, bytes) == {Public(s, bytes) : s \in {s \in {suite} : Encodes(s, bytes)}}

\* from_bytes: a point is taken to be of P-256.
FromBytes(bytes) == UNION {FromBytesIn(s, bytes) : s \in {"ed25519", "ecdsa-p256", "ml-dsa-65"}}

\* KeyId::of.
KeyIdOf(public) == <<Code(public.suite), public.bytes>>

Digest(bytes) == [len |-> 32, point |-> FALSE, body |-> <<"digest", bytes>>]

\* to_serialized, and Display, which is also what Serialize writes.
ToSerialized(public) == [suite |-> public.suite, hex |-> public.bytes]
Display(public) == [suite |-> public.suite, hex |-> Digest(public.bytes)]

\* Deserialize: the key whose raw encoding the text is.
Deserialized(text) == FromBytesIn(text.suite, text.hex)

\* KeyPair::seeded: the key, or why there is none.
Seeded(suite, seed) ==
  IF IsComputed(suite)
  THEN <<"key", Public(suite, [len |-> KeyLength[suite],
                               point |-> suite \in {"ecdsa-p256", "sm2"}, body |-> seed])>>
  ELSE <<IF Unsupported(suite) THEN "unsupported" ELSE "deferred">>

\* sign_raw and verify_raw.
SignRaw(public, framed) == <<public, framed>>
VerifyRaw(public, framed, signature) ==
  IsComputed(public.suite) /\ signature = SignRaw(public, framed)

-----------------------------------------------------------------------------
(* What holds of these forms *)

\* A key comes back from its encoding in its suite and from its serialized form;
\* only an SM2 key is read as another key when its suite is inferred; an id is of
\* one key.  What Serialize writes never reads back as the key: it is refused,
\* but of Ed25519 the digest passes for another key.
ASSUME KeysComeBack ==
  \A p \in PublicKey :
    /\ FromBytesIn(p.suite, p.bytes) = {p}
    /\ Deserialized(ToSerialized(p)) = {p}
    /\ FromBytes(p.bytes) = {p} <=> p.suite # "sm2"
    /\ \A q \in PublicKey : KeyIdOf(p) = KeyIdOf(q) => p = q
    /\ p \notin Deserialized(Display(p))
    /\ Deserialized(Display(p)) = {} <=> p.suite # "ed25519"

\* Keys are made of the suites that compute here and of no other, and verify what
\* they signed; seeds of two suites or two seeds never make the same key.
ASSUME SeedsMakeKeys ==
  \A s, t \in Suite, a, b \in Material :
    LET made == Seeded(s, a) IN
    /\ made[1] = "key" <=> IsComputed(s)
    /\ made[1] = "key" =>
         /\ made[2] \in PublicKey
         /\ VerifyRaw(made[2], "framed", SignRaw(made[2], "framed"))
         /\ made = Seeded(t, b) => s = t /\ a = b

=============================================================================
