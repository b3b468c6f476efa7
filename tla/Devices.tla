------------------------------ MODULE Devices ------------------------------
(***************************************************************************)
(* The device as a principal (device.rs): its certificate, the credentials *)
(* of its slot keys and their standing, and the commitments that a later   *)
(* reveal is held against.                                                 *)
(***************************************************************************)
EXTENDS Signing, Sequences

CertificateBytes(device, device_key, segment, static_commitment) ==
  <<"certificate", device, device_key, segment, static_commitment>>

\* DeviceCertificate::issue and verify.  The maker is not in what it signs.
CertifyDevice(device, device_key, segment, static_commitment, manufacturer, key) ==
  [device |-> device, device_key |-> device_key, segment |-> segment,
   static_commitment |-> static_commitment, manufacturer |-> manufacturer,
   signature |-> Slot(key, "delegation",
                      CertificateBytes(device, device_key, segment, static_commitment))]

CertificateVerifies(keys, c) ==
  SignedBy(keys, c.manufacturer, c.signature, "delegation",
           CertificateBytes(c.device, c.device_key, c.segment, c.static_commitment))

SlotBytes(device, slot_key, segment, from, to) == <<"slot", device, slot_key, segment, from, to>>

\* SlotCredential::issue and verify.  The authority is not in what it signs.
CertifySlot(device, slot_key, segment, authority, from, to, key) ==
  [device |-> device, slot_key |-> slot_key, segment |-> segment, authority |-> authority,
   valid_from |-> from, valid_to |-> to,
   signature |-> Slot(key, "delegation", SlotBytes(device, slot_key, segment, from, to))]

CredentialVerifies(keys, c) ==
  SignedBy(keys, c.authority, c.signature, "delegation",
           SlotBytes(c.device, c.slot_key, c.segment, c.valid_from, c.valid_to))

\* The held credentials of a slot key of a device, by their place.
HeldFor(credentials, device, slot_key) ==
  {i \in DOMAIN credentials :
     credentials[i].device = device /\ credentials[i].slot_key = slot_key}

\* The one that find returns: the first that is held.
FirstHeld(credentials, device, slot_key) ==
  {i \in HeldFor(credentials, device, slot_key) :
     \A j \in HeldFor(credentials, device, slot_key) : i <= j}

\* Mutant: every credential of the slot key is tried.
StandingOfAnyCredential(keys, credentials, device, slot_key, segment, revoked) ==
  LET good == {i \in HeldFor(credentials, device, slot_key) :
                 CredentialVerifies(keys, credentials[i]) /\ credentials[i].segment = segment}
  IN IF good = {} THEN "no-chain" ELSE IF slot_key \in revoked THEN "revoked" ELSE "certified"

\* slot_standing: of the first credential only, whose window is not looked at.
SlotStanding(keys, credentials, device, slot_key, segment, revoked) ==
  LET good == {i \in FirstHeld(credentials, device, slot_key) :
                 CredentialVerifies(keys, credentials[i]) /\ credentials[i].segment = segment}
  IN IF good = {} THEN "no-chain" ELSE IF slot_key \in revoked THEN "revoked" ELSE "certified"

-----------------------------------------------------------------------------
(* Commit now, reveal later *)

\* EdgeCommitment::commit: the length is hashed with the state of the prefix.
CommitEdge(device, segment, prefix_len, prefix_state) ==
  [device |-> device, segment |-> segment, prefix_len |-> prefix_len,
   prefix_commitment |-> <<prefix_len, prefix_state>>]

\* Mutant: the length is not compared.
RevealOfState(commitment, len, state) == commitment.prefix_commitment[2] = state

\* verify_reveal: the revealed prefix recomputes the commitment.
VerifyReveal(commitment, len, state) == commitment.prefix_commitment = <<len, state>>

=============================================================================
