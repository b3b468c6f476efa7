----------------------------- MODULE Witnessing -----------------------------
(***************************************************************************)
(* The signed forms of what the trust graph and the ledger take as facts:  *)
(* credentials and their signatures, the attestations of the witnesses of  *)
(* the master list (graph.rs) and the notary's stamp (verify.rs).          *)
(***************************************************************************)
EXTENDS Signing, Sequences, FiniteSets

CredentialBytes(c) == <<"credential", c.parent, c.child, c.scope>>

\* mint_sign and co_sign_by.
CoSignBy(c, key) ==
  [c EXCEPT !.signatures = Append(@, Slot(key, "delegation", CredentialBytes(c)))]

MintCredential(parent, child, scope, key) ==
  CoSignBy([parent |-> parent, child |-> child, scope |-> scope, signatures |-> <<>>], key)

\* The registered keys of the parent that verify a slot each, as
\* verify_credential collects them.
VerifiedKeys(c, registered) ==
  {key \in registered : \E i \in DOMAIN c.signatures :
     /\ c.signatures[i].key_id = key
     /\ SlotVerifies(c.signatures[i], "delegation", CredentialBytes(c), key)}

-----------------------------------------------------------------------------

WitnessBytes(node, at) == <<"witness", node, at>>

\* WitnessAttestation::mint_sign.  The witness is not in what it signs.
Attest(witness, node, at, key) ==
  [witness |-> witness, at |-> at,
   slot |-> Slot(key, "master-list-witness", WitnessBytes(node, at))]

\* verified_witnesses, under the key that the list has of each witness.
VerifiedWitnesses(entry, witnesses) ==
  {w \in DOMAIN witnesses : \E i \in DOMAIN entry.attestations :
     LET att == entry.attestations[i] IN
     /\ att.witness = w
     /\ SlotVerifies(att.slot, "master-list-witness", WitnessBytes(entry.node, att.at),
                     witnesses[w])}

\* accepted, and accepts of the list.
EntryAccepted(entry, m, witnesses) == Cardinality(VerifiedWitnesses(entry, witnesses)) >= m

MasterAccepts(master, node) ==
  \E entry \in master.entries :
    entry.node = node /\ EntryAccepted(entry, master.m, master.witnesses)

-----------------------------------------------------------------------------

\* stamp_bytes: the verdict is not in what the notary signs.
StampBytes(stamp) == <<"stamp", stamp.subject, stamp.as_of, stamp.state_hash>>

\* The notary's slot on a stamp, and verify_notary.
Notarize(stamp, key) ==
  [stamp EXCEPT !.notary = Slot(key, "historical-stamp", StampBytes(stamp))]

NotaryVerifies(stamp, public) ==
  SlotVerifies(stamp.notary, "historical-stamp", StampBytes(stamp), public)

=============================================================================
