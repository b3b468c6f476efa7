---------------------------- MODULE MCRevocation ----------------------------
(* Small instances of the revocation ledger. *)
EXTENDS Revocation, FiniteSets

CONSTANTS k1, k2, n1, p1, p2, p3

OneOwner == [k \in Key |-> n1]

BornFirst == [p \in Passport |-> 1]

OnKey == {[kind |-> "key", id |-> k1]}

OnKeyOrPassport == {[kind |-> "key", id |-> k1], [kind |-> "passport", id |-> p1]}

OnNodeOrKey == {[kind |-> "node", id |-> n1], [kind |-> "key", id |-> k1]}

\* The first instant only, and from the second on.
TwoWindows == {[from |-> 1, to |-> 1], [from |-> 2, to |-> None]}

\* One retroactive and one prospective reason.
TwoReasons == {"misissuance", "key-compromise"}

=============================================================================
