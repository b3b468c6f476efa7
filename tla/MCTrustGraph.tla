---------------------------- MODULE MCTrustGraph ----------------------------
(* A root, a two-of-two group and an intermediate, with credentials that are *)
(* and are not signed for, narrow and widen, and close cycles.               *)
EXTENDS TrustGraph

CONSTANTS group, red, green, kr, ka, kb, km, w1

Root == [id |-> 1, kind |-> "root", threshold |-> 0, keys |-> {kr}]
Board == [id |-> 2, kind |-> "group", threshold |-> 2, keys |-> {ka}]
Body == [id |-> 3, kind |-> "delegated", threshold |-> 0, keys |-> {km}]

AllNodes == {Root, Board, Body}

RedAndGreen == [layers |-> [l \in Layer |-> {red, green}], window |-> Wildcard, conditions |-> {}]
RedOnly == [RedAndGreen EXCEPT !.layers = [l \in Layer |-> {red}]]

By(k) == [key |-> k, valid |-> TRUE]
Bad(k) == [key |-> k, valid |-> FALSE]

Grant(parent, child, scope, signatures) ==
  [parent |-> parent, child |-> child, scope |-> scope, signatures |-> signatures]

Offered ==
  {Grant(1, 2, RedOnly, <<By(kr)>>),
   Grant(2, 3, RedOnly, <<By(ka), By(ka)>>),
   Grant(2, 3, RedAndGreen, <<By(ka), By(kb)>>),
   Grant(2, 3, RedOnly, <<By(ka), By(kb)>>),
   Grant(1, 3, RedAndGreen, <<By(kr)>>),
   Grant(3, 1, RedOnly, <<By(km)>>),
   Grant(1, 3, RedOnly, <<Bad(kr)>>)}

MergedLater == {<<2, kb>>, <<1, km>>}

ActsAskedFor ==
  {[layers |-> [l \in Layer |-> v], at |-> 1, predicates |-> {}, attributes |-> [l \in Layer |-> None]] :
     v \in {red, green}}

-----------------------------------------------------------------------------
(* What TrustGraph takes as facts, from the signatures themselves.            *)
W == INSTANCE Witnessing WITH SuiteOf <- [k \in Key |-> "ed25519"], Feature <- {}

\* A credential that any two keys signed, whose scope was then changed or not: the
\* distinct keys of the parent count, over what it says now.
ASSUME SlotsAreOfTheCredential ==
  \A one, two \in Key, registered \in SUBSET Key, scope \in {RedOnly, RedAndGreen} :
    LET minted == W!CoSignBy(W!MintCredential(1, 2, RedOnly, one), two) IN
    W!VerifiedKeys([minted EXCEPT !.scope = scope], registered)
      = IF scope = RedOnly THEN {one, two} \cap registered ELSE {}

\* Of two attestations in the names of two witnesses, for this root or another: who
\* signed this root with the key of the witness it names counts, and once.
Listed == [w \in {1, 2} |-> IF w = 1 THEN kr ELSE ka]

Attestations ==
  {[witness |-> w, node |-> n, key |-> k] : w \in {1, 2, 3}, n \in {1, 2}, k \in {kr, ka}}

ASSUME WitnessesCountOnce ==
  \A a, b \in Attestations, m \in 0..2 :
    LET made(x) == W!Attest(x.witness, x.node, 1, x.key)
        entry == [node |-> 1, attestations |-> <<made(a), made(b)>>]
        counted == {x.witness : x \in {x \in {a, b} : /\ x.node = 1 /\ x.witness \in {1, 2}
                                                       /\ Listed[x.witness] = x.key}}
    IN /\ W!VerifiedWitnesses(entry, Listed) = counted
       /\ W!MasterAccepts([m |-> m, witnesses |-> Listed, entries |-> {entry}], 1)
            <=> Cardinality(counted) >= m
       /\ ~W!MasterAccepts([m |-> m, witnesses |-> Listed, entries |-> {entry}], 2)

\* A stamp is the notary's while its subject, instant and state are what they were;
\* another verdict on it is not noticed.
ASSUME StampsBindTheState ==
  \A subject, state_hash \in {red, green}, verdict \in {"pass", "fail"}, k \in Key :
    LET stamp == W!Notarize([subject |-> red, as_of |-> 1, state_hash |-> red,
                             verdict |-> "fail", notary |-> None], kr)
        shown == [stamp EXCEPT !.subject = subject, !.state_hash = state_hash,
                               !.verdict = verdict]
    IN W!NotaryVerifies(shown, k) <=> k = kr /\ subject = red /\ state_hash = red

=============================================================================
