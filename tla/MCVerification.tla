--------------------------- MODULE MCVerification ---------------------------
(* A root, a body and a maker: the maker's authority comes through the body *)
(* under a condition, or directly; co-signatures of both, plain, composite  *)
(* and broken; one declaration against a key, a passport or a condition.    *)
EXTENDS Verification

CONSTANTS group, red, inspected, kr, kb, km, w1, p1, p2, p3, ed, p256

AllNodes ==
  {[id |-> 1, kind |-> "root", threshold |-> 0, keys |-> {kr}],
   [id |-> 2, kind |-> "delegated", threshold |-> 0, keys |-> {kb}],
   [id |-> 3, kind |-> "end", threshold |-> 0, keys |-> {km}]}

Inspected == [kind |-> "predicate", ref |-> inspected]

Free == [layers |-> [l \in Layer |-> {red}], window |-> Wildcard, conditions |-> {}]
IfInspected == [Free EXCEPT !.conditions = {Inspected}]

Grant(parent, child, scope, k) ==
  [parent |-> parent, child |-> child, scope |-> scope,
   signatures |-> <<[key |-> k, valid |-> TRUE]>>]

Offered == {Grant(1, 2, IfInspected, kr), Grant(2, 3, IfInspected, kb), Grant(1, 3, Free, kr)}

NoneMerged == {}

OwnerOf == [k \in Key |-> IF k = kr THEN 1 ELSE IF k = kb THEN 2 ELSE 3]

BornFirst == [p \in Passport |-> 1]

Against ==
  {[kind |-> "key", id |-> km],
   [kind |-> "condition", id |-> 2, condition |-> Inspected]}

TwoReasons == {"misissuance", "condition-withdrawal"}

FromTwo == {[from |-> 2, to |-> None]}

KeySuites == [k \in Key |-> IF k = km THEN ed ELSE p256]

Signs(k, signature) == [suite |-> KeySuites[k], key |-> k, signature |-> signature]

Signed ==
  {[slots |-> {Signs(km, "good"), Signs(kb, "good")}, composites |-> {}],
   [slots |-> {}, composites |-> {{Signs(km, "good"), Signs(kb, "good")}}],
   [slots |-> {Signs(km, "good")}, composites |-> {{Signs(km, "good"), Signs(kb, "framed")}}]}

ActsAskedFor ==
  {[layers |-> [l \in Layer |-> red], at |-> 1, predicates |-> predicates,
    attributes |-> [l \in Layer |-> None]] : predicates \in {{}, {inspected}}}

=============================================================================
