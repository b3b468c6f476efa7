---------------------------- MODULE MCNarrowing -----------------------------
(* All scopes over one layer of two values, three instants and one of each   *)
(* kind of condition, walked two credentials deep.                           *)
EXTENDS Narrowing

CONSTANTS group, red, green, rule

Conditions ==
  {[kind |-> "predicate", ref |-> rule],
   [kind |-> "attribute", key |-> group, allowed |-> {red}],
   [kind |-> "time-window", window |-> [from |-> 2, to |-> None]]}

SmallScopes ==
  [layers     : [Layer -> {Wildcard, {red}, {red, green}}],
   window     : WindowConstraint,
   conditions : {{}, Conditions} \cup {{c} : c \in Conditions}]

SmallRequests ==
  [layers     : [Layer -> Value],
   at         : Time,
   predicates : SUBSET Predicate,
   attributes : [Layer -> {red, None}]]

=============================================================================
