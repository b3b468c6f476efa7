------------------------------- MODULE Scope --------------------------------
(***************************************************************************)
(* The delegation scopes of scope.rs and their narrowing algebra.  The     *)
(* three symbolic layers (authority, profile version, product group) are   *)
(* treated alike: Layer names those a model keeps.  The conditions of a    *)
(* scope are a list without duplicates whose order only decides which      *)
(* failed condition is reported: here it is a set.                         *)
(***************************************************************************)
EXTENDS Integers

CONSTANTS
  Layer,      \* the symbolic layers
  Value,      \* the values a layer may be restricted to
  Predicate,  \* expression references of predicate conditions
  Time,       \* instants
  Wildcard,        \* the wildcard of a layer and of the window
  None,       \* Rust's Option::None
  Refused     \* an Err result

ASSUME ScopeAssumption ==
  /\ Time \subseteq Nat
  /\ None \notin Time

\* An interval whose end is before its start is no Interval.
Interval ==
  {iv \in [from : Time, to : Time \cup {None}] : iv.to # None => iv.from <= iv.to}

LayerConstraint == {Wildcard} \cup SUBSET Value

WindowConstraint == {Wildcard} \cup Interval

\* An attribute condition is to an allow-list what a predicate is to TRUE: a
\* named input of the request must be there and right.
ScopeCondition ==
  [kind : {"predicate"}, ref : Predicate]
    \cup [kind : {"attribute"}, key : Layer, allowed : SUBSET Value]
    \cup [kind : {"time-window"}, window : Interval]

DelegationScope ==
  [layers     : [Layer -> LayerConstraint],
   window     : WindowConstraint,
   conditions : SUBSET ScopeCondition]

\* predicates are the references whose outcome is recorded as true; an
\* attribute the request does not carry is None.
ScopeRequest ==
  [layers     : [Layer -> Value],
   at         : Time,
   predicates : SUBSET Predicate,
   attributes : [Layer -> Value \cup {None}]]

ASSUME WildcardAssumption ==
  /\ \A S \in SUBSET Value : Wildcard # S
  /\ Wildcard \notin Interval
  /\ None \notin Value
  /\ \A S \in LayerConstraint : Refused # S
  /\ Refused \notin WindowConstraint
  /\ Refused \notin DelegationScope

-----------------------------------------------------------------------------
(* One layer *)

LayerContains(l, v) == l = Wildcard \/ (l # Wildcard /\ v \in l)

\* Mutant: a wildcard child of a restricted parent goes through.
LayerEntailsWildcard(outer, inner) == outer = Wildcard \/ inner = Wildcard \/ inner \subseteq outer

LayerEntails(outer, inner) ==
  \/ outer = Wildcard
  \/ /\ outer # Wildcard
     /\ inner # Wildcard
     /\ inner \subseteq outer

\* Two disjoint restrictions have no intersection.
LayerIntersect(a, b) ==
  IF a = Wildcard THEN b
  ELSE IF b = Wildcard THEN a
  ELSE IF a \cap b = {} THEN Refused ELSE a \cap b

-----------------------------------------------------------------------------
(* The time window *)

IntervalContains(iv, t) == iv.from <= t /\ (iv.to # None => t <= iv.to)

WindowContains(w, t) == w = Wildcard \/ (w # Wildcard /\ IntervalContains(w, t))

WindowEntails(outer, inner) ==
  \/ outer = Wildcard
  \/ /\ outer # Wildcard
     /\ inner # Wildcard
     /\ inner.from >= outer.from
     /\ outer.to # None => inner.to # None /\ inner.to <= outer.to

Later(a, b) == IF a >= b THEN a ELSE b

\* Mutant: the later of the two ends is kept.
LaterEnd(a, b) == IF a = None THEN b ELSE IF b = None THEN a ELSE Later(a, b)

EarlierEnd(a, b) ==
  IF a = None THEN b ELSE IF b = None THEN a ELSE IF a <= b THEN a ELSE b

WindowIntersect(a, b) ==
  IF a = Wildcard THEN b
  ELSE IF b = Wildcard THEN a
  ELSE LET iv == [from |-> Later(a.from, b.from), to |-> EarlierEnd(a.to, b.to)] IN
       IF iv.to # None /\ iv.to < iv.from THEN Refused ELSE iv

-----------------------------------------------------------------------------
(* Scopes *)

Unconstrained ==
  [layers |-> [l \in Layer |-> Wildcard], window |-> Wildcard, conditions |-> {}]

IsContradiction(scope) ==
  \/ \E l \in Layer : scope.layers[l] = {}
  \/ \E c \in scope.conditions : c.kind = "attribute" /\ c.allowed = {}

\* admits: a child widens no layer and drops no condition.
Admits(parent, child) ==
  /\ \A l \in Layer : LayerEntails(parent.layers[l], child.layers[l])
  /\ WindowEntails(parent.window, child.window)
  /\ parent.conditions \subseteq child.conditions

\* Mutant: the child's scope is taken whenever it meets the parent's.
NarrowTrustsChild(parent, child) ==
  IF /\ \A l \in Layer : LayerIntersect(parent.layers[l], child.layers[l]) # Refused
     /\ WindowIntersect(parent.window, child.window) # Refused
  THEN child
  ELSE Refused

\* Mutant: neither the child nor the intersections are checked.
NarrowUnchecked(parent, child) ==
  [layers     |-> [l \in Layer |-> LayerIntersect(parent.layers[l], child.layers[l])],
   window     |-> WindowIntersect(parent.window, child.window),
   conditions |-> parent.conditions \cup child.conditions]

\* narrow: refused unless the child is admitted, and when an intersection is
\* empty; else every layer is intersected and the conditions add up.
Narrow(parent, child) ==
  LET layers == [l \in Layer |-> LayerIntersect(parent.layers[l], child.layers[l])]
      window == WindowIntersect(parent.window, child.window)
  IN IF /\ Admits(parent, child)
        /\ \A l \in Layer : layers[l] # Refused
        /\ window # Refused
     THEN [layers     |-> layers,
           window     |-> window,
           conditions |-> parent.conditions \cup child.conditions]
     ELSE Refused

\* is_met_by: an input the request does not carry is a condition not met.
IsMetBy(c, request) ==
  \/ c.kind = "predicate" /\ c.ref \in request.predicates
  \/ /\ c.kind = "attribute"
     /\ request.attributes[c.key] # None
     /\ request.attributes[c.key] \in c.allowed
  \/ c.kind = "time-window" /\ IntervalContains(c.window, request.at)

\* No layer rejects the act.
Matches(scope, request) ==
  /\ \A l \in Layer : LayerContains(scope.layers[l], request.layers[l])
  /\ WindowContains(scope.window, request.at)

ConditionsHold(scope, request) == \A c \in scope.conditions : IsMetBy(c, request)

Grants(scope, request) == Matches(scope, request) /\ ConditionsHold(scope, request)

=============================================================================
