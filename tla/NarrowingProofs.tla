-------------------------- MODULE NarrowingProofs ---------------------------
(***************************************************************************)
(* Proofs about the narrowing algebra and the walk of a path, for every    *)
(* set of layers, values, instants and conditions and every length.  When  *)
(* narrow does not refuse, its result is the child (NarrowIsChild), and    *)
(* what a child grants its parent grants (AdmittedGrants); by induction    *)
(* over the walk the effective scope is the intersection.                  *)
(***************************************************************************)
EXTENDS Narrowing, TLAPS

-----------------------------------------------------------------------------
(* The algebra *)

LEMMA LayerIsChild ==
  ASSUME NEW a \in LayerConstraint, NEW b \in LayerConstraint,
         LayerEntails(a, b), LayerIntersect(a, b) # Refused
  PROVE  LayerIntersect(a, b) = b
BY DEF LayerEntails, LayerIntersect, LayerConstraint

LEMMA WindowIsChild ==
  ASSUME NEW a \in WindowConstraint, NEW b \in WindowConstraint,
         WindowEntails(a, b), WindowIntersect(a, b) # Refused
  PROVE  WindowIntersect(a, b) = b
<1>1. CASE a = Wildcard
  BY <1>1 DEF WindowIntersect
<1>2. CASE a # Wildcard
  <2>1. b # Wildcard /\ a \in Interval /\ b \in Interval
    BY <1>2 DEF WindowEntails, WindowConstraint
  <2>2. b.from >= a.from /\ (a.to # None => b.to # None /\ b.to <= a.to)
    BY <1>2 DEF WindowEntails
  <2>3. /\ a.from \in Nat /\ b.from \in Nat
        /\ a.to # None => a.to \in Nat
        /\ b.to # None => b.to \in Nat
    BY <2>1, ScopeAssumption DEF Interval
  <2>4. Later(a.from, b.from) = b.from
    BY <2>2, <2>3 DEF Later
  <2>5. EarlierEnd(a.to, b.to) = b.to
    BY <2>2, <2>3 DEF EarlierEnd
  <2>6. b = [from |-> b.from, to |-> b.to]
    BY <2>1 DEF Interval
  <2> QED
    BY <1>2, <2>1, <2>4, <2>5, <2>6 DEF WindowIntersect
<1> QED
  BY <1>1, <1>2

LEMMA NarrowIsChild ==
  ASSUME NEW parent \in DelegationScope, NEW child \in DelegationScope,
         Narrow(parent, child) # Refused
  PROVE  Admits(parent, child) /\ Narrow(parent, child) = child
<1> DEFINE layers == [l \in Layer |-> LayerIntersect(parent.layers[l], child.layers[l])]
           window == WindowIntersect(parent.window, child.window)
<1>1. /\ Admits(parent, child)
      /\ \A l \in Layer : layers[l] # Refused
      /\ window # Refused
      /\ Narrow(parent, child) = [layers     |-> layers,
                                  window     |-> window,
                                  conditions |-> parent.conditions \cup child.conditions]
  BY DEF Narrow
<1>2. layers = child.layers
  <2>1. \A l \in Layer :
          parent.layers[l] \in LayerConstraint /\ child.layers[l] \in LayerConstraint
    BY DEF DelegationScope
  <2>2. \A l \in Layer : layers[l] = child.layers[l]
    BY <1>1, <2>1, LayerIsChild DEF Admits
  <2>3. child.layers \in [Layer -> LayerConstraint]
    BY DEF DelegationScope
  <2> QED
    BY <2>2, <2>3
<1>3. window = child.window
  BY <1>1, WindowIsChild DEF Admits, DelegationScope
<1>4. parent.conditions \cup child.conditions = child.conditions
  BY <1>1 DEF Admits
<1>5. child = [layers |-> child.layers, window |-> child.window,
               conditions |-> child.conditions]
  BY DEF DelegationScope
<1> QED
  BY <1>1, <1>2, <1>3, <1>4, <1>5

LEMMA AdmittedWindow ==
  ASSUME NEW a \in WindowConstraint, NEW b \in WindowConstraint, WindowEntails(a, b),
         NEW t \in Time, WindowContains(b, t)
  PROVE  WindowContains(a, t)
<1>1. CASE a = Wildcard
  BY <1>1 DEF WindowContains
<1>2. CASE a # Wildcard
  <2>1. b # Wildcard /\ a \in Interval /\ b \in Interval
    BY <1>2 DEF WindowEntails, WindowConstraint
  <2>2. /\ b.from >= a.from
        /\ a.to # None => b.to # None /\ b.to <= a.to
        /\ b.from <= t
        /\ b.to # None => t <= b.to
    BY <1>2, <2>1 DEF WindowEntails, WindowContains, IntervalContains
  <2>3. /\ a.from \in Nat /\ b.from \in Nat /\ t \in Nat
        /\ a.to # None => a.to \in Nat
        /\ b.to # None => b.to \in Nat
    BY <2>1, ScopeAssumption DEF Interval
  <2>4. a.from <= t /\ (a.to # None => t <= a.to)
    BY <2>2, <2>3
  <2> QED
    BY <1>2, <2>4 DEF WindowContains, IntervalContains
<1> QED
  BY <1>1, <1>2

\* What an admitted child grants, its parent grants.
LEMMA AdmittedGrants ==
  ASSUME NEW parent \in DelegationScope, NEW child \in DelegationScope,
         Admits(parent, child), NEW request \in ScopeRequest, Grants(child, request)
  PROVE  Grants(parent, request)
<1>1. \A l \in Layer : LayerContains(parent.layers[l], request.layers[l])
  BY DEF Grants, Matches, Admits, LayerContains, LayerEntails
<1>2. WindowContains(parent.window, request.at)
  BY AdmittedWindow DEF Grants, Matches, Admits, DelegationScope, ScopeRequest
<1>3. ConditionsHold(parent, request)
  BY DEF Grants, ConditionsHold, Admits
<1> QED
  BY <1>1, <1>2, <1>3 DEF Grants, Matches

LEMMA UnconstrainedGrants ==
  ASSUME NEW request \in ScopeRequest
  PROVE  Unconstrained \in DelegationScope /\ Grants(Unconstrained, request)
BY DEF Unconstrained, DelegationScope, LayerConstraint, WindowConstraint, Grants, Matches,
   LayerContains, WindowContains, ConditionsHold

-----------------------------------------------------------------------------
(* The walk *)

Intersects ==
  effective # Refused =>
    \A request \in ScopeRequest :
      Grants(effective, request) <=> \A i \in DOMAIN granted : Grants(granted[i], request)

IInv == TypeOK /\ NothingIsRepaired /\ Intersects

LEMMA InitInv == Init => IInv
<1>1. Unconstrained \in DelegationScope
  BY DEF Unconstrained, DelegationScope, LayerConstraint, WindowConstraint
<1> QED
  BY <1>1, UnconstrainedGrants DEF Init, IInv, TypeOK, NothingIsRepaired, Intersects

LEMMA WalkStep ==
  ASSUME IInv, NEW scope \in Scopes, Walk(scope)
  PROVE  /\ IInv'
         /\ effective' # Refused => effective' = scope /\ Admits(effective, scope)
<1>1. /\ effective \in DelegationScope
      /\ scope \in DelegationScope
      /\ granted \in Seq(Scopes)
      /\ granted' = Append(granted, scope)
      /\ effective' = Narrow(effective, scope)
  BY NarrowingAssumption DEF IInv, TypeOK, Walk
<1>2. effective' # Refused => effective' = scope /\ Admits(effective, scope)
  BY <1>1, NarrowIsChild
<1>3. /\ granted' \in Seq(Scopes)
      /\ Len(granted') = Len(granted) + 1
      /\ granted'[Len(granted')] = scope
      /\ DOMAIN granted' = DOMAIN granted \cup {Len(granted')}
      /\ \A i \in DOMAIN granted : granted'[i] = granted[i]
      /\ granted' # <<>>
  BY <1>1
<1>4. TypeOK'
  BY <1>1, <1>2, <1>3 DEF TypeOK
<1>5. NothingIsRepaired'
  BY <1>2, <1>3 DEF NothingIsRepaired
<1>6. Intersects'
  <2>1. SUFFICES ASSUME effective' # Refused, NEW request \in ScopeRequest
                 PROVE  Grants(effective', request) <=>
                          \A i \in DOMAIN granted' : Grants(granted'[i], request)
    BY DEF Intersects
  <2>2. Grants(effective', request) => Grants(effective, request)
    BY <1>1, <1>2, <2>1, AdmittedGrants
  <2>3. Grants(effective, request) <=> \A i \in DOMAIN granted : Grants(granted[i], request)
    BY <1>1 DEF IInv, Intersects, Walk
  <2>4. effective' = scope
    BY <1>2, <2>1
  <2> QED
    BY <1>3, <2>2, <2>3, <2>4
<1> QED
  BY <1>2, <1>4, <1>5, <1>6 DEF IInv

LEMMA StepInv == IInv /\ [Next]_vars => IInv'
<1>1. ASSUME IInv, UNCHANGED vars PROVE IInv'
  BY <1>1 DEF vars, IInv, TypeOK, NothingIsRepaired, Intersects
<1> QED
  BY <1>1, WalkStep DEF Next

LEMMA Invariance == Spec => []IInv
BY InitInv, StepInv, PTL DEF Spec

\* The effective scope of a path is a scope, unconstrained only before the
\* first credential.
THEOREM TypeCorrect == Spec => []TypeOK
<1>1. IInv => TypeOK
  BY DEF IInv
<1> QED
  BY <1>1, Invariance, PTL

\* The effective scope grants exactly what every credential of the path grants.
THEOREM EffectiveIsTheIntersection == Spec => []EffectiveIsIntersection
<1>1. IInv => EffectiveIsIntersection
  BY NarrowingAssumption DEF IInv, Intersects, EffectiveIsIntersection
<1> QED
  BY <1>1, Invariance, PTL

\* A path that is not dropped ends with the scope its last credential carries.
THEOREM NothingIsEverRepaired == Spec => []NothingIsRepaired
<1>1. IInv => NothingIsRepaired
  BY DEF IInv
<1> QED
  BY <1>1, Invariance, PTL

\* No hop gives back what an earlier one withheld.
THEOREM ScopesOnlyNarrow == Spec => ScopeOnlyNarrows
<1>1. ASSUME IInv, [Next]_vars
      PROVE  effective' # Refused =>
               \A request \in Requests : Grants(effective', request) => Grants(effective, request)
  <2>1. CASE UNCHANGED vars
    BY <2>1 DEF vars
  <2>2. ASSUME NEW scope \in Scopes, Walk(scope), effective' # Refused, NEW request \in Requests,
               Grants(effective', request)
        PROVE  Grants(effective, request)
    <3>1. effective' = scope /\ Admits(effective, scope)
      BY <1>1, <2>2, WalkStep
    <3>2. effective \in DelegationScope /\ scope \in DelegationScope /\ request \in ScopeRequest
      BY <1>1, <2>2, NarrowingAssumption DEF IInv, TypeOK, Walk
    <3> QED
      BY <2>2, <3>1, <3>2, AdmittedGrants
  <2> QED
    BY <1>1, <2>1, <2>2 DEF Next
<1> QED
  BY <1>1, Invariance, PTL DEF Spec, ScopeOnlyNarrows

=============================================================================
