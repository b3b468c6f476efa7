----------------------------- MODULE Narrowing ------------------------------
(***************************************************************************)
(* The loop of TrustGraph::resolve over the credentials of one path: the   *)
(* effective scope starts unconstrained and is narrowed by the scope each  *)
(* credential carries; the first refusal drops the path.                   *)
(***************************************************************************)
EXTENDS Scope, Sequences

CONSTANTS
  Scopes,      \* the scopes that credentials carry
  Requests,    \* the acts that are checked against the path
  MaxLength    \* bound on the path

ASSUME NarrowingAssumption ==
  /\ Scopes \subseteq DelegationScope
  /\ Requests \subseteq ScopeRequest
  /\ MaxLength \in Nat

VARIABLES
  granted,     \* the scopes of the credentials walked so far
  effective    \* the effective scope, or Refused once the path is dropped

vars == <<granted, effective>>

Init ==
  /\ granted = <<>>
  /\ effective = Unconstrained

Walk(scope) ==
  /\ effective # Refused
  /\ Len(granted) < MaxLength
  /\ granted' = Append(granted, scope)
  /\ effective' = Narrow(effective, scope)

Next == \E scope \in Scopes : Walk(scope)

Spec == Init /\ [][Next]_vars

-----------------------------------------------------------------------------

\* Only the empty path is unconstrained; a dropped path stays dropped.
TypeOK ==
  /\ granted \in Seq(Scopes)
  /\ effective \in DelegationScope \cup {Refused}
  /\ granted = <<>> => effective = Unconstrained

\* The effective scope grants an act when, and only when, every credential of
\* the path grants it, conditions included: the intersection that the module
\* comment of scope.rs promises.
EffectiveIsIntersection ==
  effective # Refused =>
    \A request \in Requests :
      Grants(effective, request) <=>
        \A i \in DOMAIN granted : Grants(granted[i], request)

\* Narrowing is enforced and never silently repaired: a path that is not
\* dropped ends with the very scope its last credential was signed for.
NothingIsRepaired ==
  effective # Refused /\ granted # <<>> => effective = granted[Len(granted)]

\* No hop gives back what an earlier one withheld.
ScopeOnlyNarrows ==
  [][effective' # Refused =>
       \A request \in Requests : Grants(effective', request) => Grants(effective, request)]_vars

=============================================================================
