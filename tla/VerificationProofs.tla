------------------------- MODULE VerificationProofs -------------------------
(***************************************************************************)
(* Proofs about the delegation graph, for every set of nodes, keys and     *)
(* credentials and every number of edges, and then about the pipeline over *)
(* that graph and a ledger that both go on changing.                       *)
(*                                                                         *)
(* The graph keeps its type and stays acyclic: a set that holds a node and *)
(* is closed under the edges holds all that the node reaches; the sets     *)
(* used are what nodes reached before the edge was added, which the check  *)
(* of add_edge makes closed under it.  With the edges free of              *)
(* contradictions, that is the invariant behind the other two results:     *)
(* resolve finds exactly the authority that a search breadth first finds,  *)
(* and growth takes none away.  Both are drawn from chains of credentials: *)
(* the search holds what the chains end in, the scope folded along a chain *)
(* is that of its last credential, and by acyclicity every chain is a path.*)
(*                                                                         *)
(* No step of the pipeline takes a declaration off the ledger              *)
(* (LedgerGrows), so what tainted a passport taints it still (TaintsStay)  *)
(* and taints what is made from it (TaintsReach).  Every run of the        *)
(* pipeline is one of the graph (GraphRuns), whose theorems therefore hold *)
(* of what the pipeline reads: what is accepted is held by chains of       *)
(* untouched credentials, and since growth keeps the paths and there is    *)
(* always a first of them, it keeps what is accepted.                      *)
(***************************************************************************)
EXTENDS Verification, SequenceTheorems, FiniteSetTheorems, WellFoundedInduction, TLAPS

-----------------------------------------------------------------------------
(* The graph *)

Typed ==
  /\ \A n \in NodeId : nodes[n] # None => nodes[n] \in DelegationNode /\ nodes[n].id = n
  /\ DOMAIN nodes = NodeId
  /\ edges \in Seq(Credential)
  /\ \A i \in DOMAIN edges :
       /\ nodes[edges[i].parent] # None
       /\ nodes[edges[i].child] # None
       /\ edges[i].signatures # <<>>

BundleTyped ==
  /\ lists \in [Jurisdiction -> [NodeId -> TrustListEntry \cup {None}]]
  /\ attested \in [NodeId -> (SUBSET Witness) \cup {None}]

-----------------------------------------------------------------------------
(* Type correctness *)

LEMMA InitTyped == GraphInit => GraphTypeOK
BY DEF GraphInit, GraphTypeOK

\* Nodes are never removed and edges only added.
LEMMA AddNodeTyped ==
  ASSUME Typed, NEW node \in Node, AddNode(node)
  PROVE  Typed'
<1>1. node \in DelegationNode /\ node # None /\ node.id \in NodeId
  BY NodeAssumption DEF DelegationNode
<1>2. CASE nodes[node.id] # None
  BY <1>2 DEF AddNode, Typed
<1>3. CASE nodes[node.id] = None
  <2>1. nodes' = [nodes EXCEPT ![node.id] = node] /\ edges' = edges
    BY <1>3 DEF AddNode
  <2>2. /\ DOMAIN nodes' = NodeId
        /\ \A n \in NodeId : nodes'[n] = IF n = node.id THEN node ELSE nodes[n]
    BY <1>1, <2>1 DEF Typed
  <2>3. \A i \in DOMAIN edges : edges[i].parent \in NodeId /\ edges[i].child \in NodeId
    BY CredentialAssumption DEF Typed
  <2> QED
    BY <1>1, <2>1, <2>2, <2>3 DEF Typed
<1> QED
  BY <1>2, <1>3

LEMMA RegisterTyped ==
  ASSUME Typed, NEW n \in NodeId, NEW k \in Key, RegisterKey(n, k)
  PROVE  Typed'
<1> DEFINE new == [nodes[n] EXCEPT !.keys = @ \cup {k}]
<1>1. nodes[n] \in DelegationNode /\ nodes[n].id = n
  BY DEF RegisterKey, Typed
<1>2. new \in DelegationNode /\ new.id = n
  BY <1>1 DEF DelegationNode
<1>3. new # None
  BY <1>2, NodeAssumption
<1>4. nodes' = [nodes EXCEPT ![n] = new] /\ edges' = edges
  BY DEF RegisterKey
<1>5. /\ DOMAIN nodes' = NodeId
      /\ \A x \in NodeId : nodes'[x] = IF x = n THEN new ELSE nodes[x]
  BY <1>4 DEF Typed
<1>6. \A i \in DOMAIN edges : edges[i].parent \in NodeId /\ edges[i].child \in NodeId
  BY CredentialAssumption DEF Typed
<1> HIDE DEF new
<1> QED
  BY <1>2, <1>3, <1>4, <1>5, <1>6 DEF Typed

LEMMA AddEdgeTyped ==
  ASSUME Typed, NEW cred \in Credential, AddEdge(cred)
  PROVE  Typed'
<1>1. /\ edges \in Seq(Credential)
      /\ edges' = Append(edges, cred)
      /\ nodes' = nodes
      /\ nodes[cred.parent] # None /\ nodes[cred.child] # None
      /\ cred.signatures # <<>>
  BY DEF AddEdge, Typed
<1>2. /\ edges' \in Seq(Credential)
      /\ \A i \in DOMAIN edges' : (i \in DOMAIN edges /\ edges'[i] = edges[i]) \/ edges'[i] = cred
  BY <1>1
<1> QED
  BY <1>1, <1>2 DEF Typed

LEMMA BundleStep ==
  ASSUME BundleTyped, [GraphNext]_graphVars
  PROVE  BundleTyped'
<1>1. ASSUME NEW j \in Jurisdiction, NEW n \in Roots, NEW t \in Time, Trust(j, n, t)
      PROVE  BundleTyped'
  <2>1. [not_before |-> t, superseded_at |-> None] \in TrustListEntry /\ n \in NodeId
    BY DEF TrustListEntry, Roots
  <2> QED
    BY <1>1, <2>1 DEF Trust, BundleTyped
<1>2. ASSUME NEW j \in Jurisdiction, NEW n \in Roots, NEW t \in Time, Supersede(j, n, t)
      PROVE  BundleTyped'
  <2>1. lists[j][n] \in TrustListEntry /\ n \in NodeId
    BY <1>2 DEF Supersede, BundleTyped, Roots
  <2>2. [lists[j][n] EXCEPT !.superseded_at = t] \in TrustListEntry
    BY <2>1 DEF TrustListEntry
  <2> DEFINE entry == [lists[j][n] EXCEPT !.superseded_at = t]
  <2>3. lists' = [lists EXCEPT ![j] = [lists[j] EXCEPT ![n] = entry]] /\ attested' = attested
    BY <1>2 DEF Supersede
  <2> HIDE DEF entry
  <2>4. entry \in TrustListEntry
    BY <2>2 DEF entry
  <2> QED
    BY <2>1, <2>3, <2>4 DEF BundleTyped
<1>3. ASSUME NEW n \in Roots, NEW witnesses \in SUBSET Witness, Upsert(n, witnesses)
      PROVE  BundleTyped'
  BY <1>3 DEF Upsert, BundleTyped, Roots
<1>4. CASE UNCHANGED <<lists, attested>>
  BY <1>4 DEF BundleTyped
<1> QED
  BY <1>1, <1>2, <1>3, <1>4 DEF GraphNext, graphVars, AddNode, RegisterKey, AddEdge

\* What a step does to the graph; the others only touch the bundle.
LEMMA EveryStep ==
  ASSUME [GraphNext]_graphVars
  PROVE  \/ \E node \in Node : AddNode(node)
         \/ \E r \in Registration : RegisterKey(r[1], r[2])
         \/ \E cred \in Credential : AddEdge(cred)
         \/ UNCHANGED <<nodes, edges>>
BY DEF GraphNext, graphVars, Trust, Supersede, Upsert

LEMMA StepTyped == GraphTypeOK /\ [GraphNext]_graphVars => GraphTypeOK'
<1> SUFFICES ASSUME GraphTypeOK, [GraphNext]_graphVars PROVE GraphTypeOK'
  OBVIOUS
<1>1. Typed /\ BundleTyped
  BY DEF GraphTypeOK, Typed, BundleTyped
<1>2. BundleTyped'
  BY <1>1, BundleStep
<1>3. ASSUME NEW node \in Node, AddNode(node) PROVE Typed'
  BY <1>1, <1>3, AddNodeTyped
<1>4. ASSUME NEW r \in Registration, RegisterKey(r[1], r[2]) PROVE Typed'
  <2>1. r[1] \in NodeId /\ r[2] \in Key
    BY BundleAssumption
  <2> QED
    BY <1>1, <1>4, <2>1, RegisterTyped
<1>5. ASSUME NEW cred \in Credential, AddEdge(cred) PROVE Typed'
  BY <1>1, <1>5, AddEdgeTyped
<1>6. ASSUME UNCHANGED <<nodes, edges>> PROVE Typed'
  BY <1>1, <1>6 DEF Typed
<1>7. Typed'
  BY <1>3, <1>4, <1>5, <1>6, EveryStep
<1> QED
  BY <1>2, <1>7 DEF GraphTypeOK, Typed, BundleTyped

\* Every edge of the graph joins two of its nodes, which are never removed.
THEOREM TypeCorrect == GraphSpec => []GraphTypeOK
BY InitTyped, StepTyped, PTL DEF GraphSpec

-----------------------------------------------------------------------------
(* Reachability *)

Closed(S, es) == \A i \in DOMAIN es : es[i].parent \in S => es[i].child \in S

LEMMA ReachIsLeast ==
  ASSUME NEW n \in NodeId
  PROVE  /\ Reach(n) \subseteq NodeId
         /\ n \in Reach(n)
         /\ \A S \in SUBSET NodeId : n \in S /\ Closed(S, edges) => Reach(n) \subseteq S
BY DEF Reach, Closed

LEMMA ReachIsClosed ==
  ASSUME Typed, NEW n \in NodeId
  PROVE  Closed(Reach(n), edges)
<1> SUFFICES ASSUME NEW i \in DOMAIN edges, edges[i].parent \in Reach(n)
             PROVE  edges[i].child \in Reach(n)
  BY DEF Closed
<1>1. edges[i].child \in NodeId
  BY CredentialAssumption DEF Typed
<1> QED
  BY <1>1 DEF Reach

\* What a set closed under the next edges holds, the next graph cannot leave.
LEMMA NextReachWithin ==
  ASSUME NEW n \in NodeId, NEW S \in SUBSET NodeId, n \in S, Closed(S, edges')
  PROVE  Reach(n)' \subseteq S
BY DEF Reach, Closed

LEMMA AcyclicStep ==
  ASSUME Typed, Acyclic, NEW cred \in Credential, AddEdge(cred)
  PROVE  Acyclic'
<1> DEFINE p == cred.parent
           c == cred.child
<1>1. /\ edges \in Seq(Credential)
      /\ edges' = Append(edges, cred)
      /\ p \notin Reach(c)
      /\ p \in NodeId /\ c \in NodeId
  BY CredentialAssumption DEF AddEdge, ClosesCycle, Typed
<1>2. /\ \A i \in DOMAIN edges' : (i \in DOMAIN edges /\ edges'[i] = edges[i]) \/ edges'[i] = cred
      /\ \A i \in DOMAIN edges : edges[i].parent \in NodeId /\ edges[i].child \in NodeId
  BY <1>1, CredentialAssumption
<1>3. ASSUME NEW n \in NodeId, p \notin Reach(n) PROVE Reach(n)' \subseteq Reach(n)
  <2>1. Closed(Reach(n), edges')
    BY <1>2, <1>3, ReachIsClosed DEF Closed
  <2> QED
    BY <2>1, ReachIsLeast, NextReachWithin
<1>4. ASSUME NEW n \in NodeId PROVE Reach(n)' \subseteq Reach(n) \cup Reach(c)
  <2>1. Closed(Reach(n), edges) /\ Closed(Reach(c), edges) /\ c \in Reach(c)
    BY <1>1, ReachIsClosed, ReachIsLeast
  <2>2. Closed(Reach(n) \cup Reach(c), edges')
    BY <1>2, <2>1 DEF Closed
  <2> QED
    BY <1>1, <2>2, ReachIsLeast, NextReachWithin
<1>5. p \notin Reach(c)'
  BY <1>1, <1>3
<1>6. ASSUME NEW i \in DOMAIN edges, NEW x \in NodeId, NEW y \in NodeId,
             x = edges[i].parent, y = edges[i].child
      PROVE  x \notin Reach(y)'
  <2>1. x \notin Reach(y)
    BY <1>6 DEF Acyclic
  <2>2. CASE p \notin Reach(y)
    BY <1>3, <2>1, <2>2
  <2>3. ASSUME p \in Reach(y), x \in Reach(y)' PROVE FALSE
    <3>1. x \in Reach(c)
      BY <1>4, <2>1, <2>3
    <3>2. y \in Reach(c) /\ Closed(Reach(c), edges)
      BY <1>1, <1>6, <3>1, ReachIsClosed DEF Closed
    <3>3. Reach(y) \subseteq Reach(c)
      BY <1>1, <2>1, <3>2, ReachIsLeast
    <3> QED
      BY <1>1, <2>3, <3>3
  <2> QED
    BY <2>2, <2>3
<1> QED
  BY <1>2, <1>5, <1>6 DEF Acyclic

\* However credentials are added, no node delegates to one it descends from.
THEOREM StaysAcyclic == GraphSpec => []Acyclic
<1>1. GraphInit => Acyclic
  BY DEF GraphInit, Acyclic
<1>2. ASSUME GraphTypeOK, Acyclic, [GraphNext]_graphVars PROVE Acyclic'
  <2>1. Typed
    BY <1>2 DEF GraphTypeOK, Typed
  <2>2. ASSUME edges' = edges PROVE Acyclic'
    <3>1. \A n \in NodeId : Reach(n)' = Reach(n)
      BY <2>2 DEF Reach
    <3>2. \A i \in DOMAIN edges : edges[i].child \in NodeId
      BY <2>1, CredentialAssumption DEF Typed
    <3> QED
      BY <1>2, <2>2, <3>1, <3>2 DEF Acyclic
  <2>3. ASSUME NEW node \in Node, AddNode(node) PROVE edges' = edges
    BY <2>3 DEF AddNode
  <2>4. ASSUME NEW r \in Registration, RegisterKey(r[1], r[2]) PROVE edges' = edges
    BY <2>4 DEF RegisterKey
  <2>5. ASSUME NEW cred \in Credential, AddEdge(cred) PROVE Acyclic'
    BY <1>2, <2>1, <2>5, AcyclicStep
  <2> QED
    BY <1>2, <2>2, <2>3, <2>4, <2>5, EveryStep
<1> QED
  BY <1>1, <1>2, TypeCorrect, PTL DEF GraphSpec

-----------------------------------------------------------------------------
(* Narrowing, for scopes that deny nothing outright *)

LEMMA LayerIsChild ==
  ASSUME NEW a \in LayerConstraint, NEW b \in LayerConstraint, b # {}, LayerEntails(a, b)
  PROVE  LayerIntersect(a, b) = b /\ b # Refused
<1>1. b # Refused
  BY WildcardAssumption
<1>2. CASE a = Wildcard
  BY <1>1, <1>2 DEF LayerIntersect
<1>3. CASE a # Wildcard
  BY <1>1, <1>3 DEF LayerEntails, LayerIntersect, LayerConstraint
<1> QED
  BY <1>2, <1>3

LEMMA WindowIsChild ==
  ASSUME NEW a \in WindowConstraint, NEW b \in WindowConstraint, WindowEntails(a, b)
  PROVE  WindowIntersect(a, b) = b /\ b # Refused
<1>1. b # Refused
  BY WildcardAssumption
<1>2. CASE a = Wildcard
  BY <1>1, <1>2 DEF WindowIntersect
<1>3. CASE a # Wildcard
  <2>1. b # Wildcard /\ a \in Interval /\ b \in Interval
    BY <1>3 DEF WindowEntails, WindowConstraint
  <2>2. b.from >= a.from /\ (a.to # None => b.to # None /\ b.to <= a.to)
    BY <1>3 DEF WindowEntails
  <2>3. /\ a.from \in Nat /\ b.from \in Nat
        /\ a.to # None => a.to \in Nat
        /\ b.to # None => b.to \in Nat /\ b.from <= b.to
    BY <2>1, ScopeAssumption DEF Interval
  <2>4. Later(a.from, b.from) = b.from
    BY <2>2, <2>3 DEF Later
  <2>5. EarlierEnd(a.to, b.to) = b.to
    BY <2>2, <2>3 DEF EarlierEnd
  <2>6. b = [from |-> b.from, to |-> b.to]
    BY <2>1 DEF Interval
  <2>7. ~(b.to # None /\ b.to < b.from)
    BY <2>3
  <2> QED
    BY <1>1, <1>3, <2>1, <2>4, <2>5, <2>6, <2>7 DEF WindowIntersect
<1> QED
  BY <1>2, <1>3

\* narrow returns the child where it admits it and refuses it elsewhere.
LEMMA NarrowIsAdmission ==
  ASSUME NEW parent \in DelegationScope, NEW child \in DelegationScope,
         ~IsContradiction(child)
  PROVE  Narrow(parent, child) = IF Admits(parent, child) THEN child ELSE Refused
<1>1. CASE ~Admits(parent, child)
  BY <1>1 DEF Narrow
<1>2. CASE Admits(parent, child)
  <2> DEFINE layers == [l \in Layer |-> LayerIntersect(parent.layers[l], child.layers[l])]
             window == WindowIntersect(parent.window, child.window)
  <2>1. \A l \in Layer :
          parent.layers[l] \in LayerConstraint /\ child.layers[l] \in LayerConstraint
    BY DEF DelegationScope
  <2>2. \A l \in Layer : layers[l] = child.layers[l] /\ layers[l] # Refused
    BY <1>2, <2>1, LayerIsChild DEF Admits, IsContradiction
  <2>3. child.layers \in [Layer -> LayerConstraint]
    BY DEF DelegationScope
  <2>4. layers = child.layers
    BY <2>2, <2>3
  <2>5. window = child.window /\ window # Refused
    BY <1>2, WindowIsChild DEF Admits, DelegationScope
  <2>6. parent.conditions \cup child.conditions = child.conditions
    BY <1>2 DEF Admits
  <2>7. child = [layers |-> child.layers, window |-> child.window,
                 conditions |-> child.conditions]
    BY DEF DelegationScope
  <2> QED
    BY <1>2, <2>2, <2>4, <2>5, <2>6, <2>7 DEF Narrow
<1> QED
  BY <1>1, <1>2

LEMMA UnconstrainedScope == Unconstrained \in DelegationScope
BY DEF Unconstrained, DelegationScope, LayerConstraint, WindowConstraint

-----------------------------------------------------------------------------
(* Who signed *)

\* A finite set has a subset of each smaller size.
LEMMA SubsetOfSize ==
  ASSUME NEW S, IsFiniteSet(S), NEW n \in Nat, n <= Cardinality(S)
  PROVE  \E T \in SUBSET S : Cardinality(T) = n
<1>1. Cardinality(S) \in Nat /\ ExistsBijection(1..Cardinality(S), S)
  BY FS_CardinalityType
<1>2. PICK f : f \in Bijection(1..Cardinality(S), S)
  BY <1>1 DEF ExistsBijection
<1> DEFINE T == {f[i] : i \in 1..n}
           g == [i \in 1..n |-> f[i]]
<1>3. f \in Injection(1..Cardinality(S), S)
  BY <1>2 DEF Bijection
<1>4. /\ f \in [1..Cardinality(S) -> S]
      /\ \A i, j \in 1..Cardinality(S) : f[i] = f[j] => i = j
  BY <1>3 DEF Injection, IsInjective
<1>5. g \in [1..n -> T] /\ (\A i, j \in 1..n : g[i] = g[j] => i = j)
  BY <1>1, <1>4
<1>6. \A t \in T : \E i \in 1..n : g[i] = t
  OBVIOUS
<1>7. g \in Bijection(1..n, T)
  BY <1>5, <1>6 DEF Bijection, Injection, IsInjective, Surjection
<1>8. Cardinality(T) = n
  BY <1>7, FS_CountingElements DEF ExistsBijection
<1>9. T \in SUBSET S
  BY <1>1, <1>4
<1> QED
  BY <1>8, <1>9

\* The parent's keys that a credential's verifying slots name.
VerifiedKeys(cred) ==
  {cred.signatures[i].key : i \in {i \in DOMAIN cred.signatures : cred.signatures[i].valid}}
    \cap nodes[cred.parent].keys

LEMMA VerifiedIsFinite ==
  ASSUME NEW cred \in Credential
  PROVE  IsFiniteSet(VerifiedKeys(cred))
<1> DEFINE slots == {i \in DOMAIN cred.signatures : cred.signatures[i].valid}
           named == {cred.signatures[i].key : i \in slots}
           f == [i \in slots |-> cred.signatures[i].key]
<1>1. DOMAIN cred.signatures = 1..Len(cred.signatures) /\ Len(cred.signatures) \in Nat
  <2>1. cred.signatures \in Seq(Slot)
    BY CredentialAssumption
  <2> QED
    BY <2>1
<1>2. IsFiniteSet(DOMAIN cred.signatures)
  <2>1. IsFiniteSet(1..Len(cred.signatures))
    BY <1>1, FS_Interval
  <2> QED
    BY <1>1, <2>1
<1>3. IsFiniteSet(slots)
  BY <1>2, FS_Subset
<1>4. f \in Surjection(slots, named)
  BY DEF Surjection
<1> HIDE DEF slots, f, named
<1>5. IsFiniteSet(named)
  BY <1>3, <1>4, FS_Surjection
<1>6. VerifiedKeys(cred) \in SUBSET named
  BY DEF VerifiedKeys, slots, named
<1> QED
  BY <1>5, <1>6, FS_Subset

LEMMA SlotOf ==
  ASSUME NEW s \in Slot, NEW k
  PROVE  (s.valid /\ s.key = k) <=> s = [key |-> k, valid |-> TRUE]
<1>1. s = [key |-> s.key, valid |-> s.valid] /\ s.valid \in BOOLEAN
  BY DEF Slot
<1>2. ASSUME s.valid, s.key = k PROVE s = [key |-> k, valid |-> TRUE]
  <2>1. s.valid = TRUE
    BY <1>1, <1>2
  <2> QED
    BY <1>1, <1>2, <2>1, Zenon
<1>3. ASSUME s = [key |-> k, valid |-> TRUE] PROVE s.valid /\ s.key = k
  BY <1>3
<1> QED
  BY <1>2, <1>3

LEMMA NamedBySlot ==
  ASSUME NEW cred \in Credential, NEW k
  PROVE  k \in {cred.signatures[i].key :
                  i \in {i \in DOMAIN cred.signatures : cred.signatures[i].valid}}
           <=> [key |-> k, valid |-> TRUE] \in {cred.signatures[i] : i \in DOMAIN cred.signatures}
<1>1. cred.signatures \in Seq(Slot)
  BY CredentialAssumption
<1>2. \A i \in DOMAIN cred.signatures : cred.signatures[i] \in Slot
  BY <1>1
<1>3. \A i \in DOMAIN cred.signatures :
        (cred.signatures[i].valid /\ cred.signatures[i].key = k)
          <=> cred.signatures[i] = [key |-> k, valid |-> TRUE]
  BY <1>2, SlotOf
<1> QED
  BY <1>3, Zenon

\* The quorum count of verify_credential finds the signers there are.
LEMMA VerifyIsSigned ==
  ASSUME Typed, NEW cred \in Credential, nodes[cred.parent] # None
  PROVE  VerifyCredential(cred) <=> SignedFor(cred)
<1> DEFINE parent == nodes[cred.parent]
           V == VerifiedKeys(cred)
           n == IF parent.kind = "group" THEN parent.threshold ELSE 1
<1>1. IsFiniteSet(V)
  BY VerifiedIsFinite
<1>2. parent.threshold \in Nat
  BY CredentialAssumption DEF Typed, DelegationNode
<1>3. \A S \in SUBSET parent.keys :
        S \subseteq V <=> \A k \in S : [key |-> k, valid |-> TRUE]
                                         \in {cred.signatures[i] : i \in DOMAIN cred.signatures}
  BY NamedBySlot DEF VerifiedKeys
<1>4. V \subseteq parent.keys
  BY DEF VerifiedKeys
<1>5. VerifyCredential(cred) <=> IF parent.kind = "group" THEN Cardinality(V) >= n ELSE V # {}
  BY DEF VerifyCredential, VerifiedKeys
<1>6. SignedFor(cred) <=> \E S \in SUBSET V : Cardinality(S) = n
  BY <1>3, <1>4 DEF SignedFor
<1>7. Cardinality(V) \in Nat /\ n \in Nat
  BY <1>1, <1>2, FS_CardinalityType
<1> HIDE DEF V
<1>8. V # {} <=> Cardinality(V) >= 1
  BY <1>1, <1>7, FS_EmptySet
<1>9. (\E S \in SUBSET V : Cardinality(S) = n) <=> Cardinality(V) >= n
  <2>1. ASSUME NEW S \in SUBSET V, Cardinality(S) = n PROVE Cardinality(V) >= n
    <3>1. Cardinality(S) <= Cardinality(V)
      BY <1>1, FS_Subset
    <3> QED
      BY <1>7, <2>1, <3>1
  <2>2. ASSUME Cardinality(V) >= n PROVE \E S \in SUBSET V : Cardinality(S) = n
    <3>1. n <= Cardinality(V)
      BY <1>7, <2>2
    <3> HIDE DEF n
    <3> QED
      BY <1>1, <1>7, <3>1, SubsetOfSize
  <2> QED
    BY <2>1, <2>2
<1> QED
  BY <1>5, <1>6, <1>8, <1>9

\* Complete induction, of a set: no step of it takes an operator.
LEMMA CompleteInduction ==
  ASSUME NEW S, \A n \in Nat : (\A m \in 0..(n - 1) : m \in S) => n \in S
  PROVE  Nat \subseteq S
<1> DEFINE R == OpToRel(<, Nat)
           T == Nat \ S
<1>1. IsWellFoundedOn(R, Nat)
  BY NatLessThanWellFounded
<1>2. SUFFICES ASSUME T # {} PROVE FALSE
  OBVIOUS
<1>3. \E x \in T : \A y \in T : ~ (<<y, x>> \in R)
  <2> HIDE DEF R
  <2>1. T \subseteq Nat
    OBVIOUS
  <2> HIDE DEF T
  <2> QED
    BY <1>1, <1>2, <2>1, WFMin
<1>4. PICK x \in T : \A y \in T : ~ (<<y, x>> \in R)
  BY <1>3
<1>5. \A y \in Nat : y < x => <<y, x>> \in R
  BY DEF OpToRel
<1> HIDE DEF R
<1>6. ASSUME NEW y \in 0..(x - 1) PROVE y \in S
  <2>1. x \in Nat /\ y \in Nat /\ y < x
    OBVIOUS
  <2>2. <<y, x>> \in R
    BY <1>5, <2>1
  <2> QED
    BY <1>4, <2>1, <2>2
<1> QED
  BY <1>4, <1>6

\* A set of numbers has a least.
LEMMA LeastNumber ==
  ASSUME NEW T, T \subseteq Nat, T # {}
  PROVE  \E n \in T : \A x \in T : n <= x
<1> DEFINE S == {n \in Nat : n \notin T}
<1>1. SUFFICES ASSUME \A n \in T : \E x \in T : ~(n <= x) PROVE FALSE
  OBVIOUS
<1>2. ASSUME NEW n \in Nat, \A m \in 0..(n - 1) : m \in S PROVE n \in S
  <2>1. ASSUME n \in T PROVE FALSE
    <3>1. PICK x \in T : ~(n <= x)
      BY <1>1, <2>1
    <3>2. x \in 0..(n - 1)
      BY <3>1
    <3> QED
      BY <1>2, <3>2
  <2> QED
    BY <2>1
<1>3. Nat \subseteq S
  <2> HIDE DEF S
  <2> QED
    BY <1>2, CompleteInduction
<1> QED
  BY <1>3

-----------------------------------------------------------------------------
(* Chains of credentials *)

NodeAt(r, p, n) == IF n = 0 THEN r ELSE edges[p[n]].child

ScopeAt(p, n) == IF n = 0 THEN Unconstrained ELSE edges[p[n]].scope

\* Each credential starts where the one before ends,
Linked(r, p, n) == \A i \in 1..n : edges[p[i]].parent = NodeAt(r, p, i - 1)

\* and widens nothing.
Unwidened(p, n) == \A i \in 1..n : Admits(ScopeAt(p, i - 1), edges[p[i]].scope)

IsChain(r, p, n) == Linked(r, p, n) /\ Unwidened(p, n)

AcceptedRoots(t) == {r \in Roots : AcceptsRoot(r, t)}

Ends(usable, r, n) ==
  {<<NodeAt(r, p, n), ScopeAt(p, n)>> : p \in {p \in [1..n -> usable] : IsChain(r, p, n)}}

\* What is held at the ends of the chains of at most m credentials.
Chained(usable, t, m) == UNION {UNION {Ends(usable, r, n) : n \in 0..m} : r \in AcceptedRoots(t)}

FromRoots(t) == {<<r, Unconstrained>> : r \in {r \in Roots : AcceptsRoot(r, t)}}

\* One round of the search.
Spread(held, usable) ==
  held \cup UNION {{<<edges[i].child, edges[i].scope>> :
                      h \in {h \in held :
                               /\ h[1] = edges[i].parent
                               /\ Admits(h[2], edges[i].scope)}} :
                   i \in usable}

LEMMA InChained ==
  ASSUME NEW usable, NEW t, NEW m \in Nat, NEW h
  PROVE  h \in Chained(usable, t, m) <=>
           \E r \in AcceptedRoots(t), n \in 0..m : \E p \in [1..n -> usable] :
             IsChain(r, p, n) /\ h = <<NodeAt(r, p, n), ScopeAt(p, n)>>
BY DEF Chained, Ends

LEMMA ChainedBase ==
  ASSUME NEW usable, NEW t
  PROVE  Chained(usable, t, 0) = FromRoots(t)
<1>1. ASSUME NEW h \in Chained(usable, t, 0) PROVE h \in FromRoots(t)
  <2>1. PICK r \in AcceptedRoots(t), n \in 0..0 : \E p \in [1..n -> usable] :
          IsChain(r, p, n) /\ h = <<NodeAt(r, p, n), ScopeAt(p, n)>>
    BY <1>1, InChained
  <2>2. n = 0
    OBVIOUS
  <2>3. h = <<r, Unconstrained>>
    BY <2>1, <2>2 DEF NodeAt, ScopeAt
  <2> QED
    BY <2>3 DEF FromRoots, AcceptedRoots
<1>2. ASSUME NEW r \in AcceptedRoots(t) PROVE <<r, Unconstrained>> \in Chained(usable, t, 0)
  <2> DEFINE p == [i \in 1..0 |-> i]
  <2>1. p \in [1..0 -> usable]
    OBVIOUS
  <2>2. IsChain(r, p, 0) /\ <<r, Unconstrained>> = <<NodeAt(r, p, 0), ScopeAt(p, 0)>>
    BY DEF IsChain, Linked, Unwidened, NodeAt, ScopeAt
  <2>3. 0 \in 0..0 /\ 0 \in Nat
    OBVIOUS
  <2> HIDE DEF p
  <2> QED
    BY <2>1, <2>2, <2>3, InChained
<1> QED
  BY <1>1, <1>2 DEF FromRoots, AcceptedRoots

\* A credential at the end of a chain makes it longer.
LEMMA ChainGrows ==
  ASSUME NEW usable, NEW r, NEW n \in Nat, NEW p \in [1..n -> usable], IsChain(r, p, n),
         NEW i \in usable, edges[i].parent = NodeAt(r, p, n),
         Admits(ScopeAt(p, n), edges[i].scope)
  PROVE  \E q \in [1..(n + 1) -> usable] :
           /\ IsChain(r, q, n + 1)
           /\ NodeAt(r, q, n + 1) = edges[i].child
           /\ ScopeAt(q, n + 1) = edges[i].scope
<1> DEFINE q == [j \in 1..(n + 1) |-> IF j = n + 1 THEN i ELSE p[j]]
<1>1. q \in [1..(n + 1) -> usable] /\ q[n + 1] = i /\ \A j \in 1..n : q[j] = p[j]
  OBVIOUS
<1> HIDE DEF q
<1>2. \A j \in 0..n : NodeAt(r, q, j) = NodeAt(r, p, j) /\ ScopeAt(q, j) = ScopeAt(p, j)
  BY <1>1 DEF NodeAt, ScopeAt
<1>3. ASSUME NEW j \in 1..(n + 1)
      PROVE  /\ edges[q[j]].parent = NodeAt(r, q, j - 1)
             /\ Admits(ScopeAt(q, j - 1), edges[q[j]].scope)
  <2>1. CASE j = n + 1
    <3>1. j - 1 = n /\ n \in 0..n
      BY <2>1
    <3> QED
      BY <1>1, <1>2, <2>1, <3>1
  <2>2. CASE j # n + 1
    <3>1. j \in 1..n /\ j - 1 \in 0..n
      BY <2>2
    <3> QED
      BY <1>1, <1>2, <3>1 DEF IsChain, Linked, Unwidened
  <2> QED
    BY <2>1, <2>2
<1>4. n + 1 # 0
  OBVIOUS
<1>5. NodeAt(r, q, n + 1) = edges[i].child /\ ScopeAt(q, n + 1) = edges[i].scope
  BY <1>1, <1>4 DEF NodeAt, ScopeAt
<1> QED
  BY <1>1, <1>3, <1>5 DEF IsChain, Linked, Unwidened

\* The first part of a chain is one.
LEMMA ChainShortens ==
  ASSUME NEW usable, NEW r, NEW n \in Nat, n # 0, NEW p \in [1..n -> usable], IsChain(r, p, n)
  PROVE  \E q \in [1..(n - 1) -> usable] :
           /\ IsChain(r, q, n - 1)
           /\ NodeAt(r, q, n - 1) = edges[p[n]].parent
           /\ Admits(ScopeAt(q, n - 1), edges[p[n]].scope)
<1> DEFINE q == [j \in 1..(n - 1) |-> p[j]]
<1>1. q \in [1..(n - 1) -> usable] /\ \A j \in 1..(n - 1) : q[j] = p[j]
  OBVIOUS
<1> HIDE DEF q
<1>2. \A j \in 0..(n - 1) : NodeAt(r, q, j) = NodeAt(r, p, j) /\ ScopeAt(q, j) = ScopeAt(p, j)
  BY <1>1 DEF NodeAt, ScopeAt
<1>3. \A j \in 1..(n - 1) : j \in 1..n /\ j - 1 \in 0..(n - 1)
  OBVIOUS
<1>4. IsChain(r, q, n - 1)
  BY <1>1, <1>2, <1>3 DEF IsChain, Linked, Unwidened
<1>5. n \in 1..n /\ n - 1 \in 0..(n - 1)
  OBVIOUS
<1> QED
  BY <1>1, <1>2, <1>4, <1>5 DEF IsChain, Linked, Unwidened

LEMMA ChainedStep ==
  ASSUME NEW usable, NEW t, NEW m \in Nat, m # 0
  PROVE  Chained(usable, t, m) = Spread(Chained(usable, t, m - 1), usable)
<1> DEFINE before == Chained(usable, t, m - 1)
<1>1. m - 1 \in Nat /\ 0..(m - 1) \subseteq 0..m
  OBVIOUS
<1>2. ASSUME NEW h \in Chained(usable, t, m) PROVE h \in Spread(before, usable)
  <2>1. PICK r \in AcceptedRoots(t), n \in 0..m : \E p \in [1..n -> usable] :
          IsChain(r, p, n) /\ h = <<NodeAt(r, p, n), ScopeAt(p, n)>>
    BY <1>2, InChained
  <2>2. PICK p \in [1..n -> usable] : IsChain(r, p, n) /\ h = <<NodeAt(r, p, n), ScopeAt(p, n)>>
    BY <2>1
  <2>3. CASE n # m
    <3>1. n \in 0..(m - 1)
      BY <2>3
    <3>2. h \in before
      BY <1>1, <2>2, <3>1, InChained
    <3> QED
      BY <3>2 DEF Spread
  <2>4. CASE n = m
    <3>1. n \in Nat /\ n # 0 /\ n - 1 \in 0..(m - 1) /\ n \in 1..n
      BY <2>4
    <3>2. PICK q \in [1..(n - 1) -> usable] :
            /\ IsChain(r, q, n - 1)
            /\ NodeAt(r, q, n - 1) = edges[p[n]].parent
            /\ Admits(ScopeAt(q, n - 1), edges[p[n]].scope)
      BY <2>2, <3>1, ChainShortens
    <3> DEFINE g == <<NodeAt(r, q, n - 1), ScopeAt(q, n - 1)>>
    <3>3. g \in before
      BY <1>1, <3>1, <3>2, InChained
    <3>4. g[1] = edges[p[n]].parent /\ Admits(g[2], edges[p[n]].scope)
      BY <3>2
    <3>5. p[n] \in usable
      BY <3>1
    <3>6. h = <<edges[p[n]].child, edges[p[n]].scope>>
      BY <2>2, <3>1 DEF NodeAt, ScopeAt
    <3> HIDE DEF g, before
    <3> QED
      BY <3>3, <3>4, <3>5, <3>6 DEF Spread
  <2> QED
    BY <2>3, <2>4
<1>3. ASSUME NEW h \in before PROVE h \in Chained(usable, t, m)
  BY <1>1, <1>3, InChained
<1>4. ASSUME NEW i \in usable, NEW g \in before,
             g[1] = edges[i].parent, Admits(g[2], edges[i].scope)
      PROVE  <<edges[i].child, edges[i].scope>> \in Chained(usable, t, m)
  <2>1. PICK r \in AcceptedRoots(t), n \in 0..(m - 1) : \E p \in [1..n -> usable] :
          IsChain(r, p, n) /\ g = <<NodeAt(r, p, n), ScopeAt(p, n)>>
    BY <1>1, <1>4, InChained
  <2>2. PICK p \in [1..n -> usable] : IsChain(r, p, n) /\ g = <<NodeAt(r, p, n), ScopeAt(p, n)>>
    BY <2>1
  <2>3. edges[i].parent = NodeAt(r, p, n) /\ Admits(ScopeAt(p, n), edges[i].scope)
    BY <1>4, <2>2
  <2>4. n \in Nat /\ n + 1 \in 0..m
    OBVIOUS
  <2>5. PICK q \in [1..(n + 1) -> usable] :
          /\ IsChain(r, q, n + 1)
          /\ NodeAt(r, q, n + 1) = edges[i].child
          /\ ScopeAt(q, n + 1) = edges[i].scope
    BY <2>2, <2>3, <2>4, ChainGrows
  <2> QED
    BY <2>4, <2>5, InChained
<1> HIDE DEF before
<1>5. Spread(before, usable) \subseteq Chained(usable, t, m)
  BY <1>3, <1>4 DEF Spread
<1> QED
  BY <1>2, <1>5 DEF before

-----------------------------------------------------------------------------
(* The search breadth first *)

IsSearch(f, usable, t, d) ==
  f = [n \in 0..d |-> IF n = 0 THEN FromRoots(t) ELSE Spread(f[n - 1], usable)]

LEMMA ChainedIsSearch ==
  ASSUME NEW usable, NEW t, NEW d \in Nat
  PROVE  IsSearch([n \in 0..d |-> Chained(usable, t, n)], usable, t, d)
<1> DEFINE f == [n \in 0..d |-> Chained(usable, t, n)]
<1>1. ASSUME NEW n \in 0..d
      PROVE  Chained(usable, t, n) = IF n = 0 THEN FromRoots(t) ELSE Spread(f[n - 1], usable)
  <2>1. CASE n = 0
    BY <2>1, ChainedBase
  <2>2. CASE n # 0
    <3>1. n \in Nat /\ n - 1 \in 0..d
      BY <2>2
    <3>2. f[n - 1] = Chained(usable, t, n - 1)
      BY <3>1
    <3> HIDE DEF f
    <3> QED
      BY <2>2, <3>1, <3>2, ChainedStep
  <2> QED
    BY <2>1, <2>2
<1>2. f = [n \in 0..d |-> IF n = 0 THEN FromRoots(t) ELSE Spread(f[n - 1], usable)]
  BY <1>1, Zenon
<1> QED
  BY <1>2 DEF IsSearch

LEMMA SearchIsChained ==
  ASSUME NEW usable, NEW t, NEW d \in Nat, NEW f, IsSearch(f, usable, t, d)
  PROVE  \A n \in 0..d : f[n] = Chained(usable, t, n)
<1> DEFINE S == {n \in Nat : n <= d => f[n] = Chained(usable, t, n)}
<1>0. \A n \in 0..d : f[n] = IF n = 0 THEN FromRoots(t) ELSE Spread(f[n - 1], usable)
  BY DEF IsSearch
<1>1. ASSUME NEW n \in Nat, \A m \in 0..(n - 1) : m \in S PROVE n \in S
  <2> SUFFICES ASSUME n <= d PROVE f[n] = Chained(usable, t, n)
    OBVIOUS
  <2>1. n \in 0..d
    OBVIOUS
  <2>2. CASE n = 0
    BY <1>0, <2>1, <2>2, ChainedBase
  <2>3. CASE n # 0
    <3>1. n - 1 \in 0..(n - 1) /\ n - 1 <= d
      BY <2>3
    <3>2. f[n - 1] = Chained(usable, t, n - 1)
      BY <1>1, <3>1
    <3> QED
      BY <1>0, <2>1, <2>3, <3>2, ChainedStep
  <2> QED
    BY <2>2, <2>3
<1>2. Nat \subseteq S
  <2> HIDE DEF S
  <2> QED
    BY <1>1, CompleteInduction
<1> QED
  BY <1>2

\* What the search holds is what the chains end in.
LEMMA HeldIsChained ==
  ASSUME Typed, NEW usable, NEW t
  PROVE  HeldThrough(usable, t) = Chained(usable, t, Len(edges))
<1> DEFINE d == Len(edges)
           held[n \in 0..d] ==
             IF n = 0
             THEN {<<r, Unconstrained>> : r \in {r \in Roots : AcceptsRoot(r, t)}}
             ELSE held[n - 1]
                    \cup UNION {{<<edges[i].child, edges[i].scope>> :
                                   h \in {h \in held[n - 1] :
                                            /\ h[1] = edges[i].parent
                                            /\ Admits(h[2], edges[i].scope)}} :
                                i \in usable}
           f == [n \in 0..d |-> Chained(usable, t, n)]
<1>1. d \in Nat
  BY DEF Typed
<1>2. HeldThrough(usable, t) = held[d]
  BY DEF HeldThrough
<1>3. IsSearch(f, usable, t, d)
  <2> HIDE DEF f, held, d
  <2> QED
    BY <1>1, ChainedIsSearch DEF f
<1>4. \E g : g = [n \in 0..d |->
              IF n = 0
             THEN {<<r, Unconstrained>> : r \in {r \in Roots : AcceptsRoot(r, t)}}
             ELSE g[n - 1]
                    \cup UNION {{<<edges[i].child, edges[i].scope>> :
                                   h \in {h \in g[n - 1] :
                                            /\ h[1] = edges[i].parent
                                            /\ Admits(h[2], edges[i].scope)}} :
                                i \in usable}]
  <2> HIDE DEF f, d
  <2> QED
    BY <1>3 DEF IsSearch, Spread, FromRoots
<1>5. held = [n \in 0..d |->
              IF n = 0
             THEN {<<r, Unconstrained>> : r \in {r \in Roots : AcceptsRoot(r, t)}}
             ELSE held[n - 1]
                    \cup UNION {{<<edges[i].child, edges[i].scope>> :
                                   h \in {h \in held[n - 1] :
                                            /\ h[1] = edges[i].parent
                                            /\ Admits(h[2], edges[i].scope)}} :
                                i \in usable}]
  <2> HIDE DEF d
  <2> QED
    BY <1>4, Zenon
<1>6. IsSearch(held, usable, t, d)
  <2> HIDE DEF held, d
  <2> QED
    BY <1>5 DEF IsSearch, Spread, FromRoots
<1>7. d \in 0..d
  BY <1>1
<1> HIDE DEF held, f
<1> QED
  BY <1>1, <1>2, <1>6, <1>7, SearchIsChained

\* add_edge refuses contradictory scopes.
NoContradiction == \A i \in DOMAIN edges : ~IsContradiction(edges[i].scope)

LEMMA NeverContradicts == GraphSpec => []NoContradiction
<1>1. GraphInit => NoContradiction
  BY DEF GraphInit, NoContradiction
<1>2. ASSUME GraphTypeOK, NoContradiction, [GraphNext]_graphVars PROVE NoContradiction'
  <2>1. ASSUME NEW cred \in Credential, AddEdge(cred) PROVE NoContradiction'
    <3>1. /\ edges \in Seq(Credential)
          /\ edges' = Append(edges, cred)
          /\ ~IsContradiction(cred.scope)
      BY <1>2, <2>1 DEF AddEdge, GraphTypeOK
    <3>2. \A i \in DOMAIN edges' : (i \in DOMAIN edges /\ edges'[i] = edges[i]) \/ edges'[i] = cred
      BY <3>1
    <3> QED
      BY <1>2, <3>1, <3>2 DEF NoContradiction
  <2>2. CASE edges' = edges
    BY <1>2, <2>2 DEF NoContradiction
  <2> QED
    BY <1>2, <2>1, <2>2, EveryStep DEF AddNode, RegisterKey
<1> QED
  BY <1>1, <1>2, TypeCorrect, PTL DEF GraphSpec

Sound == Typed /\ NoContradiction

LEMMA EdgesTyped ==
  ASSUME Typed, NEW i \in DOMAIN edges
  PROVE  /\ edges[i] \in Credential
         /\ edges[i].parent \in NodeId
         /\ edges[i].child \in NodeId
         /\ edges[i].scope \in DelegationScope
<1>1. edges[i] \in Credential
  BY DEF Typed
<1> QED
  BY <1>1, CredentialAssumption

-----------------------------------------------------------------------------
(* The scope narrowed along a path *)

Narrowed(p, n) == IF Unwidened(p, n) THEN ScopeAt(p, n) ELSE Refused

NarrowedNext(before, p, n) ==
  IF n = 0 THEN Unconstrained
  ELSE IF before = Refused THEN Refused
  ELSE Narrow(before, edges[p[n]].scope)

IsFold(f, p, d) == f = [n \in 0..d |-> NarrowedNext(f[n - 1], p, n)]

LEMMA ScopesTyped ==
  ASSUME Typed, NEW d \in Nat, NEW p \in [1..d -> DOMAIN edges], NEW n \in 0..d
  PROVE  ScopeAt(p, n) \in DelegationScope /\ ScopeAt(p, n) # Refused
<1>1. ScopeAt(p, n) \in DelegationScope
  <2>1. CASE n = 0
    BY <2>1, UnconstrainedScope DEF ScopeAt
  <2>2. CASE n # 0
    <3>1. p[n] \in DOMAIN edges
      BY <2>2
    <3> QED
      BY <2>2, <3>1, EdgesTyped DEF ScopeAt
  <2> QED
    BY <2>1, <2>2
<1> QED
  BY <1>1, WildcardAssumption

LEMMA NarrowedStep ==
  ASSUME Sound, NEW d \in Nat, NEW p \in [1..d -> DOMAIN edges], NEW n \in 0..d
  PROVE  Narrowed(p, n) = NarrowedNext(Narrowed(p, n - 1), p, n)
<1>1. CASE n = 0
  BY <1>1 DEF Narrowed, NarrowedNext, Unwidened, ScopeAt
<1>2. CASE n # 0
  <2>1. n - 1 \in 0..d /\ n \in 1..d /\ p[n] \in DOMAIN edges
    BY <1>2
  <2>2. ScopeAt(p, n - 1) \in DelegationScope /\ ScopeAt(p, n - 1) # Refused
    BY <2>1, ScopesTyped DEF Sound
  <2>3. /\ edges[p[n]].scope \in DelegationScope
        /\ ~IsContradiction(edges[p[n]].scope)
    BY <2>1, EdgesTyped DEF Sound, NoContradiction
  <2>4. Narrow(ScopeAt(p, n - 1), edges[p[n]].scope) =
          IF Admits(ScopeAt(p, n - 1), edges[p[n]].scope) THEN edges[p[n]].scope ELSE Refused
    BY <2>2, <2>3, NarrowIsAdmission
  <2>5. Unwidened(p, n) <=>
          Unwidened(p, n - 1) /\ Admits(ScopeAt(p, n - 1), edges[p[n]].scope)
    <3>1. 1..n = 1..(n - 1) \cup {n}
      BY <2>1
    <3> QED
      BY <3>1 DEF Unwidened
  <2>6. ScopeAt(p, n) = edges[p[n]].scope
    BY <1>2 DEF ScopeAt
  <2> QED
    BY <1>2, <2>2, <2>4, <2>5, <2>6 DEF Narrowed, NarrowedNext
<1> QED
  BY <1>1, <1>2

LEMMA FoldIsNarrowed ==
  ASSUME Sound, NEW d \in Nat, NEW p \in [1..d -> DOMAIN edges], NEW f, IsFold(f, p, d)
  PROVE  \A n \in 0..d : f[n] = Narrowed(p, n)
<1> DEFINE S == {n \in Nat : n <= d => f[n] = Narrowed(p, n)}
<1>1. \A n \in 0..d : f[n] = NarrowedNext(f[n - 1], p, n)
  BY DEF IsFold
<1>2. ASSUME NEW n \in Nat, \A m \in 0..(n - 1) : m \in S PROVE n \in S
  <2> SUFFICES ASSUME n <= d PROVE f[n] = Narrowed(p, n)
    OBVIOUS
  <2>1. n \in 0..d
    OBVIOUS
  <2>2. Narrowed(p, n) = NarrowedNext(Narrowed(p, n - 1), p, n)
    BY <2>1, NarrowedStep
  <2>3. CASE n = 0
    BY <1>1, <2>1, <2>2, <2>3 DEF NarrowedNext
  <2>4. CASE n # 0
    <3>1. n - 1 \in 0..(n - 1) /\ n - 1 <= d
      BY <2>4
    <3>2. f[n - 1] = Narrowed(p, n - 1)
      BY <1>2, <3>1
    <3> QED
      BY <1>1, <2>1, <2>2, <3>2
  <2> QED
    BY <2>3, <2>4
<1>3. Nat \subseteq S
  <2> HIDE DEF S
  <2> QED
    BY <1>2, CompleteInduction
<1> QED
  BY <1>3

\* The effective scope is that of the last credential, unless one widens.
LEMMA EffectiveIsNarrowed ==
  ASSUME Sound, NEW d \in Nat, NEW p \in [1..d -> DOMAIN edges]
  PROVE  Effective(p) = Narrowed(p, d)
<1> DEFINE effective[n \in 0..Len(p)] ==
             IF n = 0 THEN Unconstrained
             ELSE IF effective[n - 1] = Refused THEN Refused
             ELSE Narrow(effective[n - 1], edges[p[n]].scope)
           f == [n \in 0..d |-> Narrowed(p, n)]
<1>1. Len(p) = d
  OBVIOUS
<1>2. Effective(p) = effective[Len(p)]
  BY DEF Effective
<1>3. f = [n \in 0..d |-> NarrowedNext(f[n - 1], p, n)]
  <2>1. ASSUME NEW n \in 0..d PROVE Narrowed(p, n) = NarrowedNext(f[n - 1], p, n)
    <3>1. Narrowed(p, n) = NarrowedNext(Narrowed(p, n - 1), p, n)
      BY NarrowedStep
    <3>2. CASE n = 0
      BY <3>1, <3>2 DEF NarrowedNext
    <3>3. CASE n # 0
      <4>1. n - 1 \in 0..d
        BY <3>3
      <4>2. f[n - 1] = Narrowed(p, n - 1)
        BY <4>1
      <4> QED
        BY <3>1, <4>2
    <3> QED
      BY <3>2, <3>3
  <2> QED
    BY <2>1, Zenon
<1>4. \E g : g = [n \in 0..Len(p) |->
                    IF n = 0 THEN Unconstrained
                    ELSE IF g[n - 1] = Refused THEN Refused
                    ELSE Narrow(g[n - 1], edges[p[n]].scope)]
  <2> HIDE DEF f
  <2> QED
    BY <1>1, <1>3 DEF NarrowedNext
<1>5. effective = [n \in 0..Len(p) |->
                    IF n = 0 THEN Unconstrained
                    ELSE IF effective[n - 1] = Refused THEN Refused
                    ELSE Narrow(effective[n - 1], edges[p[n]].scope)]
  BY <1>4, Zenon
<1> HIDE DEF effective
<1>6. IsFold(effective, p, d)
  BY <1>1, <1>5 DEF IsFold, NarrowedNext
<1>7. d \in 0..d
  OBVIOUS
<1>8. effective[d] = Narrowed(p, d)
  BY <1>6, <1>7, FoldIsNarrowed
<1> QED
  BY <1>1, <1>2, <1>8

LEMMA EffectiveOfPath ==
  ASSUME Sound, NEW d \in Nat, NEW p \in [1..d -> DOMAIN edges]
  PROVE  /\ Effective(p) # Refused <=> Unwidened(p, d)
         /\ Unwidened(p, d) => Effective(p) = ScopeAt(p, d)
<1>1. d \in 0..d
  OBVIOUS
<1>2. ScopeAt(p, d) # Refused
  BY <1>1, ScopesTyped DEF Sound
<1> QED
  BY <1>2, EffectiveIsNarrowed DEF Narrowed

-----------------------------------------------------------------------------
(* Paths and chains *)

\* Along linked credentials every node descends from each credential before it.
LEMMA LinksDescend ==
  ASSUME Typed, NEW r, NEW d \in Nat, NEW p \in [1..d -> DOMAIN edges], Linked(r, p, d),
         NEW m \in 1..d
  PROVE  \A n \in m..d : NodeAt(r, p, n) \in Reach(edges[p[m]].child)
<1> DEFINE top == edges[p[m]].child
           S == {n \in Nat : n \in m..d => NodeAt(r, p, n) \in Reach(top)}
<1>1. m \in Nat /\ m # 0 /\ p[m] \in DOMAIN edges
  OBVIOUS
<1>2. top \in NodeId
  BY <1>1, EdgesTyped
<1>3. top \in Reach(top) /\ Closed(Reach(top), edges)
  BY <1>2, ReachIsLeast, ReachIsClosed
<1>4. ASSUME NEW n \in Nat, \A j \in 0..(n - 1) : j \in S PROVE n \in S
  <2> SUFFICES ASSUME n \in m..d PROVE NodeAt(r, p, n) \in Reach(top)
    OBVIOUS
  <2>1. NodeAt(r, p, n) = edges[p[n]].child /\ n \in 1..d /\ p[n] \in DOMAIN edges
    BY <1>1 DEF NodeAt
  <2>2. CASE n = m
    BY <1>3, <2>1, <2>2
  <2>3. CASE n # m
    <3>1. n - 1 \in 0..(n - 1) /\ n - 1 \in m..d
      BY <2>3
    <3>2. NodeAt(r, p, n - 1) \in Reach(top)
      BY <1>4, <3>1
    <3>3. edges[p[n]].parent = NodeAt(r, p, n - 1)
      BY <2>1 DEF Linked
    <3> QED
      BY <1>3, <2>1, <3>2, <3>3 DEF Closed
  <2> QED
    BY <2>2, <2>3
<1>5. Nat \subseteq S
  <2> HIDE DEF S
  <2> QED
    BY <1>4, CompleteInduction
<1> QED
  BY <1>5

\* Hence linked credentials do not come back to a node they left.
LEMMA LinksLeave ==
  ASSUME Typed, Acyclic, NEW r, NEW d \in Nat, NEW p \in [1..d -> DOMAIN edges],
         Linked(r, p, d), NEW m \in 0..(d - 1)
  PROVE  NodeAt(r, p, d) # NodeAt(r, p, m)
<1>1. m + 1 \in 1..d /\ d \in (m + 1)..d /\ (m + 1) - 1 = m /\ p[m + 1] \in DOMAIN edges
  OBVIOUS
<1>2. NodeAt(r, p, d) \in Reach(edges[p[m + 1]].child)
  BY <1>1, LinksDescend
<1>3. edges[p[m + 1]].parent = NodeAt(r, p, m)
  BY <1>1 DEF Linked
<1> QED
  BY <1>1, <1>2, <1>3 DEF Acyclic

LEMMA ChainIsPath ==
  ASSUME Typed, Acyclic, NEW r, NEW d \in Nat, NEW p \in [1..d -> DOMAIN edges],
         IsChain(r, p, d), d <= Len(edges)
  PROVE  p \in Paths(r, NodeAt(r, p, d))
<1>1. p \in UNION {[1..n -> DOMAIN edges] : n \in 0..Len(edges)}
  <2>1. d \in 0..Len(edges)
    BY DEF Typed
  <2> QED
    BY <2>1
<1>2. Len(p) = d
  OBVIOUS
<1>3. CASE d = 0
  <2>1. p = <<>>
    BY <1>3
  <2> QED
    BY <1>1, <1>3, <2>1 DEF Paths, IsPath, NodeAt
<1>4. CASE d # 0
  <2>1. p # <<>>
    <3>1. Len(<<>>) = 0
      OBVIOUS
    <3> QED
      BY <1>2, <1>4, <3>1
  <2>2. NodeAt(r, p, d) # r
    <3>1. 0 \in 0..(d - 1) /\ Linked(r, p, d)
      BY <1>4 DEF IsChain
    <3>2. NodeAt(r, p, d) # NodeAt(r, p, 0)
      BY <3>1, LinksLeave
    <3> QED
      BY <3>2 DEF NodeAt
  <2>3. edges[p[1]].parent = r
    <3>1. 1 \in 1..d /\ 1 - 1 = 0
      BY <1>4
    <3>2. edges[p[1]].parent = NodeAt(r, p, 0)
      BY <3>1 DEF IsChain, Linked, Unwidened
    <3> QED
      BY <3>2 DEF NodeAt
  <2>4. edges[p[Len(p)]].child = NodeAt(r, p, d)
    BY <1>2, <1>4 DEF NodeAt
  <2>5. ASSUME NEW i \in 1..Len(p) - 1
        PROVE  edges[p[i]].child = edges[p[i + 1]].parent
    <3>1. i + 1 \in 1..d /\ (i + 1) - 1 = i /\ i # 0
      BY <1>2
    <3> QED
      BY <3>1 DEF IsChain, Linked, Unwidened, NodeAt
  <2>6. IsPath(p, r, NodeAt(r, p, d))
    BY <2>1, <2>2, <2>3, <2>4, <2>5 DEF IsPath
  <2> QED
    BY <1>1, <2>6 DEF Paths
<1> QED
  BY <1>3, <1>4

\* The credentials of a path are linked.
LEMMA PathIsLinked ==
  ASSUME Typed, NEW r, NEW to, NEW p \in Paths(r, to)
  PROVE  \E d \in 0..Len(edges) :
           /\ p \in [1..d -> DOMAIN edges]
           /\ NodeAt(r, p, d) = to
           /\ Linked(r, p, d)
<1>1. PICK d \in 0..Len(edges) : p \in [1..d -> DOMAIN edges]
  BY DEF Paths
<1>2. IsPath(p, r, to)
  BY DEF Paths
<1>3. d \in Nat /\ Len(p) = d
  BY <1>1 DEF Typed
<1>4. CASE d = 0
  <2>1. p = <<>>
    BY <1>1, <1>4
  <2>2. r = to
    BY <1>2, <2>1 DEF IsPath
  <2> QED
    BY <1>1, <1>4, <2>2 DEF NodeAt, IsChain, Linked, Unwidened
<1>5. CASE d # 0
  <2>1. p # <<>>
    <3>1. Len(<<>>) = 0
      OBVIOUS
    <3> QED
      BY <1>3, <1>5, <3>1
  <2>2. /\ edges[p[1]].parent = r
        /\ edges[p[d]].child = to
        /\ \A i \in 1..d - 1 : edges[p[i]].child = edges[p[i + 1]].parent
    BY <1>2, <1>3, <2>1 DEF IsPath
  <2>3. ASSUME NEW i \in 1..d PROVE edges[p[i]].parent = NodeAt(r, p, i - 1)
    <3>1. CASE i = 1
      BY <2>2, <3>1 DEF NodeAt
    <3>2. CASE i # 1
      <4>1. i - 1 \in 1..d - 1 /\ (i - 1) + 1 = i /\ i - 1 # 0
        BY <1>3, <3>2
      <4> QED
        BY <2>2, <4>1 DEF NodeAt
    <3> QED
      BY <3>1, <3>2
  <2>4. NodeAt(r, p, d) = to
    BY <1>5, <2>2 DEF NodeAt
  <2> QED
    BY <1>1, <2>3, <2>4 DEF IsChain, Linked, Unwidened
<1> QED
  BY <1>4, <1>5

-----------------------------------------------------------------------------
(* resolve and the search agree *)

\* What resolve accepts, the search holds, over whatever credentials the path
\* keeps to.
LEMMA AcceptedIsHeld ==
  ASSUME Sound, NEW k, NEW request, NEW c \in AcceptedPaths(k, request), NEW usable,
         \A i \in DOMAIN c.path : c.path[i] \in usable
  PROVE  \E h \in HeldThrough(usable, request.at) :
           /\ Owners(k) # {}
           /\ h[1] = NodeForKey(k)
           /\ Grants(h[2], request)
<1> DEFINE r == c.root
           p == c.path
           to == NodeForKey(k)
<1>1. /\ c \in Candidates(k)
      /\ AcceptsRoot(r, request.at)
      /\ Effective(p) # Refused
      /\ Grants(Effective(p), request)
  BY DEF AcceptedPaths, Acceptable
<1>2. Owners(k) # {} /\ r \in Roots /\ p \in Paths(r, to)
  BY <1>1 DEF Candidates
<1>3. Typed
  BY DEF Sound
<1> HIDE DEF r, p, to
<1>4. PICK d \in 0..Len(edges) :
        /\ p \in [1..d -> DOMAIN edges]
        /\ NodeAt(r, p, d) = to
        /\ Linked(r, p, d)
  BY <1>2, <1>3, PathIsLinked
<1>5. d \in Nat /\ Len(edges) \in Nat
  BY <1>3 DEF Typed
<1>6. Unwidened(p, d) /\ Effective(p) = ScopeAt(p, d)
  BY <1>1, <1>4, <1>5, EffectiveOfPath
<1>7. p \in [1..d -> usable]
  BY <1>4 DEF p
<1>8. r \in AcceptedRoots(request.at)
  BY <1>1, <1>2 DEF AcceptedRoots
<1> DEFINE h == <<to, ScopeAt(p, d)>>
<1>9. h \in Chained(usable, request.at, Len(edges))
  <2>1. IsChain(r, p, d)
    BY <1>4, <1>6 DEF IsChain
  <2> QED
    BY <1>4, <1>5, <1>7, <1>8, <2>1, InChained
<1>10. h \in HeldThrough(usable, request.at)
  BY <1>3, <1>9, HeldIsChained
<1> QED
  BY <1>1, <1>2, <1>6, <1>10 DEF to

LEMMA HeldIsAccepted ==
  ASSUME Sound, Acyclic, NEW k, NEW request, Owners(k) # {},
         NEW h \in HeldAt(request.at), h[1] = NodeForKey(k), Grants(h[2], request)
  PROVE  Resolves(k, request)
<1>1. Typed /\ Len(edges) \in Nat
  BY DEF Sound, Typed
<1>2. h \in Chained(SignedEdges, request.at, Len(edges))
  BY <1>1, HeldIsChained DEF HeldAt
<1>3. PICK r \in AcceptedRoots(request.at), d \in 0..Len(edges) :
        \E p \in [1..d -> SignedEdges] :
          IsChain(r, p, d) /\ h = <<NodeAt(r, p, d), ScopeAt(p, d)>>
  BY <1>1, <1>2, InChained
<1>4. PICK p \in [1..d -> SignedEdges] :
        IsChain(r, p, d) /\ h = <<NodeAt(r, p, d), ScopeAt(p, d)>>
  BY <1>3
<1>5. d \in Nat /\ d <= Len(edges) /\ p \in [1..d -> DOMAIN edges]
  BY <1>1 DEF SignedEdges
<1>6. p \in Paths(r, NodeForKey(k))
  BY <1>1, <1>4, <1>5, ChainIsPath
<1>7. Effective(p) # Refused /\ Grants(Effective(p), request)
  <2>1. Unwidened(p, d)
    BY <1>4 DEF IsChain, Linked, Unwidened
  <2> QED
    BY <1>4, <1>5, <2>1, EffectiveOfPath
<1>8. ASSUME NEW i \in DOMAIN p PROVE VerifyCredential(edges[p[i]])
  <2>1. p[i] \in SignedEdges
    BY <1>4
  <2>2. p[i] \in DOMAIN edges /\ SignedFor(edges[p[i]])
    BY <2>1 DEF SignedEdges
  <2>3. edges[p[i]] \in Credential /\ nodes[edges[p[i]].parent] # None
    BY <1>1, <2>2 DEF Typed
  <2> QED
    BY <1>1, <2>2, <2>3, VerifyIsSigned
<1>9. Acceptable(r, p, request)
  BY <1>7, <1>8 DEF Acceptable, AcceptedRoots
<1> DEFINE c == [root |-> r, path |-> p]
<1>10. c \in Candidates(k)
  BY <1>6 DEF Candidates, AcceptedRoots
<1>11. c \in AcceptedPaths(k, request)
  BY <1>9, <1>10 DEF AcceptedPaths
<1> QED
  BY <1>11 DEF Resolves

LEMMA AcceptedIsSigned ==
  ASSUME Sound, NEW k, NEW request, NEW c \in AcceptedPaths(k, request)
  PROVE  \A i \in DOMAIN c.path : c.path[i] \in SignedEdges
<1> SUFFICES ASSUME NEW i \in DOMAIN c.path PROVE c.path[i] \in SignedEdges
  OBVIOUS
<1>1. VerifyCredential(edges[c.path[i]])
  BY DEF AcceptedPaths, Acceptable
<1>2. c.path[i] \in DOMAIN edges
  <2>1. c.path \in Paths(c.root, NodeForKey(k))
    BY DEF AcceptedPaths, Candidates
  <2> QED
    BY <2>1 DEF Paths
<1>3. edges[c.path[i]] \in Credential /\ nodes[edges[c.path[i]].parent] # None
  BY <1>2 DEF Sound, Typed
<1>4. SignedFor(edges[c.path[i]])
  BY <1>1, <1>3, VerifyIsSigned DEF Sound
<1> QED
  BY <1>2, <1>4 DEF SignedEdges

LEMMA GraphIsSound == GraphSpec => [](GraphTypeOK /\ Acyclic /\ NoContradiction)
BY TypeCorrect, StaysAcyclic, NeverContradicts, PTL

\* resolve neither misses an authority nor invents one.
THEOREM ResolvesExactly == GraphSpec => []ResolveIsExact
<1>1. ASSUME GraphTypeOK, Acyclic, NoContradiction PROVE ResolveIsExact
  <2>1. Sound /\ Typed
    BY <1>1 DEF Sound, Typed, GraphTypeOK
  <2>2. ASSUME NEW k \in Key, NEW request \in Requests, Resolves(k, request)
        PROVE  \E h \in HeldAt(request.at) :
                 Owners(k) # {} /\ h[1] = NodeForKey(k) /\ Grants(h[2], request)
    <3>1. PICK c : c \in AcceptedPaths(k, request)
      BY <2>2 DEF Resolves
    <3> QED
      BY <2>1, <3>1, AcceptedIsSigned, AcceptedIsHeld DEF HeldAt
  <2>3. ASSUME NEW k \in Key, NEW request \in Requests, NEW h \in HeldAt(request.at),
               Owners(k) # {}, h[1] = NodeForKey(k), Grants(h[2], request)
        PROVE  Resolves(k, request)
    BY <1>1, <2>1, <2>3, HeldIsAccepted
  <2> QED
    BY <2>2, <2>3 DEF ResolveIsExact
<1> QED
  BY <1>1, GraphIsSound, PTL

-----------------------------------------------------------------------------
(* The first path *)

\* No path goes on from the end of another: it would come back to its end.
LEMMA NoPathGoesOn ==
  ASSUME Typed, Acyclic, NEW r, NEW to, NEW d \in 0..Len(edges), NEW e \in 0..Len(edges),
         NEW p \in [1..d -> DOMAIN edges], NEW q \in [1..e -> DOMAIN edges],
         NodeAt(r, p, d) = to, NodeAt(r, q, e) = to, Linked(r, q, e), d <= e,
         \A i \in 1..d : p[i] = q[i]
  PROVE  d = e /\ p = q
<1>1. d \in Nat /\ e \in Nat /\ d \in Nat
  BY DEF Typed
<1>2. ASSUME d < e PROVE FALSE
  <2>1. d \in 0..(e - 1)
    BY <1>1, <1>2
  <2>2. NodeAt(r, q, d) = to
    <3>1. CASE d = 0
      BY <3>1 DEF NodeAt
    <3>2. CASE d # 0
      <4>1. d \in 1..d
        BY <1>1, <3>2
      <4> QED
        BY <3>2, <4>1 DEF NodeAt
    <3> QED
      BY <3>1, <3>2
  <2> QED
    BY <1>1, <2>1, <2>2, LinksLeave
<1>3. d = e
  BY <1>1, <1>2
<1> QED
  BY <1>3

LEMMA PathsDiffer ==
  ASSUME Typed, Acyclic, NEW r, NEW to, NEW p \in Paths(r, to), NEW q \in Paths(r, to), p # q
  PROVE  \E i \in DOMAIN p \cap DOMAIN q : p[i] # q[i]
<1>1. PICK d \in 0..Len(edges) :
        p \in [1..d -> DOMAIN edges] /\ NodeAt(r, p, d) = to /\ Linked(r, p, d)
  BY PathIsLinked
<1>2. PICK e \in 0..Len(edges) :
        q \in [1..e -> DOMAIN edges] /\ NodeAt(r, q, e) = to /\ Linked(r, q, e)
  BY PathIsLinked
<1>3. d \in Nat /\ e \in Nat /\ DOMAIN p = 1..d /\ DOMAIN q = 1..e
  BY <1>1, <1>2 DEF Typed
<1>4. SUFFICES ASSUME \A i \in DOMAIN p \cap DOMAIN q : p[i] = q[i] PROVE FALSE
  OBVIOUS
<1>5. CASE d <= e
  <2>1. \A i \in 1..d : p[i] = q[i]
    BY <1>3, <1>4, <1>5
  <2>2. p = q
    BY <1>1, <1>2, <1>5, <2>1, NoPathGoesOn
  <2> QED
    BY <2>2
<1>6. CASE e <= d
  <2>1. \A i \in 1..e : q[i] = p[i]
    BY <1>3, <1>4, <1>6
  <2>2. q = p
    BY <1>1, <1>2, <1>6, <2>1, NoPathGoesOn
  <2> QED
    BY <2>2
<1> QED
  BY <1>3, <1>5, <1>6

\* The paths that agree with p up to a position.
Agree(p, q, m) == \A j \in DOMAIN p \cap DOMAIN q : j <= m => p[j] = q[j]

\* p comes before the paths that differ from it up to a position.
Leads(p, C, m) == \A q \in C : Precedes(p, q) \/ Agree(p, q, m)

LEMMA PathIsNumbers ==
  ASSUME Typed, NEW r, NEW to, NEW p \in Paths(r, to)
  PROVE  \E d \in Nat : d <= Len(edges) /\ DOMAIN p = 1..d /\ \A i \in 1..d : p[i] \in Nat
<1>1. PICK d \in 0..Len(edges) : p \in [1..d -> DOMAIN edges]
  BY PathIsLinked
<1>2. Len(edges) \in Nat /\ DOMAIN edges \subseteq Nat
  BY DEF Typed
<1> QED
  BY <1>1, <1>2

LEMMA LeadGoesOn ==
  ASSUME Typed, Acyclic, NEW r, NEW to, NEW C, C \subseteq Paths(r, to), NEW m \in Nat,
         NEW p \in C, Leads(p, C, m)
  PROVE  \E f \in C : Leads(f, C, m + 1)
<1> DEFINE D == {q \in C : Agree(p, q, m)}
           N == {q[m + 1] : q \in {q \in D : m + 1 \in DOMAIN q}}
<1>1. PICK d \in Nat : DOMAIN p = 1..d /\ \A i \in 1..d : p[i] \in Nat
  BY PathIsNumbers
<1>2. \A q \in C : \E e \in Nat : DOMAIN q = 1..e /\ \A i \in 1..e : q[i] \in Nat
  BY PathIsNumbers
<1>3. CASE m + 1 \notin DOMAIN p
  <2>1. \A q \in C : Agree(p, q, m) => Agree(p, q, m + 1)
    BY <1>1, <1>2, <1>3 DEF Agree
  <2> QED
    BY <2>1 DEF Leads
<1>4. CASE m + 1 \in DOMAIN p
  <2>1. p \in D
    BY DEF Agree
  <2>2. N # {} /\ N \subseteq Nat
    BY <1>2, <1>4, <2>1
  <2>3. PICK n \in N : \A x \in N : n <= x
    <3> HIDE DEF N
    <3> QED
      BY <2>2, LeastNumber
  <2>4. PICK f \in D : m + 1 \in DOMAIN f /\ f[m + 1] = n
    OBVIOUS
  <2>5. PICK e \in Nat : DOMAIN f = 1..e /\ \A i \in 1..e : f[i] \in Nat
    BY <1>2
  <2>6. \A j \in 1..m : j \in DOMAIN p /\ j \in DOMAIN f /\ p[j] = f[j]
    <3>1. Agree(p, f, m)
      BY <2>4
    <3>2. m + 1 \in 1..d /\ m + 1 \in 1..e
      BY <1>1, <1>4, <2>4, <2>5
    <3>3. \A j \in 1..m : j \in 1..d /\ j \in 1..e /\ j <= m
      BY <3>2
    <3> QED
      BY <1>1, <2>5, <3>1, <3>3 DEF Agree
  <2>7. ASSUME NEW q \in C PROVE Precedes(f, q) \/ Agree(f, q, m + 1)
    <3>1. PICK b \in Nat : DOMAIN q = 1..b /\ \A i \in 1..b : q[i] \in Nat
      BY <1>2
    <3>2. CASE Agree(p, q, m)
      <4>1. \A j \in 1..m : j \in DOMAIN q => f[j] = q[j]
        BY <2>6, <3>2 DEF Agree
      <4>2. CASE m + 1 \notin DOMAIN q
        BY <2>5, <3>1, <4>1, <4>2 DEF Agree
      <4>3. CASE m + 1 \in DOMAIN q
        <5>1. q[m + 1] \in N /\ q[m + 1] \in Nat /\ f[m + 1] \in Nat
          BY <2>4, <2>5, <3>1, <3>2, <4>3
        <5>2. f[m + 1] <= q[m + 1]
          BY <2>3, <2>4, <5>1
        <5>3. \A j \in 1..m : j \in DOMAIN q
          BY <3>1, <4>3
        <5>4. CASE f[m + 1] = q[m + 1]
          <6>1. \A j \in DOMAIN f \cap DOMAIN q : j <= m + 1 => j \in 1..m \/ j = m + 1
            BY <2>5, <3>1
          <6> QED
            BY <4>1, <5>4, <6>1 DEF Agree
        <5>5. CASE f[m + 1] < q[m + 1]
          <6>1. m + 1 \in DOMAIN f \cap DOMAIN q /\ 1..(m + 1) - 1 = 1..m
            BY <2>4, <4>3
          <6>2. \A j \in 1..(m + 1) - 1 : f[j] = q[j]
            BY <4>1, <5>3, <6>1
          <6> QED
            BY <5>5, <6>1, <6>2 DEF Precedes
        <5> QED
          BY <5>1, <5>2, <5>4, <5>5
      <4> QED
        BY <4>2, <4>3
    <3>3. CASE ~Agree(p, q, m)
      <4>1. PICK i \in DOMAIN p \cap DOMAIN q : p[i] < q[i] /\ \A j \in 1..i - 1 : p[j] = q[j]
        BY <3>3 DEF Leads, Precedes
      <4>2. i <= m
        <5>1. ASSUME ~(i <= m) PROVE Agree(p, q, m)
          <6>1. \A j \in DOMAIN p \cap DOMAIN q : j <= m => j \in 1..i - 1
            BY <1>1, <3>1, <4>1, <5>1
          <6> QED
            BY <4>1, <6>1 DEF Agree
        <5> QED
          BY <3>3, <5>1
      <4>3. i \in 1..m /\ \A j \in 1..i - 1 : j \in 1..m
        BY <1>1, <4>1, <4>2
      <4>4. i \in DOMAIN f \cap DOMAIN q /\ f[i] < q[i] /\ \A j \in 1..i - 1 : f[j] = q[j]
        BY <2>6, <4>1, <4>3
      <4> QED
        BY <4>4 DEF Precedes
    <3> QED
      BY <3>2, <3>3
  <2> QED
    BY <2>7 DEF Leads
<1> QED
  BY <1>3, <1>4

LEMMA FirstPathExists ==
  ASSUME Typed, Acyclic, NEW r, NEW to, NEW C, C \subseteq Paths(r, to), C # {}
  PROVE  \E p \in C : \A q \in C : p = q \/ Precedes(p, q)
<1> DEFINE S == {m \in Nat : \E p \in C : Leads(p, C, m)}
<1>1. ASSUME NEW m \in Nat, \A j \in 0..(m - 1) : j \in S PROVE m \in S
  <2>1. CASE m = 0
    <3>1. PICK p : p \in C
      OBVIOUS
    <3>2. \A q \in C : Agree(p, q, 0)
      <4>1. \A q \in C : \E e \in Nat : DOMAIN q = 1..e
        BY PathIsNumbers
      <4>2. \A q \in C : \A j \in DOMAIN q : ~(j <= 0)
        BY <4>1
      <4> QED
        BY <4>2 DEF Agree
    <3> QED
      BY <2>1, <3>1, <3>2 DEF Leads
  <2>2. CASE m # 0
    <3>1. m - 1 \in 0..(m - 1) /\ m - 1 \in Nat /\ (m - 1) + 1 = m
      BY <2>2
    <3>2. PICK p \in C : Leads(p, C, m - 1)
      BY <1>1, <3>1
    <3> QED
      BY <3>1, <3>2, LeadGoesOn
  <2> QED
    BY <2>1, <2>2
<1>2. Nat \subseteq S
  <2> HIDE DEF S
  <2> QED
    BY <1>1, CompleteInduction
<1>3. Len(edges) \in Nat
  BY DEF Typed
<1>4. PICK p \in C : Leads(p, C, Len(edges))
  BY <1>2, <1>3
<1>5. ASSUME NEW q \in C, ~Precedes(p, q), p # q PROVE FALSE
  <2>1. Agree(p, q, Len(edges))
    BY <1>4, <1>5 DEF Leads
  <2>2. PICK i \in DOMAIN p \cap DOMAIN q : p[i] # q[i]
    BY <1>5, PathsDiffer
  <2>3. PICK d \in Nat : d <= Len(edges) /\ DOMAIN p = 1..d
    BY PathIsNumbers
  <2>4. i <= Len(edges)
    BY <1>3, <2>2, <2>3
  <2> QED
    BY <2>1, <2>2, <2>4 DEF Agree
<1> QED
  BY <1>5

\* What resolve may return has a first: the roots are ordered by their ids and
\* the paths of one by their credentials.
LEMMA FirstExists ==
  ASSUME Typed, Acyclic, NEW k, NEW request, AcceptedPaths(k, request) # {}
  PROVE  \E c \in AcceptedPaths(k, request) : IsFirst(c, AcceptedPaths(k, request))
<1> DEFINE A == AcceptedPaths(k, request)
           to == NodeForKey(k)
           R == {c.root : c \in A}
<1>1. \A c \in A : /\ c.root \in Nat
                   /\ c.path \in Paths(c.root, to)
                   /\ c = [root |-> c.root, path |-> c.path]
  BY NodeAssumption DEF AcceptedPaths, Candidates, Roots
<1>2. R # {} /\ R \subseteq Nat
  BY <1>1
<1> HIDE DEF A, to
<1>3. PICK r \in R : \A x \in R : r <= x
  <2> HIDE DEF R
  <2> QED
    BY <1>2, LeastNumber
<1> DEFINE C == {c.path : c \in {c \in A : c.root = r}}
<1>4. C # {} /\ C \subseteq Paths(r, to)
  BY <1>1
<1>5. PICK p \in C : \A q \in C : p = q \/ Precedes(p, q)
  <2> HIDE DEF C
  <2> QED
    BY <1>4, FirstPathExists
<1>6. PICK c \in A : c.root = r /\ c.path = p
  OBVIOUS
<1>7. ASSUME NEW e \in A PROVE c = e \/ Before(c, e)
  <2>1. r <= e.root /\ r \in Nat /\ e.root \in Nat
    BY <1>1, <1>2, <1>3
  <2>2. CASE e.root = r
    <3>1. e.path \in C
      BY <2>2
    <3> QED
      BY <1>1, <1>5, <1>6, <2>2, <3>1 DEF Before
  <2>3. CASE e.root # r
    <3>1. r < e.root
      BY <2>1, <2>3
    <3> QED
      BY <1>6, <3>1 DEF Before
  <2> QED
    BY <2>2, <2>3
<1> QED
  BY <1>6, <1>7 DEF A, IsFirst

FirstAlways ==
  \A k, request : AcceptedPaths(k, request) # {} =>
    \E c \in AcceptedPaths(k, request) : IsFirst(c, AcceptedPaths(k, request))

LEMMA FirstAlwaysExists == GraphTypeOK /\ Acyclic => FirstAlways
BY FirstExists DEF FirstAlways, Typed, GraphTypeOK

-----------------------------------------------------------------------------
(* Growth *)

EffectiveKnown ==
  \A d \in Nat : \A p \in [1..d -> DOMAIN edges] : Effective(p) = Narrowed(p, d)

LEMMA EffectiveIsKnown == GraphTypeOK /\ NoContradiction => EffectiveKnown
BY EffectiveIsNarrowed DEF Sound, Typed, GraphTypeOK, EffectiveKnown

\* What grew: nodes keep their kind, threshold and keys, and edges their place.
Grown ==
  /\ \A n \in NodeId : nodes[n] # None =>
       /\ nodes'[n] # None
       /\ nodes'[n].kind = nodes[n].kind
       /\ nodes'[n].threshold = nodes[n].threshold
       /\ nodes[n].keys \subseteq nodes'[n].keys
  /\ DOMAIN edges \subseteq DOMAIN edges'
  /\ Len(edges) <= Len(edges')
  /\ \A i \in DOMAIN edges : edges'[i] = edges[i]

LEMMA StepsGrow ==
  ASSUME Typed, [GraphNext]_graphVars
  PROVE  Grown
<1>0. Len(edges) \in Nat /\ edges \in Seq(Credential)
  BY DEF Typed
<1>1. ASSUME NEW node \in Node, AddNode(node) PROVE Grown
  <2>1. node.id \in NodeId /\ edges' = edges
    BY <1>1, NodeAssumption DEF AddNode, DelegationNode
  <2>2. \A n \in NodeId : nodes[n] # None => nodes'[n] = nodes[n]
    BY <1>1, <2>1 DEF AddNode, Typed
  <2> QED
    BY <1>0, <2>1, <2>2 DEF Grown
<1>2. ASSUME NEW r \in Registration, RegisterKey(r[1], r[2]) PROVE Grown
  <2>1. r[1] \in NodeId /\ edges' = edges
    BY <1>2, BundleAssumption DEF RegisterKey
  <2>2. nodes[r[1]] \in DelegationNode
    BY <1>2, <2>1 DEF RegisterKey, Typed
  <2> DEFINE new == [nodes[r[1]] EXCEPT !.keys = @ \cup {r[2]}]
  <2>3. nodes' = [nodes EXCEPT ![r[1]] = new]
    BY <1>2 DEF RegisterKey
  <2>4. /\ new.kind = nodes[r[1]].kind
        /\ new.threshold = nodes[r[1]].threshold
        /\ nodes[r[1]].keys \subseteq new.keys
    BY <2>2 DEF DelegationNode
  <2>5. new # None
    <3>1. nodes'[r[1]] = new
      BY <2>1, <2>3 DEF Typed
    <3>2. Typed'
      BY <1>2, <2>1, BundleAssumption, RegisterTyped
    <3>3. new \in [id : NodeId, kind : NodeKind, threshold : Nat, keys : SUBSET Key]
      BY <2>2, BundleAssumption DEF DelegationNode
    <3> QED
      BY <3>3, NodeAssumption DEF DelegationNode
  <2> HIDE DEF new
  <2>6. \A n \in NodeId : nodes'[n] = IF n = r[1] THEN new ELSE nodes[n]
    BY <2>1, <2>3 DEF Typed
  <2> QED
    BY <1>0, <2>1, <2>4, <2>5, <2>6 DEF Grown
<1>3. ASSUME NEW cred \in Credential, AddEdge(cred) PROVE Grown
  <2>1. nodes' = nodes /\ edges' = Append(edges, cred)
    BY <1>3 DEF AddEdge
  <2>2. /\ DOMAIN edges \subseteq DOMAIN edges'
        /\ Len(edges) <= Len(edges')
        /\ \A i \in DOMAIN edges : edges'[i] = edges[i]
    BY <1>0, <2>1
  <2> QED
    BY <2>1, <2>2 DEF Grown
<1>4. ASSUME UNCHANGED <<nodes, edges>> PROVE Grown
  BY <1>0, <1>4 DEF Grown
<1> QED
  BY <1>1, <1>2, <1>3, <1>4, EveryStep

FinitelyVerified == \A cred \in Credential : IsFiniteSet(VerifiedKeys(cred))

LEMMA VerifiedAreFinite == FinitelyVerified
BY VerifiedIsFinite DEF FinitelyVerified

LEMMA VerifiedStays ==
  ASSUME Typed, Typed', Grown, NEW cred \in Credential, nodes[cred.parent] # None,
         VerifyCredential(cred)
  PROVE  VerifyCredential(cred)'
<1>1. /\ nodes'[cred.parent].kind = nodes[cred.parent].kind
      /\ nodes'[cred.parent].threshold = nodes[cred.parent].threshold
      /\ nodes[cred.parent].keys \subseteq nodes'[cred.parent].keys
      /\ nodes[cred.parent].threshold \in Nat
  BY CredentialAssumption DEF Grown, Typed, DelegationNode
<1> DEFINE named == {cred.signatures[i].key :
                       i \in {i \in DOMAIN cred.signatures : cred.signatures[i].valid}}
           V == named \cap nodes[cred.parent].keys
           W == named \cap nodes'[cred.parent].keys
<1>2. V \subseteq W
  BY <1>1
<1>3. IsFiniteSet(VerifiedKeys(cred)) /\ IsFiniteSet(VerifiedKeys(cred)')
  <2>1. IsFiniteSet(VerifiedKeys(cred))
    BY VerifiedIsFinite
  <2>2. FinitelyVerified'
    BY VerifiedAreFinite, PTL
  <2> QED
    BY <2>1, <2>2 DEF FinitelyVerified
<1>4. IsFiniteSet(V) /\ IsFiniteSet(W)
  BY <1>3 DEF VerifiedKeys
<1>5. VerifyCredential(cred) <=>
        IF nodes[cred.parent].kind = "group"
        THEN Cardinality(V) >= nodes[cred.parent].threshold
        ELSE V # {}
  BY DEF VerifyCredential
<1>6. VerifyCredential(cred)' <=>
        IF nodes'[cred.parent].kind = "group"
        THEN Cardinality(W) >= nodes'[cred.parent].threshold
        ELSE W # {}
  BY DEF VerifyCredential
<1> HIDE DEF V, W, named
<1>7. Cardinality(V) <= Cardinality(W) /\ Cardinality(V) \in Nat /\ Cardinality(W) \in Nat
  BY <1>2, <1>4, FS_Subset, FS_CardinalityType
<1> QED
  BY <1>1, <1>2, <1>5, <1>6, <1>7

\* A path that was acceptable is acceptable still.
LEMMA AcceptedStays ==
  ASSUME GraphTypeOK, NoContradiction, GraphTypeOK', NoContradiction', [GraphNext]_graphVars,
         UNCHANGED <<lists, attested>>,
         NEW k, NEW request, NodeForKey(k)' = NodeForKey(k),
         NEW c \in AcceptedPaths(k, request)
  PROVE  /\ c \in AcceptedPaths(k, request)'
         /\ Effective(c.path)' = Effective(c.path)
<1> DEFINE r == c.root
           p == c.path
           to == NodeForKey(k)
<1>1. Typed /\ Typed' /\ Grown
  BY StepsGrow DEF GraphTypeOK, Typed
<1>2. /\ c \in Candidates(k)
      /\ AcceptsRoot(r, request.at)
      /\ \A i \in DOMAIN p : VerifyCredential(edges[p[i]])
      /\ Effective(p) # Refused
      /\ Grants(Effective(p), request)
  BY DEF AcceptedPaths, Acceptable
<1>3. Owners(k) # {} /\ r \in Roots /\ p \in Paths(r, to) /\ c = [root |-> r, path |-> p]
  BY <1>2 DEF Candidates
<1>4. Owners(k)' # {} /\ r \in Roots'
  BY <1>1, <1>3 DEF Owners, Roots, Grown
<1> HIDE DEF r, p, to
<1>5. PICK d \in 0..Len(edges) : p \in [1..d -> DOMAIN edges]
  BY <1>3 DEF Paths
<1>6. d \in Nat /\ d \in 0..Len(edges') /\ p \in [1..d -> DOMAIN edges'] /\ Len(p) = d
  <2>1. Len(edges) \in Nat /\ Len(edges') \in Nat /\ Len(edges) <= Len(edges')
    BY <1>1 DEF Typed, Grown
  <2>2. DOMAIN edges \subseteq DOMAIN edges'
    BY <1>1 DEF Grown
  <2> QED
    BY <1>5, <2>1, <2>2
<1>7. \A i \in 1..d : p[i] \in DOMAIN edges /\ edges'[p[i]] = edges[p[i]]
  BY <1>1, <1>5 DEF Grown
<1>8. p \in Paths(r, to)'
  <2>1. IsPath(p, r, to)
    BY <1>3 DEF Paths
  <2>2. p # <<>> => 1 \in 1..d /\ d \in 1..d
    <3>1. ASSUME d = 0 PROVE p = <<>>
      BY <1>5, <3>1
    <3> QED
      BY <1>6, <3>1
  <2>3. \A i \in 1..d - 1 : i \in 1..d /\ i + 1 \in 1..d
    BY <1>6
  <2>4. IsPath(p, r, to)'
    BY <1>3, <1>6, <1>7, <2>1, <2>2, <2>3 DEF IsPath, to
  <2>5. p \in UNION {[1..n -> DOMAIN edges'] : n \in 0..Len(edges')}
    BY <1>6
  <2>6. to' = to
    BY DEF to
  <2> QED
    BY <2>4, <2>5, <2>6 DEF Paths
<1>9. Effective(p)' = Effective(p)
  <2>1. EffectiveKnown
    BY EffectiveIsKnown
  <2>2. EffectiveKnown'
    BY EffectiveIsKnown, PTL
  <2>3. Effective(p) = Narrowed(p, d)
    BY <1>5, <1>6, <2>1 DEF EffectiveKnown
  <2>4. Effective(p)' = Narrowed(p, d)'
    BY <1>6, <2>2 DEF EffectiveKnown
  <2>5. \A i \in 0..d : ScopeAt(p, i)' = ScopeAt(p, i)
    BY <1>6, <1>7 DEF ScopeAt
  <2>6. \A i \in 1..d : i - 1 \in 0..d
    BY <1>6
  <2>7. Unwidened(p, d)' <=> Unwidened(p, d)
    BY <1>7, <2>5, <2>6 DEF Unwidened
  <2>8. d \in 0..d
    BY <1>6
  <2> QED
    BY <2>3, <2>4, <2>5, <2>7, <2>8 DEF Narrowed
<1>10. ASSUME NEW i \in DOMAIN p PROVE VerifyCredential(edges[p[i]])'
  <2> DEFINE cred == edges[p[i]]
  <2>1. i \in 1..d /\ p[i] \in DOMAIN edges /\ edges'[p[i]] = cred
    BY <1>5, <1>7
  <2>2. cred \in Credential /\ nodes[cred.parent] # None
    BY <1>1, <2>1 DEF Typed
  <2>3. VerifyCredential(cred)
    BY <1>2 DEF p
  <2>4. \E x : x = cred
    OBVIOUS
  <2> HIDE DEF cred
  <2>5. PICK x : x = cred
    BY <2>4
  <2>6. VerifyCredential(x)'
    BY <1>1, <2>2, <2>3, <2>5, VerifiedStays
  <2> QED
    BY <2>1, <2>5, <2>6
<1>11. AcceptsRoot(r, request.at)'
  BY <1>2 DEF AcceptsRoot, InForceAt, r
<1>12. Acceptable(r, p, request)'
  BY <1>2, <1>9, <1>10, <1>11 DEF Acceptable, p
<1>13. c \in Candidates(k)'
  <2>1. to' = NodeForKey(k)' /\ r' = r /\ p' = p
    BY DEF to, r, p
  <2> QED
    BY <1>3, <1>4, <1>8, <2>1 DEF Candidates
<1> QED
  BY <1>9, <1>12, <1>13 DEF AcceptedPaths, r, p

\* Authority is not lost by growth.
THEOREM GrowthKeepsGrants == GraphSpec => GrantsPersist
<1>1. ASSUME GraphTypeOK, NoContradiction, GraphTypeOK', NoContradiction', [GraphNext]_graphVars
      PROVE  \A k \in Key, request \in Requests :
               /\ Resolves(k, request)
               /\ NodeForKey(k)' = NodeForKey(k)
               /\ UNCHANGED <<lists, attested>>
               => Resolves(k, request)'
  BY <1>1, AcceptedStays DEF Resolves
<1> QED
  BY <1>1, GraphIsSound, PTL DEF GraphSpec, GrantsPersist

-----------------------------------------------------------------------------
(* The pipeline over the graph and the ledger *)

\* The ledger is a sequence.
LedgerIsSeq == ledger \in Seq(Ledger!Revocation)

LEMMA LedgerStep ==
  ASSUME [Next]_vars
  PROVE  \/ ledger' = ledger
         \/ \E r \in Ledger!Revocation : ledger' = Append(ledger, r)
<1>1. CASE UNCHANGED ledgerVars
  BY <1>1 DEF ledgerVars
<1>2. CASE Ledger!Next
  BY <1>2 DEF Ledger!Next, Ledger!Tick, Ledger!Declare, Ledger!RecordIssuance,
              Ledger!VerifyHistorical, Ledger!RecordCombine, Ledger!Filed
<1> QED
  BY <1>1, <1>2 DEF Next, vars

LEMMA LedgerTyped == Spec => []LedgerIsSeq
<1>1. Init => LedgerIsSeq
  BY DEF Init, Ledger!Init, LedgerIsSeq
<1>2. LedgerIsSeq /\ [Next]_vars => LedgerIsSeq'
  <2> SUFFICES ASSUME LedgerIsSeq, [Next]_vars PROVE LedgerIsSeq'
    OBVIOUS
  <2> QED
    BY LedgerStep DEF LedgerIsSeq
<1> QED
  BY <1>1, <1>2, PTL DEF Spec

\* Declarations stay where they are.
LEMMA LedgerGrows ==
  ASSUME LedgerIsSeq, [Next]_vars, NEW i \in DOMAIN ledger
  PROVE  i \in DOMAIN ledger' /\ ledger'[i] = ledger[i]
BY LedgerStep DEF LedgerIsSeq

-----------------------------------------------------------------------------
(* Taints *)

\* The taints that one source brings, under the current reading.
TaintsFrom(src) == Ledger!PassportTaints(src, None) \cup Ledger!KeyTaints(src, None)

LEMMA TaintsStay ==
  ASSUME LedgerIsSeq, [Next]_vars, NEW src \in Passport, issuances'[src] = issuances[src]
  PROVE  TaintsFrom(src) \subseteq TaintsFrom(src)'
<1>1. ASSUME NEW taint \in Ledger!PassportTaints(src, None)
      PROVE  taint \in Ledger!PassportTaints(src, None)'
  <2>1. PICK i \in Ledger!Against("passport", src, None) :
          /\ taint = Ledger!Taint(src, ledger[i])
          /\ \/ ~Ledger!IsRetroactive(ledger[i].reason)
             \/ Ledger!Voids(ledger[i], IF issuances[src] # None
                                        THEN issuances[src].at
                                        ELSE ledger[i].declared_at)
    BY DEF Ledger!PassportTaints
  <2>2. i \in DOMAIN ledger /\ i \in DOMAIN ledger' /\ ledger'[i] = ledger[i]
    BY LedgerGrows DEF Ledger!Against
  <2>3. i \in Ledger!Against("passport", src, None)'
    BY <2>2 DEF Ledger!Against, Ledger!KnownBy
  <2>4. Ledger!Taint(src, ledger[i])' = Ledger!Taint(src, ledger[i])
    BY <2>2 DEF Ledger!Taint
  <2> QED
    BY <2>1, <2>2, <2>3, <2>4 DEF Ledger!PassportTaints, Ledger!Voids
<1>2. ASSUME NEW taint \in Ledger!KeyTaints(src, None)
      PROVE  taint \in Ledger!KeyTaints(src, None)'
  <2>1. issuances[src] # None
    BY <1>2 DEF Ledger!KeyTaints
  <2>2. PICK i \in Ledger!Bearing(issuances[src].key, issuances[src].at, None) :
          taint = Ledger!Taint(src, ledger[i])
    BY <1>2, <2>1 DEF Ledger!KeyTaints
  <2>3. i \in DOMAIN ledger /\ i \in DOMAIN ledger' /\ ledger'[i] = ledger[i]
    BY LedgerGrows DEF Ledger!Against, Ledger!Bearing
  <2>4. i \in Ledger!Bearing(issuances[src].key, issuances[src].at, None)'
    BY <2>2, <2>3 DEF Ledger!Against, Ledger!KnownBy, Ledger!Bearing, Ledger!Voids
  <2>5. Ledger!Taint(src, ledger[i])' = Ledger!Taint(src, ledger[i])
    BY <2>3 DEF Ledger!Taint
  <2> QED
    BY <2>1, <2>2, <2>4, <2>5 DEF Ledger!KeyTaints
<1> QED
  BY <1>1, <1>2 DEF TaintsFrom

\* What something is made from, everything made from it is made from too.
SourcesNest ==
  \A p, src \in Passport :
    src \in Ledger!Sources(p) => Ledger!Sources(src) \subseteq Ledger!Sources(p)

LEMMA SourcesDoNest == SourcesNest
<1> SUFFICES ASSUME NEW p \in Passport, NEW src \in Passport, src \in Ledger!Sources(p)
             PROVE  Ledger!Sources(src) \subseteq Ledger!Sources(p)
  BY DEF SourcesNest
<1>1. ASSUME src \in Ledger!Ancestors(p), NEW a \in Ledger!Ancestors(src)
      PROVE  a \in Ledger!Ancestors(p)
  <2>1. ASSUME NEW S \in SUBSET Passport,
               parents[p] \subseteq S, \A x \in S : parents[x] \subseteq S
        PROVE  a \in S
    <3>1. src \in S
      BY <1>1, <2>1 DEF Ledger!Ancestors
    <3>2. parents[src] \subseteq S
      BY <2>1, <3>1
    <3> QED
      BY <1>1, <2>1, <3>2 DEF Ledger!Ancestors
  <2> QED
    BY <1>1, <2>1 DEF Ledger!Ancestors
<1> QED
  BY <1>1 DEF Ledger!Sources

LEMMA TaintsReach ==
  ASSUME LedgerIsSeq, [Next]_vars, NEW src \in Passport, Ledger!SameHistory(src),
         Ledger!VoidNow(src), NEW p \in Passport, src \in Ledger!Sources(p)'
  PROVE  Ledger!VoidNow(p)'
<1>1. PICK s \in Ledger!Sources(src) : \E taint \in TaintsFrom(s) : taint.window # None
  BY DEF Ledger!VoidNow, Ledger!VoidsAbInitio, Ledger!TaintsOf, TaintsFrom
<1>2. s \in Passport
  BY <1>1 DEF Ledger!Sources, Ledger!Ancestors
<1>3. s \in Ledger!Sources(src)' /\ issuances'[s] = issuances[s]
  BY <1>1 DEF Ledger!SameHistory
<1>4. PICK taint \in TaintsFrom(s)' : taint.window # None
  BY <1>1, <1>2, <1>3, TaintsStay
<1>5. SourcesNest'
  BY SourcesDoNest, PTL
<1>6. s \in Ledger!Sources(p)'
  BY <1>2, <1>3, <1>5 DEF SourcesNest
<1> QED
  BY <1>4, <1>6 DEF Ledger!VoidNow, Ledger!VoidsAbInitio, Ledger!TaintsOf, TaintsFrom

\* What is void, and whatever is made from it then or later, is never accepted,
\* for every graph, bundle, co-signature and request and however many
\* declarations, combinations and delegations follow.
THEOREM VoidStaysRefused == Spec => VoidIsNeverAccepted
<1>1. ASSUME LedgerIsSeq, [Next]_vars
      PROVE  \A src \in Passport :
               Ledger!VoidNow(src) /\ Ledger!SameHistory(src) =>
                 \A p \in Passport, co \in CoSignatures, request \in Requests :
                   src \in Ledger!Sources(p)' => ~Accepted(p, co, request)'
  BY <1>1, TaintsReach DEF Accepted
<1> QED
  BY <1>1, LedgerTyped, PTL DEF Spec, VoidIsNeverAccepted

-----------------------------------------------------------------------------
(* The graph that the pipeline reads *)

LEMMA GraphRuns == Spec => GraphSpec
<1>1. Init => GraphInit
  BY DEF Init
<1>2. [Next]_vars => [GraphNext]_graphVars
  BY DEF Next, vars
<1> QED
  BY <1>1, <1>2, PTL DEF Spec, GraphSpec

LEMMA GraphStaysSound == Spec => [](GraphTypeOK /\ Acyclic /\ NoContradiction)
BY GraphRuns, GraphIsSound, PTL

\* Each verified suite is that of a slot that verifies.
LEMMA PolicyCounts ==
  ASSUME NEW co \in CoSignatures, PolicyAccepts(co)
  PROVE  Cardinality({slot.suite : slot \in {s \in AllSlots(co) : Verifies(s)}} \cap AllowedSuites)
           >= MinVerifiedSuites
<1> DEFINE counted == VerifiedSuites(co) \cap AllowedSuites
           known == {slot.suite : slot \in {s \in AllSlots(co) : Verifies(s)}} \cap AllowedSuites
<1>1. Cardinality(counted) >= MinVerifiedSuites
  BY DEF PolicyAccepts
<1>2. counted \subseteq known
  BY DEF VerifiedSuites, CompositeVerifies, AllSlots
<1>3. known \in SUBSET Suite /\ IsFiniteSet(Suite) /\ MinVerifiedSuites \in Nat
  BY SuiteAssumption
<1> HIDE DEF counted, known
<1>4. IsFiniteSet(known)
  BY <1>3, FS_Subset
<1>5. IsFiniteSet(counted) /\ Cardinality(counted) <= Cardinality(known)
  BY <1>2, <1>4, FS_Subset
<1>6. Cardinality(counted) \in Nat /\ Cardinality(known) \in Nat
  BY <1>4, <1>5, FS_CardinalityType
<1>7. Cardinality(known) >= MinVerifiedSuites
  BY <1>1, <1>3, <1>5, <1>6
<1> QED
  BY <1>7 DEF known

\* A key that is trusted holds its authority over untouched credentials.
LEMMA TrustedIsHeld ==
  ASSUME GraphTypeOK, NoContradiction, NEW k, NEW request, Trusted(k, request)
  PROVE  \E h \in HeldUntouched(request.at) :
           Owners(k) # {} /\ h[1] = NodeForKey(k) /\ Grants(h[2], request)
<1>1. Sound
  BY DEF Sound, Typed, GraphTypeOK
<1>2. PICK c \in AcceptedPaths(k, request) : ConditionsStand(c.path, request)
  BY DEF Trusted
<1>3. \A i \in DOMAIN c.path : c.path[i] \in SignedEdges
  BY <1>1, AcceptedIsSigned
<1>4. \A i \in DOMAIN c.path : c.path[i] \in Untouched
  BY <1>2, <1>3 DEF ConditionsStand, Untouched
<1> QED
  BY <1>1, <1>4, AcceptedIsHeld DEF HeldUntouched

\* Nothing is accepted on an authority that nobody passed down.
THEOREM AcceptanceIsAuthorized == Spec => []AcceptedIsAuthorized
<1>1. ASSUME GraphTypeOK, NoContradiction PROVE AcceptedIsAuthorized
  <2> SUFFICES ASSUME NEW p \in Passport, NEW co \in CoSignatures, NEW request \in Requests,
                      Accepted(p, co, request)
               PROVE  /\ \E slot \in AllSlots(co) : \E h \in HeldUntouched(request.at) :
                           /\ slot.signature = "good"
                           /\ Owners(slot.key) # {}
                           /\ h[1] = NodeForKey(slot.key)
                           /\ Grants(h[2], request)
                      /\ Cardinality({slot.suite : slot \in {s \in AllSlots(co) : Verifies(s)}}
                                       \cap AllowedSuites) >= MinVerifiedSuites
    BY DEF AcceptedIsAuthorized
  <2>1. PICK slot \in AllSlots(co) : Verifies(slot) /\ Trusted(slot.key, request)
    BY DEF Accepted
  <2>2. slot.signature = "good"
    BY <2>1 DEF Verifies
  <2>3. PICK h \in HeldUntouched(request.at) :
          Owners(slot.key) # {} /\ h[1] = NodeForKey(slot.key) /\ Grants(h[2], request)
    BY <1>1, <2>1, TrustedIsHeld
  <2>4. PolicyAccepts(co)
    BY DEF Accepted
  <2> QED
    BY <2>2, <2>3, <2>4, PolicyCounts
<1> QED
  BY <1>1, GraphStaysSound, PTL

-----------------------------------------------------------------------------
(* Growth *)

\* The reading of the ledger is a function of the ledger.
LEMMA SameReading ==
  ASSUME UNCHANGED ledgerVars
  PROVE  /\ \A p \in Passport : Ledger!VoidNow(p)' <=> Ledger!VoidNow(p)
         /\ \A n \in NodeId :
              Ledger!WithdrawnConditionsAt(n, clock)' = Ledger!WithdrawnConditionsAt(n, clock)
<1>1. /\ ledger' = ledger /\ issuances' = issuances /\ parents' = parents
      /\ clock' = clock
  BY DEF ledgerVars
<1>2. \A p : Ledger!Sources(p)' = Ledger!Sources(p)
  BY <1>1 DEF Ledger!Sources, Ledger!Ancestors
<1>3. \A kind, id : Ledger!Against(kind, id, None)' = Ledger!Against(kind, id, None)
  BY <1>1 DEF Ledger!Against, Ledger!KnownBy
<1>4. \A s : Ledger!PassportTaints(s, None)' = Ledger!PassportTaints(s, None)
  BY <1>1, <1>3 DEF Ledger!PassportTaints, Ledger!Voids, Ledger!Taint
<1>5. \A s : Ledger!KeyTaints(s, None)' = Ledger!KeyTaints(s, None)
  BY <1>1, <1>3 DEF Ledger!KeyTaints, Ledger!Bearing, Ledger!Voids, Ledger!Taint
<1>6. \A p : Ledger!TaintsOf(p, None)' = Ledger!TaintsOf(p, None)
  BY <1>2, <1>4, <1>5 DEF Ledger!TaintsOf
<1>7. \A n : Ledger!WithdrawnConditionsAt(n, clock)' = Ledger!WithdrawnConditionsAt(n, clock)
  BY <1>1 DEF Ledger!WithdrawnConditionsAt, Ledger!Voids
<1> QED
  BY <1>6, <1>7 DEF Ledger!VoidNow, Ledger!VoidsAbInitio

LEMMA VerifiesStill ==
  ASSUME Grown, NEW slot, Verifies(slot)
  PROVE  Verifies(slot)'
<1>1. Directory \subseteq Directory'
  BY DEF Directory, Grown
<1> QED
  BY <1>1 DEF Verifies

LEMMA PolicyAcceptsStill ==
  ASSUME Grown, NEW co \in CoSignatures, PolicyAccepts(co)
  PROVE  PolicyAccepts(co)'
<1>1. VerifiedSuites(co) \subseteq VerifiedSuites(co)'
  BY VerifiesStill DEF VerifiedSuites, CompositeVerifies
<1> DEFINE counted == VerifiedSuites(co) \cap AllowedSuites
           known == VerifiedSuites(co)' \cap AllowedSuites
<1>2. counted # {} /\ Cardinality(counted) >= MinVerifiedSuites
  BY DEF PolicyAccepts
<1>3. known \in SUBSET Suite /\ IsFiniteSet(Suite) /\ MinVerifiedSuites \in Nat
  BY SuiteAssumption
<1>4. counted \subseteq known
  BY <1>1
<1>5. PolicyAccepts(co)' <=> known # {} /\ Cardinality(known) >= MinVerifiedSuites
  BY DEF PolicyAccepts
<1> HIDE DEF counted, known
<1>6. IsFiniteSet(known)
  BY <1>3, FS_Subset
<1>7. IsFiniteSet(counted) /\ Cardinality(counted) <= Cardinality(known)
  BY <1>4, <1>6, FS_Subset
<1>8. Cardinality(counted) \in Nat /\ Cardinality(known) \in Nat
  BY <1>6, <1>7, FS_CardinalityType
<1> QED
  BY <1>2, <1>3, <1>4, <1>5, <1>7, <1>8

\* Where nothing is withdrawn, the conditions of whatever resolves stand.
LEMMA ResolvedIsTrusted ==
  ASSUME Typed, FirstAlways, NEW k, NEW request, Resolves(k, request),
         \A n \in NodeId : Ledger!WithdrawnConditionsAt(n, clock) = {}
  PROVE  Trusted(k, request)
<1>1. PICK c \in AcceptedPaths(k, request) : IsFirst(c, AcceptedPaths(k, request))
  BY DEF Resolves, FirstAlways
<1>2. ConditionsHold(Effective(c.path), request)
  BY DEF AcceptedPaths, Acceptable, Grants
<1>3. ASSUME NEW i \in DOMAIN c.path
      PROVE  edges[c.path[i]].scope.conditions
               \cap Ledger!WithdrawnConditionsAt(edges[c.path[i]].child, clock) = {}
  <2>1. c.path[i] \in DOMAIN edges
    BY DEF AcceptedPaths, Candidates, Paths
  <2>2. edges[c.path[i]].child \in NodeId
    BY <2>1, EdgesTyped
  <2> QED
    BY <2>2
<1> QED
  BY <1>1, <1>2, <1>3 DEF Trusted, ConditionsStand

TrustWhereResolved ==
  (\A n \in NodeId : Ledger!WithdrawnConditionsAt(n, clock) = {}) =>
    \A k, request : Resolves(k, request) => Trusted(k, request)

LEMMA TrustedWhereResolved == GraphTypeOK /\ Acyclic => TrustWhereResolved
BY FirstAlwaysExists, ResolvedIsTrusted DEF TrustWhereResolved, Typed, GraphTypeOK

\* What is added to the graph takes no acceptance away.
THEOREM AcceptanceSurvivesGrowth == Spec => GrowthKeepsAcceptance
<1> DEFINE Ok == GraphTypeOK /\ Acyclic /\ NoContradiction
<1>1. ASSUME Ok, Ok', [Next]_vars,
             UNCHANGED <<lists, attested, ledgerVars>>,
             \A n \in NodeId : Ledger!WithdrawnConditionsAt(n, clock) = {},
             NEW co \in CoSignatures,
             \A slot \in AllSlots(co) :
               Owners(slot.key) # {} => NodeForKey(slot.key)' = NodeForKey(slot.key),
             NEW p \in Passport, NEW request \in Requests, Accepted(p, co, request)
      PROVE  Accepted(p, co, request)'
  <2>1. [GraphNext]_graphVars
    BY <1>1 DEF Next, vars
  <2>2. Typed /\ Grown
    BY <1>1, <2>1, StepsGrow DEF GraphTypeOK, Typed
  <2>3. ~Ledger!VoidNow(p)'
    BY <1>1, SameReading DEF Accepted
  <2>4. PolicyAccepts(co)'
    BY <1>1, <2>2, PolicyAcceptsStill DEF Accepted
  <2>5. PICK slot \in AllSlots(co) : Verifies(slot) /\ Trusted(slot.key, request)
    BY <1>1 DEF Accepted
  <2>6. Verifies(slot)'
    BY <2>2, <2>5, VerifiesStill
  <2>7. PICK c : c \in AcceptedPaths(slot.key, request)
    BY <2>5 DEF Trusted
  <2>8. NodeForKey(slot.key)' = NodeForKey(slot.key)
    BY <1>1, <2>7 DEF AcceptedPaths, Candidates
  <2>9. c \in AcceptedPaths(slot.key, request)'
    BY <1>1, <2>1, <2>7, <2>8, AcceptedStays
  <2>10. Resolves(slot.key, request)'
    BY <2>9 DEF Resolves
  <2>11. TrustWhereResolved'
    BY <1>1, TrustedWhereResolved, PTL
  <2>12. \A n \in NodeId : Ledger!WithdrawnConditionsAt(n, clock)' = {}
    BY <1>1, SameReading
  <2>13. Trusted(slot.key, request)'
    BY <2>10, <2>11, <2>12 DEF TrustWhereResolved
  <2>14. slot \in AllSlots(co)'
    BY DEF AllSlots
  <2> QED
    BY <2>3, <2>4, <2>6, <2>13, <2>14 DEF Accepted
<1>2. Ok /\ Ok' /\ [Next]_vars =>
        (/\ UNCHANGED <<lists, attested, ledgerVars>>
         /\ \A n \in NodeId : Ledger!WithdrawnConditionsAt(n, clock) = {}
         => \A co \in CoSignatures :
              (\A slot \in AllSlots(co) :
                 Owners(slot.key) # {} => NodeForKey(slot.key)' = NodeForKey(slot.key))
              => \A p \in Passport, request \in Requests :
                   Accepted(p, co, request) => Accepted(p, co, request)')
  <2> HIDE DEF Ok
  <2> QED
    BY <1>1
<1>3. Spec => []Ok
  BY GraphStaysSound
<1> HIDE DEF Ok
<1> QED
  BY <1>2, <1>3, PTL DEF Spec, GrowthKeepsAcceptance

=============================================================================
