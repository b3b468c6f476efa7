----------------------------- MODULE TrustGraph -----------------------------
(***************************************************************************)
(* The delegation trust graph of graph.rs: nodes with registered keys,     *)
(* parent-signed scoped credentials as edges, and the anchor bundle (trust *)
(* lists and the witnessed master list) that says which roots a verifier   *)
(* accepts.  Nodes, keys and credentials are only added; resolve looks for *)
(* a path of credentials from an accepted root to the node owning a key.   *)
(*                                                                         *)
(* A signature slot is the key it names and whether it verifies over the   *)
(* credential.  Of the master list's attestations only the known witnesses *)
(* whose attestation verifies are kept.  Node ids are numbers in the order *)
(* the ids sort.                                                           *)
(***************************************************************************)
EXTENDS Scope, FiniteSets, Sequences

CONSTANTS
  NodeId,         \* node ids
  Key,            \* signing keys
  Node,           \* the DelegationNodes that are added
  Credential,     \* the DelegationCredentials that are added
  Registration,   \* the keys that are merged onto nodes later
  Jurisdiction,   \* the jurisdictions whose trust lists are consulted
  Witness,        \* the master list's witnesses
  WitnessQuorum,  \* MasterList.m
  Requests,       \* the acts that keys are resolved for
  MaxEdges        \* bound on the edges

NodeKind == {"root", "group", "delegated", "end"}

DelegationNode ==
  [id : NodeId, kind : NodeKind, threshold : Nat, keys : SUBSET Key]

Slot == [key : Key, valid : BOOLEAN]

ASSUME NodeAssumption ==
  /\ NodeId \subseteq Nat
  /\ \A n \in Node : n \in DelegationNode
  /\ None \notin DelegationNode

ASSUME CredentialAssumption ==
  \A c \in Credential :
    /\ DOMAIN c = {"parent", "child", "scope", "signatures"}
    /\ c.parent \in NodeId
    /\ c.child \in NodeId
    /\ c.scope \in DelegationScope
    /\ c.signatures \in Seq(Slot)

ASSUME BundleAssumption ==
  /\ Registration \subseteq NodeId \X Key
  /\ WitnessQuorum \in Nat /\ MaxEdges \in Nat
  /\ \A witnesses \in SUBSET Witness : witnesses # None

TrustListEntry == [not_before : Time, superseded_at : Time \cup {None}]

ASSUME EntryAssumption == None \notin TrustListEntry

VARIABLES
  nodes,     \* TrustGraph.nodes: by id, None where there is no node
  edges,     \* TrustGraph.edges, in the order added
  lists,     \* AnchorBundle.trust_lists: per jurisdiction, by root id
  attested   \* MasterList.entries: the witnesses behind each root, None without an entry

graphVars == <<nodes, edges, lists, attested>>

-----------------------------------------------------------------------------
(* What the graph says *)

\* reaches: from a node along any number of edges, none included.
Reach(from) ==
  {to \in NodeId : \A S \in SUBSET NodeId :
     /\ from \in S
     /\ \A i \in DOMAIN edges : edges[i].parent \in S => edges[i].child \in S
     => to \in S}

\* Mutant: only a direct back edge counts as a cycle.
ClosesTwoCycle(parent, child) ==
  \E i \in DOMAIN edges : edges[i].parent = child /\ edges[i].child = parent

ClosesCycle(parent, child) == parent \in Reach(child)

Owners(k) == {n \in NodeId : nodes[n] # None /\ k \in nodes[n].keys}

\* node_for_key: the first node, in id order, that registered the key.
NodeForKey(k) == CHOOSE n \in Owners(k) : \A x \in Owners(k) : n <= x

Roots == {n \in NodeId : nodes[n] # None /\ nodes[n].kind = "root"}

\* Mutant: a quorum counts slots, not distinct keys.
VerifyCountsSlots(cred) ==
  LET parent == nodes[cred.parent]
      slots  == {i \in DOMAIN cred.signatures :
                   /\ cred.signatures[i].valid
                   /\ cred.signatures[i].key \in parent.keys}
  IN IF parent.kind = "group" THEN Cardinality(slots) >= parent.threshold ELSE slots # {}

\* verify_credential: one verifying slot by a registered parent key, or the
\* threshold of distinct ones when the parent is a group.
VerifyCredential(cred) ==
  LET parent   == nodes[cred.parent]
      slots    == {i \in DOMAIN cred.signatures : cred.signatures[i].valid}
      verified == {cred.signatures[i].key : i \in slots} \cap parent.keys
  IN IF parent.kind = "group"
     THEN Cardinality(verified) >= parent.threshold
     ELSE verified # {}

InForceAt(entry, t) ==
  /\ entry # None
  /\ t >= entry.not_before
  /\ entry.superseded_at # None => t < entry.superseded_at

\* accepts_root: some trust list in force, and an entry with the witness quorum.
AcceptsRoot(root, t) ==
  /\ \E j \in Jurisdiction : InForceAt(lists[j][root], t)
  /\ attested[root] # None
  /\ Cardinality(attested[root]) >= WitnessQuorum

-----------------------------------------------------------------------------
(* Path resolution *)

\* paths: the walks from one node to another, as edge indices.  A walk never
\* meets a node twice: the graph is acyclic.
IsPath(path, from, to) ==
  IF path = <<>> THEN from = to
  ELSE /\ from # to
       /\ edges[path[1]].parent = from
       /\ edges[path[Len(path)]].child = to
       /\ \A i \in 1..Len(path) - 1 : edges[path[i]].child = edges[path[i + 1]].parent

Paths(from, to) ==
  {path \in UNION {[1..n -> DOMAIN edges] : n \in 0..Len(edges)} : IsPath(path, from, to)}

\* The order of Vec<usize>, which paths sorts by.
Precedes(p, q) ==
  \E i \in DOMAIN p \cap DOMAIN q :
    p[i] < q[i] /\ \A j \in 1..i - 1 : p[j] = q[j]

\* The scope that is narrowed along a path, from the unconstrained one; the first
\* refusal drops the path.
Effective(path) ==
  LET effective[n \in 0..Len(path)] ==
        IF n = 0 THEN Unconstrained
        ELSE IF effective[n - 1] = Refused THEN Refused
        ELSE Narrow(effective[n - 1], edges[path[n]].scope)
  IN effective[Len(path)]

\* What resolve asks of a candidate path, once its root is accepted: that every
\* credential verifies, that none widens, and that the act is granted.
Acceptable(root, path, request) ==
  /\ AcceptsRoot(root, request.at)
  /\ \A i \in DOMAIN path : VerifyCredential(edges[path[i]])
  /\ \E effective \in {Effective(path)} : effective # Refused /\ Grants(effective, request)

\* resolve walks the roots in id order, and of a root the paths in theirs.
Candidates(k) ==
  IF Owners(k) = {} THEN {}
  ELSE UNION {{[root |-> r, path |-> p] : p \in Paths(r, NodeForKey(k))} : r \in Roots}

Before(c, d) == c.root < d.root \/ (c.root = d.root /\ Precedes(c.path, d.path))

\* resolve returns the first candidate that is acceptable.
IsFirst(c, candidates) == \A d \in candidates : c = d \/ Before(c, d)

\* Mutant: the first candidate decides.
AcceptedAtOnce(k, request) ==
  {c \in Candidates(k) : Acceptable(c.root, c.path, request) /\ IsFirst(c, Candidates(k))}

AcceptedPaths(k, request) ==
  {c \in Candidates(k) : Acceptable(c.root, c.path, request)}

Resolves(k, request) == AcceptedPaths(k, request) # {}

-----------------------------------------------------------------------------
(* Operations *)

\* add_node: a second insert under an id is ignored.
AddNode(node) ==
  /\ nodes' = IF nodes[node.id] = None THEN [nodes EXCEPT ![node.id] = node] ELSE nodes
  /\ UNCHANGED <<edges, lists, attested>>

\* node_mut and DelegationNode::register: a key merged onto a node.
RegisterKey(n, k) ==
  /\ nodes[n] # None
  /\ nodes' = [nodes EXCEPT ![n].keys = @ \cup {k}]
  /\ UNCHANGED <<edges, lists, attested>>

\* Mutant: a credential replaces the earlier ones between the same nodes.
ReplaceEdge(cred) ==
  /\ Len(edges) < MaxEdges
  /\ nodes[cred.parent] # None
  /\ nodes[cred.child] # None
  /\ ~IsContradiction(cred.scope)
  /\ cred.signatures # <<>>
  /\ ~ClosesCycle(cred.parent, cred.child)
  /\ edges' = Append(SelectSeq(edges, LAMBDA e : <<e.parent, e.child>> # <<cred.parent, cred.child>>),
                     cred)
  /\ UNCHANGED <<nodes, lists, attested>>

\* Mutant: the endpoints are not looked up.
AddEdgeAnywhere(cred) ==
  /\ Len(edges) < MaxEdges
  /\ ~IsContradiction(cred.scope)
  /\ cred.signatures # <<>>
  /\ ~ClosesCycle(cred.parent, cred.child)
  /\ edges' = Append(edges, cred)
  /\ UNCHANGED <<nodes, lists, attested>>

\* add_edge: signatures are asked for but not verified here.
AddEdge(cred) ==
  /\ Len(edges) < MaxEdges
  /\ nodes[cred.parent] # None
  /\ nodes[cred.child] # None
  /\ ~IsContradiction(cred.scope)
  /\ cred.signatures # <<>>
  /\ ~ClosesCycle(cred.parent, cred.child)
  /\ edges' = Append(edges, cred)
  /\ UNCHANGED <<nodes, lists, attested>>

\* TrustList::trust: replaces the entry of the root, a superseded one too.
Trust(j, n, t) ==
  /\ lists' = [lists EXCEPT ![j][n] = [not_before |-> t, superseded_at |-> None]]
  /\ UNCHANGED <<nodes, edges, attested>>

Supersede(j, n, t) ==
  /\ lists[j][n] # None
  /\ lists' = [lists EXCEPT ![j][n].superseded_at = t]
  /\ UNCHANGED <<nodes, edges, attested>>

\* MasterList::upsert: insert or replace.
Upsert(n, witnesses) ==
  /\ attested' = [attested EXCEPT ![n] = witnesses]
  /\ UNCHANGED <<nodes, edges, lists>>

-----------------------------------------------------------------------------

GraphInit ==
  /\ nodes = [n \in NodeId |-> None]
  /\ edges = <<>>
  /\ lists = [j \in Jurisdiction |-> [n \in NodeId |-> None]]
  /\ attested = [n \in NodeId |-> None]

\* Bundles anchor the nodes that the graph calls roots.
GraphNext ==
  \/ \E node \in Node : AddNode(node)
  \/ \E r \in Registration : RegisterKey(r[1], r[2])
  \/ \E cred \in Credential : AddEdge(cred)
  \/ \E n \in Roots :
       \/ \E j \in Jurisdiction, t \in Time : Trust(j, n, t) \/ Supersede(j, n, t)
       \/ \E witnesses \in SUBSET Witness : Upsert(n, witnesses)

GraphSpec == GraphInit /\ [][GraphNext]_graphVars

-----------------------------------------------------------------------------
(* Properties *)

\* Every edge joins nodes of the graph and carries a signature slot.
GraphTypeOK ==
  /\ \A n \in NodeId : nodes[n] # None => nodes[n] \in DelegationNode /\ nodes[n].id = n
  /\ DOMAIN nodes = NodeId
  /\ edges \in Seq(Credential)
  /\ \A i \in DOMAIN edges :
       /\ nodes[edges[i].parent] # None
       /\ nodes[edges[i].child] # None
       /\ edges[i].signatures # <<>>
  /\ lists \in [Jurisdiction -> [NodeId -> TrustListEntry \cup {None}]]
  /\ attested \in [NodeId -> (SUBSET Witness) \cup {None}]

\* The DAG invariant of add_edge: no credential's parent is reached from its
\* child, however the credentials were added.
Acyclic == \A i \in DOMAIN edges : edges[i].parent \notin Reach(edges[i].child)

\* Whether a credential is signed for: a set of the parent's own keys, one or
\* the group's threshold of them, each with a verifying slot.
SignedFor(cred) ==
  LET parent == nodes[cred.parent] IN
  \E S \in SUBSET parent.keys :
    /\ \A k \in S : [key |-> k, valid |-> TRUE] \in {cred.signatures[i] : i \in DOMAIN cred.signatures}
    /\ Cardinality(S) = IF parent.kind = "group" THEN parent.threshold ELSE 1

\* The scopes a node holds at an instant, found breadth first and without
\* paths: a root holds the unconstrained one when it is accepted, and a holder
\* of a scope passes on what is usable and widens nothing.
HeldThrough(usable, t) ==
  LET held[n \in 0..Len(edges)] ==
        IF n = 0
        THEN {<<r, Unconstrained>> : r \in {r \in Roots : AcceptsRoot(r, t)}}
        ELSE held[n - 1]
               \cup UNION {{<<edges[i].child, edges[i].scope>> :
                              h \in {h \in held[n - 1] :
                                       /\ h[1] = edges[i].parent
                                       /\ Admits(h[2], edges[i].scope)}} :
                           i \in usable}
  IN held[Len(edges)]

SignedEdges == {i \in DOMAIN edges : SignedFor(edges[i])}

HeldAt(t) == HeldThrough(SignedEdges, t)

\* resolve finds a path exactly when the owner of the key holds a scope that
\* grants the act: the depth-first search, the quorum count and the folded
\* effective scope neither miss an authority nor invent one.
ResolveIsExact ==
  \A k \in Key, request \in Requests :
    Resolves(k, request) <=>
      \E h \in HeldAt(request.at) :
        /\ Owners(k) # {}
        /\ h[1] = NodeForKey(k)
        /\ Grants(h[2], request)

\* What a key was resolved for it stays resolved for, whatever nodes, keys and
\* credentials are added, while the bundle stands and no lower node claims the
\* key.
GrantsPersist ==
  [][\A k \in Key, request \in Requests :
       /\ Resolves(k, request)
       /\ NodeForKey(k)' = NodeForKey(k)
       /\ UNCHANGED <<lists, attested>>
       => Resolves(k, request)']_graphVars

=============================================================================
