---------------------------- MODULE Recognition ----------------------------
(***************************************************************************)
(* What one scheme makes of another's objects (scheme.rs): the recognition *)
(* modes, the portable statements and the freshness of bridges.            *)
(***************************************************************************)
EXTENDS Declarations

ListBytes(club, classes, members) == <<club, classes, members>>

\* ClubList::issue and verify, which is told who the operator is.
IssueList(club, classes, members, key) ==
  [club |-> club, object_classes |-> classes, members |-> members,
   signature |-> Slot(key, "master-list-witness", ListBytes(club, classes, members))]

ListVerifies(keys, list, operator) ==
  SignedBy(keys, operator, list.signature, "master-list-witness",
           ListBytes(list.club, list.object_classes, list.members))

\* recognizes: the members are recognized for the classes of the list.
OnList(list, object, counterpart) ==
  object \in list.object_classes /\ counterpart \in list.members

\* recognize: by the machinery of the mode that was declared, and no other.  A
\* list is not verified here.
Recognized(mode, object, counterpart, pinned_here, pinned_there, club, on_master_list) ==
  CASE mode = "unilateral-pinning" -> pinned_here
    [] mode = "bilateral-anchors" -> pinned_here /\ pinned_there
    [] mode = "club-list" -> club # None /\ OnList(club, object, counterpart)
    [] mode = "master-list-mesh" -> on_master_list

-----------------------------------------------------------------------------
(* Portability *)

\* The first bridge entry of an identity.
EntryOf(bridges, origin) ==
  {i \in DOMAIN bridges :
     bridges[i].origin = origin /\ \A j \in 1..(i - 1) : bridges[j].origin # origin}

\* PortableStatement::resolve: every input is bridged, or nothing is resolved.
Resolve(statement, bridges) ==
  IF \E i \in DOMAIN statement.inputs : EntryOf(bridges, statement.inputs[i]) = {}
  THEN None
  ELSE [transform |-> statement.transform,
        inputs |-> [i \in DOMAIN statement.inputs |->
                      bridges[CHOOSE b \in EntryOf(bridges, statement.inputs[i]) : TRUE].foreign],
        output |-> statement.output.foreign]

-----------------------------------------------------------------------------
(* Bridges *)

\* bridge_fresh: a refresh that is still to come is not fresh.
BridgeFresh(bridge, at, max_age) == at - bridge.refreshed_at \in 0..max_age

\* bridge_health: the classes of each bridge are as fresh as it is.
BridgeHealth(bridges, at, max_age) ==
  [b \in DOMAIN bridges |->
     {<<c, BridgeFresh(bridges[b], at, max_age)>> : c \in bridges[b].covered_classes}]

=============================================================================
