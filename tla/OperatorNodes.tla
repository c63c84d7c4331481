---------------------------- MODULE OperatorNodes ----------------------------
(***************************************************************************)
(* The other half of an Operator contract: its set of nodes (NodeModule),  *)
(* its controllers and its coordination stream, where the nodes may        *)
(* publish.  It shares no state with the accounts of Operator.             *)
(*                                                                         *)
(* The nodes are kept in an array, with an index of positions, and removed *)
(* by moving the last one to the gap.  Left out: heartbeats, which change  *)
(* nothing but the latest one shown.                                       *)
(***************************************************************************)
EXTENDS Naturals, Sequences, SequencesExt

CONSTANTS NodeAddresses,
          Accounts,       \* who may have CONTROLLER_ROLE
          AccountOwner,   \* the contract's owner, who has OWNER_ROLE
          MaxListed       \* bound: how many nodes are listed in a call

ASSUME NodesAssumption == AccountOwner \in Accounts /\ MaxListed \in Nat

VARIABLES fleet,        \* nodes, nodeIndex, and who may publish in the stream
          streamExists, \* the coordination stream is there
          controllers,  \* the accounts that have CONTROLLER_ROLE
          resigned,     \* history: the nodes that gave their permission up
          shown         \* the Operator entity's nodes and controllers

nodeVars == <<fleet, streamExists, controllers, resigned, shown>>

NoFleet == [nodes |-> <<>>, nodeIndex |-> [n \in NodeAddresses |-> 0],
            publishers |-> {}, ok |-> TRUE]

-----------------------------------------------------------------------------
(* The subgraph.  A role is granted only to those who do not have it. *)

HandleNodesSet(entity, nodes) == [entity EXCEPT !.nodes = nodes]

HandleRoleGranted(entity, account) == [entity EXCEPT !.controllers = Append(@, account)]

HandleRoleRevoked(entity, account) ==
    LET Keep(kept, a) == IF a = account THEN kept ELSE Append(kept, a)
    IN  [entity EXCEPT !.controllers = FoldLeft(Keep, <<>>, @)]

\* The RoleGranted event of initialize() is handled too, so the owner is there.
NodesInit ==
    /\ fleet = NoFleet
    /\ streamExists = TRUE
    /\ controllers = {AccountOwner}
    /\ resigned = {}
    /\ shown = [nodes |-> <<>>, controllers |-> <<AccountOwner>>]

-----------------------------------------------------------------------------
(* NodeModule.  Granting and revoking revert if there is no such stream. *)

AddNode(f, n) ==
    [nodes |-> Append(f.nodes, n), nodeIndex |-> [f.nodeIndex EXCEPT ![n] = Len(f.nodes) + 1],
     publishers |-> f.publishers \cup {n}, ok |-> streamExists]

RemoveNodeIndexLast(f, n) ==
    LET index    == f.nodeIndex[n]
        lastNode == Last(f.nodes)
    IN  [nodes      |-> Front([f.nodes EXCEPT ![index] = lastNode]),
         nodeIndex  |-> [f.nodeIndex EXCEPT ![n] = 0, ![lastNode] = index],
         publishers |-> f.publishers \ {n}, ok |-> streamExists]

\* _removeNode: the last node may be the removed one, so its index is deleted last.
RemoveNode(f, n) ==
    LET index    == f.nodeIndex[n]
        lastNode == Last(f.nodes)
    IN  [nodes      |-> Front([f.nodes EXCEPT ![index] = lastNode]),
         nodeIndex  |-> [f.nodeIndex EXCEPT ![lastNode] = index, ![n] = 0],
         publishers |-> f.publishers \ {n}, ok |-> streamExists]

AddIfMissing(f, n) == IF f.nodeIndex[n] = 0 THEN AddNode(f, n) ELSE f
RemoveIfListed(f, n) == IF f.nodeIndex[n] > 0 THEN RemoveNode(f, n) ELSE f

AllAdded(f, list) == FoldLeft(AddIfMissing, f, list)

\* The position stays where it is when the node there is replaced by the last one;
\* each round of the loop either moves on or makes the array shorter.
OthersRemoved(f, list) ==
    LET Round(loop, round) ==
            LET node == loop.fleet.nodes[loop.i]
            IN  IF node \in Range(list) THEN [loop EXCEPT !.i = @ + 1]
                ELSE [loop EXCEPT !.fleet = RemoveNode(@, node)]
    IN  FoldLeft(Round, [fleet |-> f, i |-> 1], f.nodes).fleet

\* Removed and added nodes start with a clean slate.
FleetBecomes(f) ==
    /\ f.ok
    /\ fleet' = f
    /\ shown' = HandleNodesSet(shown, f.nodes)
    /\ resigned' = (resigned \cap Range(f.nodes)) \ f.publishers
    /\ UNCHANGED <<streamExists, controllers>>

\* setNodeAddresses()
SetNodeAddresses(sender, newNodes) ==
    /\ sender \in controllers
    /\ FleetBecomes(OthersRemoved(AllAdded(fleet, newNodes), newNodes))

\* updateNodeAddresses(): what is in both lists ends up removed.
UpdateNodeAddresses(sender, addNodes, removeNodes) ==
    /\ sender \in controllers
    /\ FleetBecomes(FoldLeft(RemoveIfListed, AllAdded(fleet, addNodes), removeNodes))

-----------------------------------------------------------------------------
(* The owner, the controllers and the nodes themselves *)

\* grantRole(CONTROLLER_ROLE) by the owner
GrantController(account) ==
    /\ account \notin controllers
    /\ controllers' = controllers \cup {account}
    /\ shown' = HandleRoleGranted(shown, account)
    /\ UNCHANGED <<fleet, streamExists, resigned>>

\* revokeRole(CONTROLLER_ROLE) by the owner, or renounceRole()
RevokeController(account) ==
    /\ account \in controllers
    /\ controllers' = controllers \ {account}
    /\ shown' = HandleRoleRevoked(shown, account)
    /\ UNCHANGED <<fleet, streamExists, resigned>>

\* updateStreamMetadata(): empty metadata makes the stream vanish, for good, as
\* only an existing stream can be updated.
EmptyStreamMetadata(sender) ==
    /\ sender \in controllers /\ streamExists
    /\ streamExists' = FALSE
    /\ UNCHANGED <<fleet, controllers, resigned, shown>>

\* StreamRegistry.revokePermission() by the node itself
GiveUpPublishing(n) ==
    /\ streamExists /\ n \in fleet.publishers
    /\ fleet' = [fleet EXCEPT !.publishers = @ \ {n}]
    /\ resigned' = resigned \cup {n}
    /\ UNCHANGED <<streamExists, controllers, shown>>

Lists == UNION {[1 .. length -> NodeAddresses] : length \in 0 .. MaxListed}

NodesNext ==
    \/ \E sender \in Accounts, list \in Lists : SetNodeAddresses(sender, list)
    \/ \E sender \in Accounts, addNodes, removeNodes \in Lists :
         UpdateNodeAddresses(sender, addNodes, removeNodes)
    \/ \E account \in Accounts : GrantController(account)
    \/ \E account \in Accounts : RevokeController(account)
    \/ \E sender \in Accounts : EmptyStreamMetadata(sender)
    \/ \E n \in NodeAddresses : GiveUpPublishing(n)

NodesSpec == NodesInit /\ [][NodesNext]_nodeVars

-----------------------------------------------------------------------------
(* Properties *)

\* NodesArePublishers: whatever lists the calls are made with (with duplicates, with
\* nodes in both) the array holds every node once and the index its position;
\* exactly the nodes may publish in the coordination stream, but for those that
\* gave it up themselves, so that a removed node never may; and the nodes and
\* controllers shown are the contract's.
NodesArePublishers ==
    /\ IsInjective(fleet.nodes)
    /\ \A n \in NodeAddresses :
         fleet.nodeIndex[n] = IF Contains(fleet.nodes, n)
                              THEN CHOOSE i \in DOMAIN fleet.nodes : fleet.nodes[i] = n ELSE 0
    /\ fleet.publishers = Range(fleet.nodes) \ resigned
    /\ shown.nodes = fleet.nodes
    /\ IsInjective(shown.controllers) /\ Range(shown.controllers) = controllers

=============================================================================
