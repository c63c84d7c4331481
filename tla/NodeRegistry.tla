----------------------------- MODULE NodeRegistry -----------------------------
(***************************************************************************)
(* NodeRegistry, and TrackerRegistry, which has the same code: nodes in a  *)
(* doubly linked list, and a whitelist of who may register itself.         *)
(* StreamRegistry takes the list for a set of nodes.                       *)
(*                                                                         *)
(* items has the nodes with lastSeen # 0; what is read of other addresses  *)
(* is zero.  Left out: metadata and times.  The owner is assumed not to    *)
(* register the zero address, which the list uses for "none".              *)
(***************************************************************************)
EXTENDS Naturals, StreamIndex

CONSTANTS NodeAccounts, ZeroAddress

ASSUME NodeAccountsAssumption == ZeroAddress \notin NodeAccounts

VARIABLES list,                 \* nodes (the mapping), headNode, tailNode, nodeCount
          requiresWhitelist,
          whitelist,
          nodeStore,            \* the subgraph's entities
          registered            \* history: the nodes in the order they registered

listVars == <<list, requiresWhitelist, whitelist, nodeStore, registered>>

EmptyList == [items |-> <<>>, headNode |-> ZeroAddress, tailNode |-> ZeroAddress, nodeCount |-> 0]

ListInit ==
    /\ list = EmptyList
    /\ requiresWhitelist \in BOOLEAN
    /\ whitelist = [n \in NodeAccounts |-> "None"]
    /\ nodeStore = NewStore
    /\ registered = <<>>

IsRegistered(n) == n \in DOMAIN list.items

-----------------------------------------------------------------------------
(* The linked list *)

Appended(n) ==
    LET items == Save(list.items, n, [prev |-> list.tailNode, next |-> ZeroAddress])
    IN  [items     |-> [m \in DOMAIN items |->
                          IF m = list.tailNode THEN [items[m] EXCEPT !.next = n] ELSE items[m]],
         headNode  |-> IF list.headNode = ZeroAddress THEN n ELSE list.headNode,
         tailNode  |-> n,
         nodeCount |-> list.nodeCount + 1]

\* What the neighbours of n become.
Bridged(n) ==
    [m \in DOMAIN list.items |->
        [prev |-> IF m = list.items[n].next THEN list.items[n].prev ELSE list.items[m].prev,
         next |-> IF m = list.items[n].prev THEN list.items[n].next ELSE list.items[m].next]]

\* A plausible mistake: "else if" between the two ends.
UnlinkedElseIf(n) ==
    [items     |-> Without(Bridged(n), n),
     headNode  |-> IF n = list.headNode THEN list.items[n].next ELSE list.headNode,
     tailNode  |-> IF n = list.tailNode /\ n # list.headNode
                   THEN list.items[n].prev ELSE list.tailNode,
     nodeCount |-> list.nodeCount - 1]

Unlinked(n) ==
    [items     |-> Without(Bridged(n), n),
     headNode  |-> IF n = list.headNode THEN list.items[n].next ELSE list.headNode,
     tailNode  |-> IF n = list.tailNode THEN list.items[n].prev ELSE list.tailNode,
     nodeCount |-> list.nodeCount - 1]

\* getNodes: nodeCount steps from the head.
Walk(from, field) ==
    LET at[i \in 1 .. list.nodeCount] ==
            IF i = 1 THEN from
            ELSE IF IsRegistered(at[i - 1]) THEN list.items[at[i - 1]][field] ELSE ZeroAddress
    IN  at

-----------------------------------------------------------------------------
(* The functions *)

\* _createOrUpdateNode
Registers(n) ==
    /\ list' = IF IsRegistered(n) THEN list ELSE Appended(n)
    /\ registered' = IF IsRegistered(n) THEN registered ELSE Append(registered, n)
    /\ nodeStore' = HandleAll(nodeStore, <<[name |-> "NodeUpdated", node |-> n]>>)

\* createOrUpdateNode() by the owner
OwnerRegisters(n) == Registers(n) /\ UNCHANGED <<requiresWhitelist, whitelist>>

\* createOrUpdateNodeSelf()
CreateOrUpdateNodeSelf(n) ==
    /\ requiresWhitelist => whitelist[n] = "Approved"
    /\ Registers(n)
    /\ UNCHANGED <<requiresWhitelist, whitelist>>

\* _removeNode
Removes(n) ==
    /\ IsRegistered(n)
    /\ list' = Unlinked(n)
    /\ registered' = RemoveAt(registered, CHOOSE i \in DOMAIN registered : registered[i] = n)
    /\ nodeStore' = HandleAll(nodeStore, <<[name |-> "NodeRemoved", node |-> n]>>)

\* removeNode() by the owner, removeNodeSelf() by the node, approved or not
RemoveNodeSelf(n) == Removes(n) /\ UNCHANGED <<requiresWhitelist, whitelist>>

\* whitelistApproveNode(), whitelistRejectNode(): who is registered stays so.
WhitelistNode(n, verdict) ==
    /\ whitelist' = [whitelist EXCEPT ![n] = verdict]
    /\ UNCHANGED <<list, requiresWhitelist, nodeStore, registered>>

\* kickOut() reverts for a node that is not registered.
KickOut(n) ==
    /\ whitelist' = [whitelist EXCEPT ![n] = "Rejected"]
    /\ Removes(n)
    /\ UNCHANGED requiresWhitelist

SetRequiresWhitelist(value) ==
    /\ requiresWhitelist' = value
    /\ UNCHANGED <<list, whitelist, nodeStore, registered>>

ListNext ==
    \/ \E n \in NodeAccounts : OwnerRegisters(n)
    \/ \E n \in NodeAccounts : CreateOrUpdateNodeSelf(n)
    \/ \E n \in NodeAccounts : RemoveNodeSelf(n)
    \/ \E n \in NodeAccounts, verdict \in {"Approved", "Rejected"} : WhitelistNode(n, verdict)
    \/ \E n \in NodeAccounts : KickOut(n)
    \/ \E value \in BOOLEAN : SetRequiresWhitelist(value)

-----------------------------------------------------------------------------
(* Properties *)

\* Whoever is added and removed, at the head, in the middle, at the tail or as the
\* only one: getNodes returns every registered node once, in the order in which they
\* registered, the list read backwards from the tail is the same in reverse, and the
\* Node entities are for these nodes.
NodesAreListed ==
    /\ Walk(list.headNode, "next") = registered
    /\ Walk(list.tailNode, "prev") = Reverse(registered)
    /\ list.headNode = ZeroAddress <=> registered = <<>>
    /\ list.tailNode = ZeroAddress <=> registered = <<>>
    /\ DOMAIN nodeStore.nodes = ToSet(registered)

=============================================================================
