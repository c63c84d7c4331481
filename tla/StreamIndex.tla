----------------------------- MODULE StreamIndex -----------------------------
(***************************************************************************)
(* The subgraph's view of the stream registry, the node registry and the   *)
(* storage registry: the Stream, StreamPermission and Node entities and    *)
(* the handlers that update them, one for each event.  A handler reads its *)
(* event and the store only.                                               *)
(*                                                                         *)
(* A StreamPermission is stored under the hash of stream and user, here    *)
(* the pair of them.  A handler that dereferences null halts the subgraph: *)
(* the store then stays as it was.  Left out: times, and the ids that are  *)
(* too long to be handled.                                                 *)
(***************************************************************************)
EXTENDS Sequences, SequencesExt

NewStore == [streams |-> <<>>, permissions |-> <<>>, nodes |-> <<>>, halted |-> FALSE]

Save(entities, id, entity) ==
    [i \in DOMAIN entities \cup {id} |-> IF i = id THEN entity ELSE entities[i]]

Without(entities, id) == [i \in DOMAIN entities \ {id} |-> entities[i]]

HandleStreamCreation(store, e) == [store EXCEPT !.streams = Save(@, e.stream, e.metadata)]

HandleStreamDeletionLeavesIt(store, e) == store

\* The permissions of a deleted stream stay.
HandleStreamDeletion(store, e) == [store EXCEPT !.streams = Without(@, e.stream)]

\* Creates the entity if need be, see the comment on trustedSetStreamMetadata.
HandleStreamUpdate(store, e) == [store EXCEPT !.streams = Save(@, e.stream, e.metadata)]

HandlePermissionUpdateOnce(store, e) ==
    IF e.stream \notin DOMAIN store.streams \/ <<e.stream, e.user>> \in DOMAIN store.permissions
    THEN store
    ELSE [store EXCEPT !.permissions = Save(@, <<e.stream, e.user>>, e.permission)]

\* The handlers of PermissionUpdated and of PermissionUpdatedForUserId.
HandlePermissionUpdate(store, e) ==
    IF e.stream \notin DOMAIN store.streams THEN store
    ELSE [store EXCEPT !.permissions = Save(@, <<e.stream, e.user>>, e.permission)]

HandleNodeUpdateAfresh(store, e) == [store EXCEPT !.nodes = Save(@, e.node, {})]

\* A node keeps the streams it stores when it is updated.
HandleNodeUpdate(store, e) ==
    IF e.node \in DOMAIN store.nodes THEN store
    ELSE [store EXCEPT !.nodes = Save(@, e.node, {})]

HandleNodeRemoved(store, e) == [store EXCEPT !.nodes = Without(@, e.node)]

Halted(store) == [store EXCEPT !.halted = TRUE]

HandleStorageNodeAddedToStream(store, e) ==
    IF e.node \notin DOMAIN store.nodes THEN Halted(store)
    ELSE [store EXCEPT !.nodes[e.node] = @ \cup {e.stream}]

\* The null check comes after a dereference: "Node.load(nodeId)!".
HandleStorageNodeRemovedFromStream(store, e) ==
    IF e.node \notin DOMAIN store.nodes THEN Halted(store)
    ELSE [store EXCEPT !.nodes[e.node] = @ \ {e.stream}]

Handle(store, e) ==
    IF store.halted THEN store ELSE
    CASE e.name = "StreamCreated"          -> HandleStreamCreation(store, e)
      [] e.name = "StreamDeleted"          -> HandleStreamDeletion(store, e)
      [] e.name = "StreamUpdated"          -> HandleStreamUpdate(store, e)
      [] e.name = "PermissionUpdated"      -> HandlePermissionUpdate(store, e)
      [] e.name = "NodeUpdated"            -> HandleNodeUpdate(store, e)
      [] e.name = "NodeRemoved"            -> HandleNodeRemoved(store, e)
      [] e.name = "Added"                  -> HandleStorageNodeAddedToStream(store, e)
      [] e.name = "Removed"                -> HandleStorageNodeRemovedFromStream(store, e)

\* The store after a transaction's events, in the order of its log.
HandleAll(store, events) == FoldLeft(Handle, store, events)

=============================================================================
