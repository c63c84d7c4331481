--------------------------- MODULE StreamRegistry ---------------------------
(***************************************************************************)
(* StreamRegistryV5, NodeRegistry and StreamStorageRegistryV2, with the    *)
(* subgraph that follows their events.  One action per contract function   *)
(* that changes the state.  Who may take an id that is free (the address   *)
(* or the ENS name that it starts with) is left to ENSSync.                *)
(*                                                                         *)
(* A permission says until when it holds: Edit, Delete and Grant are never *)
(* or forever, Publish and Subscribe are timed.  It is stored under a hash *)
(* of the stream's version and the user, here the pair of them, so that    *)
(* the permissions of a deleted stream are out of reach once a new stream  *)
(* takes its id.                                                           *)
(***************************************************************************)
EXTENDS Integers, Sequences, StreamIndex

CONSTANTS Streams, Users, Public,   \* Public: PUBLIC_PERMISSION_USER_ID
          Nodes, Metadata, NoMetadata,
          GrantTypes,               \* the types granted and revoked one by one
          MaxTime, MaxVersion,      \* bounds: block time, how often a stream is created
          MaxChanges                \* bound: permission changes per stream

ASSUME RegistryAssumption ==
    /\ Public \notin Users /\ NoMetadata \notin Metadata
    /\ {MaxTime, MaxVersion, MaxChanges} \subseteq Nat

VARIABLES metadata,     \* streamIdToMetadata
          version,      \* streamIdToVersion
          permissions,  \* streamIdToPermissions; what is not there is all zeros
          now,          \* block.timestamp
          nodes, pairs, \* registered nodes; the storage registry's <<stream, node>> pairs
          store,        \* the subgraph's entities
          granted,      \* history: who was given something since the stream was created
          removed,      \* history: the nodes that were removed at some time
          changes       \* history: permission changes

registryVars == <<metadata, version, permissions, now, nodes, pairs, store, granted, removed, changes>>

Types == {"Edit", "Delete", "Publish", "Subscribe", "Grant"}
Timed == {"Publish", "Subscribe"}
Forever == MaxTime + 1        \* MAX_INT

Targets == Users \cup {Public}
NoPermission == [t \in Types |-> 0]
FullPermission == [t \in Types |-> Forever]

\* What setPermissionsForUser is called with.
Inputs == {NoPermission, FullPermission}
            \cup {[t \in Types |-> IF t \in Timed THEN MaxTime - 1 ELSE 0]}

RegistryInit ==
    /\ metadata = [s \in Streams |-> NoMetadata]
    /\ version = [s \in Streams |-> 0]
    /\ permissions = [s \in Streams |-> <<>>]
    /\ now = 1
    /\ nodes = {} /\ pairs = {}
    /\ store = NewStore
    /\ granted = [s \in Streams |-> {}]
    /\ removed = {}
    /\ changes = [s \in Streams |-> 0]

Exists(s) == metadata[s] # NoMetadata

UserKeyUnversioned(s, user) == <<1, user>>

UserKey(s, user) == <<version[s], user>>

PermissionAt(s, key) ==
    IF key \in DOMAIN permissions[s] THEN permissions[s][key] ELSE NoPermission

Holds(p) == {t \in Types : p[t] >= now}

\* hasDirectPermission
HasDirectPermission(s, user, type) == type \in Holds(PermissionAt(s, UserKey(s, user)))

HasGrantPermission(s, user) == Exists(s) /\ HasDirectPermission(s, user, "Grant")

Emit(events) == store' = HandleAll(store, events)

PermissionUpdated(s, user, p) ==
    [name |-> "PermissionUpdated", stream |-> s, user |-> user, permission |-> p]

Stored(s, user, p) == [permissions EXCEPT ![s] = Save(@, UserKey(s, user), p)]
Deleted(s, user) == [permissions EXCEPT ![s] = Without(@, UserKey(s, user))]

\* A permission that holds nothing any more is deleted.
StoredUnlessVoid(s, user, p) == IF Holds(p) = {} THEN Deleted(s, user) ELSE Stored(s, user, p)

-----------------------------------------------------------------------------
(* StreamRegistryV5 *)

\* _createStreamAndPermission; owner is who gets every permission.
CreateStreamAndPermission(s, owner, m) ==
    /\ ~Exists(s) /\ m # NoMetadata
    /\ version[s] < MaxVersion
    /\ version' = [version EXCEPT ![s] = @ + 1]
    /\ metadata' = [metadata EXCEPT ![s] = m]
    /\ permissions' = [permissions EXCEPT ![s] = Save(@, <<version'[s], owner>>, FullPermission)]
    /\ Emit(<<[name |-> "StreamCreated", stream |-> s, metadata |-> m],
              PermissionUpdated(s, owner, FullPermission)>>)
    /\ granted' = [granted EXCEPT ![s] = {owner}]
    /\ UNCHANGED <<now, nodes, pairs, removed, changes>>

\* deleteStream: the permissions stay where they are.
DeleteStream(s, sender) ==
    /\ Exists(s) /\ HasDirectPermission(s, sender, "Delete")
    /\ metadata' = [metadata EXCEPT ![s] = NoMetadata]
    /\ Emit(<<[name |-> "StreamDeleted", stream |-> s]>>)
    /\ UNCHANGED <<version, permissions, now, nodes, pairs, granted, removed, changes>>

\* updateStreamMetadata; empty metadata makes the stream vanish from the contract.
UpdateStreamMetadata(s, sender, m) ==
    /\ Exists(s) /\ HasDirectPermission(s, sender, "Edit")
    /\ metadata' = [metadata EXCEPT ![s] = m]
    /\ Emit(<<[name |-> "StreamUpdated", stream |-> s, metadata |-> m]>>)
    /\ UNCHANGED <<version, permissions, now, nodes, pairs, granted, removed, changes>>

\* Bookkeeping of a permission change; not in the contract.
PermissionChanged(s, user) ==
    /\ changes[s] < MaxChanges
    /\ changes' = [changes EXCEPT ![s] = @ + 1]
    /\ granted' = [granted EXCEPT ![s] = @ \cup {user}]
    /\ UNCHANGED <<metadata, version, now, nodes, pairs, removed>>

\* _setAllPermissions and the event
SetAllPermissions(s, user, p) ==
    /\ Holds(p) = {} \/ user # Public \/ Holds(p) \subseteq Timed
    /\ permissions' = StoredUnlessVoid(s, user, p)
    /\ Emit(<<PermissionUpdated(s, user, p)>>)
    /\ PermissionChanged(s, user)

\* setPermissionsForUser, setPermissions, setPublicPermission
SetPermissionsForUser(s, sender, user, p) ==
    HasGrantPermission(s, sender) /\ SetAllPermissions(s, user, p)

\* trustedSetPermissionsForUser, called by the ProjectRegistry for a subscriber
TrustedSetPermissionsForUser(s, user, expiration) ==
    SetAllPermissions(s, user, [NoPermission EXCEPT !["Subscribe"] = expiration])

\* grantPermission, revokePermission and their variants for public and user ids
SetPermission(s, user, type, grant) ==
    LET p == [PermissionAt(s, UserKey(s, user)) EXCEPT ![type] = IF grant THEN Forever ELSE 0]
    IN  /\ user # Public \/ type \in Timed
        /\ permissions' = StoredUnlessVoid(s, user, p)
        /\ Emit(<<PermissionUpdated(s, user, p)>>)
        /\ PermissionChanged(s, user)

GrantPermission(s, sender, user, type) ==
    HasGrantPermission(s, sender) /\ SetPermission(s, user, type, TRUE)

MayRevoke(s, sender, user) ==
    Exists(s) /\ (HasDirectPermission(s, sender, "Grant") \/ sender = user)

RevokePermission(s, sender, user, type) ==
    MayRevoke(s, sender, user) /\ SetPermission(s, user, type, FALSE)

RevokeAllPermissionsForUser(s, sender, user) ==
    /\ MayRevoke(s, sender, user)
    /\ permissions' = Deleted(s, user)
    /\ Emit(<<PermissionUpdated(s, user, NoPermission)>>)
    /\ PermissionChanged(s, user)

\* setExpirationTime: an expired permission is kept.
SetExpirationTime(s, sender, user, type, expiration) ==
    LET p == [PermissionAt(s, UserKey(s, user)) EXCEPT ![type] = expiration]
    IN  /\ HasGrantPermission(s, sender) /\ type \in Timed
        /\ permissions' = Stored(s, user, p)
        /\ Emit(<<PermissionUpdated(s, user, p)>>)
        /\ PermissionChanged(s, user)

-----------------------------------------------------------------------------
(* The nodes of NodeRegistry, as a set, and StreamStorageRegistryV2        *)

\* _createOrUpdateNode
CreateOrUpdateNode(n) ==
    /\ nodes' = nodes \cup {n}
    /\ Emit(<<[name |-> "NodeUpdated", node |-> n]>>)
    /\ UNCHANGED <<metadata, version, permissions, now, pairs, granted, removed, changes>>

\* _removeNode: the pairs of the node stay.
RemoveNode(n) ==
    /\ n \in nodes
    /\ nodes' = nodes \ {n}
    /\ removed' = removed \cup {n}
    /\ Emit(<<[name |-> "NodeRemoved", node |-> n]>>)
    /\ UNCHANGED <<metadata, version, permissions, now, pairs, granted, changes>>

\* onlyEditorOrTrusted asks for a public or a direct permission.
MayEdit(s, sender) ==
    Exists(s) /\ \E user \in {sender, Public} : HasDirectPermission(s, user, "Edit")

AddStorageNode(s, sender, n) ==
    /\ MayEdit(s, sender) /\ n \in nodes
    /\ pairs' = pairs \cup {<<s, n>>}
    /\ Emit(<<[name |-> "Added", stream |-> s, node |-> n]>>)
    /\ UNCHANGED <<metadata, version, permissions, now, nodes, granted, removed, changes>>

RemoveStorageNode(s, sender, n) ==
    /\ MayEdit(s, sender)
    /\ pairs' = pairs \ {<<s, n>>}
    /\ Emit(<<[name |-> "Removed", stream |-> s, node |-> n]>>)
    /\ UNCHANGED <<metadata, version, permissions, now, nodes, granted, removed, changes>>

Tick ==
    /\ now < MaxTime
    /\ now' = now + 1
    /\ UNCHANGED <<metadata, version, permissions, nodes, pairs, store, granted, removed, changes>>

StreamCall(s, sender) ==
    \/ DeleteStream(s, sender)
    \/ \E m \in Metadata \cup {NoMetadata} : UpdateStreamMetadata(s, sender, m)
    \/ \E user \in Targets, p \in Inputs : SetPermissionsForUser(s, sender, user, p)
    \/ \E user \in Targets, type \in GrantTypes : GrantPermission(s, sender, user, type)
    \/ \E user \in Targets, type \in GrantTypes : RevokePermission(s, sender, user, type)
    \/ \E user \in Targets : RevokeAllPermissionsForUser(s, sender, user)
    \/ \E user \in Targets, type \in GrantTypes, expiration \in {0, MaxTime} :
         SetExpirationTime(s, sender, user, type, expiration)
    \/ \E n \in Nodes : AddStorageNode(s, sender, n)
    \/ \E n \in Nodes : RemoveStorageNode(s, sender, n)

RegistryNext ==
    \/ \E s \in Streams, sender \in Users : StreamCall(s, sender)
    \/ \E s \in Streams, user \in Users : TrustedSetPermissionsForUser(s, user, MaxTime)
    \/ \E n \in Nodes : CreateOrUpdateNode(n)
    \/ \E n \in Nodes : RemoveNode(n)
    \/ Tick

StreamNext ==
    \/ \E s \in Streams, user \in Users, m \in Metadata : CreateStreamAndPermission(s, user, m)
    \/ RegistryNext

StreamSpec == RegistryInit /\ [][StreamNext]_registryVars

-----------------------------------------------------------------------------
(* Properties *)

\* Nobody has a permission for a stream that was not given to them since this
\* stream was created: what was given for an earlier stream of the same id is gone.
PermissionsAreGiven ==
    \A s \in Streams : \A user \in Targets \ granted[s] :
        Exists(s) => Holds(PermissionAt(s, UserKey(s, user))) = {}

\* The Stream entities are the streams that exist.  One that vanished because its
\* metadata was emptied is shown with empty metadata.
EntitiesOfStreams ==
    LET shown == {s \in DOMAIN store.streams : store.streams[s] # NoMetadata}
    IN  /\ shown = {s \in Streams : Exists(s)}
        /\ \A s \in shown : store.streams[s] = metadata[s]

\* A StreamPermission of an existing stream shows what its user can do, unless
\* nobody has touched that user's permission since the stream was created anew:
\* then it may be what was left over from the stream before.
EntitiesOfPermissions ==
    \A s \in Streams : \A user \in granted[s] :
        Exists(s) => /\ <<s, user>> \in DOMAIN store.permissions
                     /\ Holds(store.permissions[<<s, user>>])
                          = Holds(PermissionAt(s, UserKey(s, user)))

\* The subgraph shows the streams that exist, and for each of them what every user
\* can do who was given something since it was created.
StreamsShown == ~store.halted => EntitiesOfStreams /\ EntitiesOfPermissions

\* The storage nodes shown for a stream are those of the storage registry,
\* except for nodes that were removed from the node registry at some time: their
\* pairs stay, and count again when they come back, but are shown no more.
StorageNodesShown ==
    ~store.halted =>
        /\ DOMAIN store.nodes = nodes
        /\ \A n \in nodes :
             LET stored == {s \in Streams : <<s, n>> \in pairs}
             IN  IF n \in removed THEN store.nodes[n] \subseteq stored
                 ELSE store.nodes[n] = stored

=============================================================================
