--------------------------- MODULE RegistriesProofs ---------------------------
(***************************************************************************)
(* The registries, for any number of streams, users, nodes, requests and   *)
(* crashes.  What was given for a stream is out of reach once the stream   *)
(* has been deleted and its id taken again; only who has owned an ENS name *)
(* creates streams under it; the linked list of NodeRegistry lists the     *)
(* registered nodes, each once and in the order in which they registered,  *)
(* read from either end; and the subgraph shows the nodes, the streams,    *)
(* what their users may do and where they are stored.                      *)
(***************************************************************************)
EXTENDS Registries, ENSSync, SequenceTheorems, SumProofs, TLAPS

-----------------------------------------------------------------------------
(* Permissions and the owners of ENS names *)

\* A permission that is stored belongs to this version of the stream or to an
\* earlier one, and in the first case its user was given something.
KeyIsKnown(s, key) ==
    /\ key[1] \in Nat
    /\ key[1] <= version[s]
    /\ key[1] = version[s] => key[2] \in granted[s]

\* Strengthens PermissionsAreGiven: what is stored for other versions matters,
\* because a new stream must find nothing under its own version.
KeysAreKnown == \A s \in Streams : \A key \in DOMAIN permissions[s] : KeyIsKnown(s, key)

RegistryType ==
    /\ now \in Nat \ {0}
    /\ version \in [Streams -> Nat]
    /\ permissions = [s \in Streams |-> permissions[s]]
    /\ granted = [s \in Streams |-> granted[s]]

RegistryInv == RegistryType /\ KeysAreKnown

-----------------------------------------------------------------------------
(* PermissionsAreGiven *)

LEMMA RegistryInvHoldsInitially == RegistryInit => RegistryInv
  BY DEF RegistryInit, RegistryInv, RegistryType, KeysAreKnown

\* What is not stored holds nothing.
LEMMA KnownKeysSuffice == RegistryInv => PermissionsAreGiven
<1> SUFFICES ASSUME RegistryInv, NEW s \in Streams, NEW user \in Targets \ granted[s]
             PROVE  Holds(PermissionAt(s, UserKey(s, user))) = {}
  BY DEF PermissionsAreGiven
<1>1. UserKey(s, user) \notin DOMAIN permissions[s]
  BY DEF RegistryInv, KeysAreKnown, KeyIsKnown, UserKey
<1>2. PermissionAt(s, UserKey(s, user)) = NoPermission
  BY <1>1 DEF PermissionAt
<1>3. \A t \in Types : ~(NoPermission[t] >= now)
  BY DEF NoPermission, RegistryInv, RegistryType
<1> QED
  BY <1>2, <1>3 DEF Holds

\* The permissions of one user under the present version are stored or deleted,
\* and the user is remembered.
LEMMA ChangeKeepsRegistryInv ==
    ASSUME RegistryInv, NEW s \in Streams, NEW user, NEW p,
           \/ permissions' = Stored(s, user, p)
           \/ permissions' = Deleted(s, user),
           PermissionChanged(s, user)
    PROVE  RegistryInv'
<1>1. /\ now' = now
      /\ version' = version
      /\ granted' = [granted EXCEPT ![s] = granted[s] \cup {user}]
  BY DEF PermissionChanged
<1>2. PICK entries : /\ permissions' = [permissions EXCEPT ![s] = entries]
                     /\ DOMAIN entries \subseteq DOMAIN permissions[s] \cup {UserKey(s, user)}
  BY DEF Stored, Deleted, Save, Without
<1>3. RegistryType'
  BY <1>1, <1>2 DEF RegistryInv, RegistryType
<1>4. ASSUME NEW r \in Streams, NEW key \in DOMAIN permissions'[r]
      PROVE  KeyIsKnown(r, key)'
  <2>1. CASE r # s
    <3>1. permissions'[r] = permissions[r] /\ granted'[r] = granted[r]
      BY <1>1, <1>2, <2>1 DEF RegistryInv, RegistryType
    <3> QED
      BY <1>1, <3>1 DEF RegistryInv, KeysAreKnown, KeyIsKnown
  <2>2. CASE r = s
    <3>1. permissions'[s] = entries /\ granted'[s] = granted[s] \cup {user}
      BY <1>1, <1>2 DEF RegistryInv, RegistryType
    <3>2. CASE key \in DOMAIN permissions[s]
      BY <1>1, <2>2, <3>1, <3>2 DEF RegistryInv, KeysAreKnown, KeyIsKnown
    <3>3. CASE key = UserKey(s, user)
      BY <1>1, <2>2, <3>1, <3>3 DEF RegistryInv, RegistryType, KeyIsKnown, UserKey
    <3> QED
      BY <1>2, <2>2, <3>1, <3>2, <3>3
  <2> QED
    BY <2>1, <2>2
<1> QED
  BY <1>3, <1>4 DEF RegistryInv, KeysAreKnown

\* A new version starts with its creator's permission alone.
LEMMA CreationKeepsRegistryInv ==
    ASSUME RegistryInv, NEW s \in Streams, NEW creator, NEW m,
           CreateStreamAndPermission(s, creator, m)
    PROVE  RegistryInv'
<1>1. /\ now' = now
      /\ version' = [version EXCEPT ![s] = version[s] + 1]
      /\ granted' = [granted EXCEPT ![s] = {creator}]
      /\ permissions' = [permissions EXCEPT ![s] =
                            Save(permissions[s], <<version'[s], creator>>, FullPermission)]
  BY DEF CreateStreamAndPermission
<1>2. RegistryType'
  <2>1. version' \in [Streams -> Nat]
    BY <1>1 DEF RegistryInv, RegistryType
  <2>2. PICK entries : permissions' = [permissions EXCEPT ![s] = entries]
    BY <1>1
  <2>3. permissions' = [r \in Streams |-> permissions'[r]]
    BY <2>2 DEF RegistryInv, RegistryType
  <2> QED
    BY <1>1, <2>1, <2>3 DEF RegistryInv, RegistryType
<1>3. ASSUME NEW r \in Streams, NEW key \in DOMAIN permissions'[r]
      PROVE  KeyIsKnown(r, key)'
  <2>1. CASE r # s
    <3>1. /\ permissions'[r] = permissions[r]
          /\ granted'[r] = granted[r]
          /\ version'[r] = version[r]
      BY <1>1, <2>1 DEF RegistryInv, RegistryType
    <3> QED
      BY <3>1 DEF RegistryInv, KeysAreKnown, KeyIsKnown
  <2>2. CASE r = s
    <3>1. /\ version[s] \in Nat
          /\ version'[s] = version[s] + 1
          /\ granted'[s] = {creator}
          /\ key \in DOMAIN permissions[s] \cup {<<version'[s], creator>>}
      BY <1>1, <2>2 DEF RegistryInv, RegistryType, Save
    <3>2. CASE key \in DOMAIN permissions[s]
      <4>1. key[1] \in Nat /\ key[1] <= version[s]
        BY <3>2 DEF RegistryInv, KeysAreKnown, KeyIsKnown
      <4> QED
        BY <2>2, <3>1, <4>1 DEF KeyIsKnown
    <3>3. CASE key = <<version'[s], creator>>
      BY <2>2, <3>1, <3>3 DEF KeyIsKnown
    <3> QED
      BY <3>1, <3>2, <3>3
  <2> QED
    BY <2>1, <2>2
<1> QED
  BY <1>2, <1>3 DEF RegistryInv, KeysAreKnown

\* Steps that leave versions, permissions and the history of grants alone.
LEMMA OtherStepsKeepRegistryInv ==
    ASSUME RegistryInv, UNCHANGED <<version, permissions, granted>>,
           now' = now \/ now' = now + 1
    PROVE  RegistryInv'
<1>1. RegistryType'
  BY DEF RegistryInv, RegistryType
<1>2. KeysAreKnown'
  BY DEF RegistryInv, KeysAreKnown, KeyIsKnown
<1> QED
  BY <1>1, <1>2 DEF RegistryInv

LEMMA SetAllPermissionsKeepsRegistryInv ==
    ASSUME RegistryInv, NEW s \in Streams, NEW user, NEW p, SetAllPermissions(s, user, p)
    PROVE  RegistryInv'
  BY ChangeKeepsRegistryInv DEF SetAllPermissions, StoredUnlessVoid

LEMMA SetPermissionKeepsRegistryInv ==
    ASSUME RegistryInv, NEW s \in Streams, NEW user, NEW type, NEW grant,
           SetPermission(s, user, type, grant)
    PROVE  RegistryInv'
<1> DEFINE p == [PermissionAt(s, UserKey(s, user)) EXCEPT ![type] = IF grant THEN Forever ELSE 0]
<1>1. /\ permissions' = StoredUnlessVoid(s, user, p)
      /\ PermissionChanged(s, user)
  BY DEF SetPermission
<1> QED
  BY <1>1, ChangeKeepsRegistryInv DEF StoredUnlessVoid

LEMMA StreamCallKeepsRegistryInv ==
    ASSUME RegistryInv, NEW s \in Streams, NEW sender \in Users, StreamCall(s, sender)
    PROVE  RegistryInv'
<1>1. CASE DeleteStream(s, sender)
  BY <1>1, OtherStepsKeepRegistryInv DEF DeleteStream
<1>2. ASSUME NEW m, UpdateStreamMetadata(s, sender, m)
      PROVE  RegistryInv'
  BY <1>2, OtherStepsKeepRegistryInv DEF UpdateStreamMetadata
<1>3. ASSUME NEW user, NEW p, SetPermissionsForUser(s, sender, user, p)
      PROVE  RegistryInv'
  BY <1>3, SetAllPermissionsKeepsRegistryInv DEF SetPermissionsForUser
<1>4. ASSUME NEW user, NEW type,
             \/ GrantPermission(s, sender, user, type)
             \/ RevokePermission(s, sender, user, type)
      PROVE  RegistryInv'
  BY <1>4, SetPermissionKeepsRegistryInv DEF GrantPermission, RevokePermission
<1>5. ASSUME NEW user, RevokeAllPermissionsForUser(s, sender, user)
      PROVE  RegistryInv'
  BY <1>5, ChangeKeepsRegistryInv DEF RevokeAllPermissionsForUser
<1>6. ASSUME NEW user, NEW type, NEW expiration,
             SetExpirationTime(s, sender, user, type, expiration)
      PROVE  RegistryInv'
  BY <1>6, ChangeKeepsRegistryInv DEF SetExpirationTime
<1>7. ASSUME NEW n, AddStorageNode(s, sender, n) \/ RemoveStorageNode(s, sender, n)
      PROVE  RegistryInv'
  BY <1>7, OtherStepsKeepRegistryInv DEF AddStorageNode, RemoveStorageNode
<1> QED
  BY <1>1, <1>2, <1>3, <1>4, <1>5, <1>6, <1>7 DEF StreamCall

LEMMA RegistryStepKeepsRegistryInv ==
    ASSUME RegistryInv, RegistryNext \/ UNCHANGED registryVars
    PROVE  RegistryInv'
<1>1. ASSUME NEW s \in Streams, NEW user, TrustedSetPermissionsForUser(s, user, MaxTime)
      PROVE  RegistryInv'
  BY <1>1, SetAllPermissionsKeepsRegistryInv DEF TrustedSetPermissionsForUser
<1>2. ASSUME NEW n, CreateOrUpdateNode(n) \/ RemoveNode(n)
      PROVE  RegistryInv'
  BY <1>2, OtherStepsKeepRegistryInv DEF CreateOrUpdateNode, RemoveNode
<1>3. CASE Tick
  BY <1>3, OtherStepsKeepRegistryInv DEF Tick
<1>4. CASE UNCHANGED registryVars
  BY <1>4, OtherStepsKeepRegistryInv DEF registryVars
<1> QED
  BY <1>1, <1>2, <1>3, <1>4, StreamCallKeepsRegistryInv DEF RegistryNext

\* Nobody has a permission for a stream that was not given to them since this
\* stream was created: deleteStream leaves the permissions where they are, and
\* the version in their key keeps them from the next stream of that id.
THEOREM PermissionsAreGivenAlways == StreamSpec => []PermissionsAreGiven
<1>1. RegistryInv /\ [StreamNext]_registryVars => RegistryInv'
  BY CreationKeepsRegistryInv, RegistryStepKeepsRegistryInv DEF StreamNext
<1> QED
  BY <1>1, RegistryInvHoldsInitially, KnownKeysSuffice, PTL DEF StreamSpec

-----------------------------------------------------------------------------
(* CreatorsOwnTheName *)

\* The request under way has been checked, or is still to be: beyond the check
\* its requestor has owned the name.
ScriptInv ==
    /\ script \in Script
    /\ events \in Seq(Requests)
    /\ ensOwner \in everOwners
    /\ script.chain = <<>> => script.phase = "check"
    /\ script.phase # "check" => Head(script.chain).requestor \in everOwners

\* The cached owner was checked when it was stored.
CacheInv == owner = NoOwner \/ owner \in everOwners

ENSInv == RegistryInv /\ ScriptInv /\ CacheInv

LEMMA ENSInvHoldsInitially == Init => ENSInv
<1> SUFFICES ASSUME Init PROVE ENSInv
  OBVIOUS
<1>1. RegistryInv /\ CacheInv
  BY RegistryInvHoldsInitially DEF Init, CacheInv
<1>2. ScriptInv
  BY DEF Init, ScriptInv, Script, Started, Phases
<1> QED
  BY <1>1, <1>2 DEF ENSInv

LEMMA TypesOfScript ==
    ASSUME ScriptInv
    PROVE  /\ script = [up |-> script.up, chain |-> script.chain,
                        phase |-> script.phase, retry |-> script.retry]
           /\ script.up \in BOOLEAN
           /\ script.chain \in Seq(Requests)
           /\ script.phase \in Phases
           /\ script.retry \in BOOLEAN
  BY DEF ScriptInv, Script

\* The mutex is released: the next request has to be checked.
LEMMA ReleasedIsSafe ==
    ASSUME ScriptInv, script.chain # <<>>
    PROVE  /\ Released \in Script
           /\ Released.phase = "check"
<1>1. Tail(script.chain) \in Seq(Requests)
  BY TypesOfScript
<1>2. Released = [up |-> script.up, chain |-> Tail(script.chain),
                  phase |-> "check", retry |-> TRUE]
  <2>1. PICK rest : rest = Tail(script.chain)
    OBVIOUS
  <2>2. Released = [script EXCEPT !.chain = rest, !.phase = "check", !.retry = TRUE]
    BY <2>1 DEF Released
  <2>3. Released = [up |-> script.up, chain |-> rest, phase |-> "check", retry |-> TRUE]
    BY <2>2, TypesOfScript
  <2> QED
    BY <2>1, <2>3
<1> QED
  BY <1>1, <1>2, TypesOfScript DEF Script, Phases

\* The script goes on with the same request, which has been checked.
LEMMA SamePhaseIsSafe ==
    ASSUME ScriptInv, NEW phase \in Phases, NEW retry \in BOOLEAN,
           script.chain # <<>>, Head(script.chain).requestor \in everOwners,
           script' = [script EXCEPT !.phase = phase, !.retry = retry],
           UNCHANGED <<ensOwner, events, everOwners>>
    PROVE  ScriptInv'
<1>1. script' = [up |-> script.up, chain |-> script.chain, phase |-> phase, retry |-> retry]
  BY TypesOfScript
<1>2. script' \in Script
  BY <1>1, TypesOfScript DEF Script
<1> QED
  BY <1>1, <1>2 DEF ScriptInv

LEMMA ReleaseIsSafe ==
    ASSUME ScriptInv, script.chain # <<>>, script' = Released,
           UNCHANGED <<ensOwner, events, everOwners>>
    PROVE  ScriptInv'
  BY ReleasedIsSafe DEF ScriptInv

LEMMA GoToIsSafe ==
    ASSUME ScriptInv, NEW phase \in Phases, GoTo(phase),
           script.chain # <<>>, Head(script.chain).requestor \in everOwners,
           UNCHANGED <<ensOwner, events, everOwners>>
    PROVE  ScriptInv'
<1>1. script' = [script EXCEPT !.phase = phase, !.retry = script.retry]
  BY TypesOfScript DEF GoTo
<1> QED
  BY <1>1, SamePhaseIsSafe, TypesOfScript

LEMMA FailureIsSafe ==
    ASSUME ScriptInv, script' = Failed, script.chain # <<>>,
           Head(script.chain).requestor \in everOwners,
           UNCHANGED <<ensOwner, events, everOwners>>
    PROVE  ScriptInv'
<1>1. CASE script.retry
  BY <1>1, SamePhaseIsSafe DEF Failed, Phases
<1>2. CASE ~script.retry
  BY <1>2, ReleaseIsSafe DEF Failed
<1> QED
  BY <1>1, <1>2

\* One step of the script, the contract or the name's owner.
LEMMA StepKeepsScriptInv ==
    ASSUME ScriptInv, [Next]_vars
    PROVE  ScriptInv'
<1> USE DEF Busy, Current
<1>1. CASE UNCHANGED ensVars
  BY <1>1 DEF ensVars, ScriptInv
<1>2. ASSUME NEW s \in Streams, NEW user \in Users, NEW m \in Metadata,
             RequestENSOwnerAndCreateStream(s, user, m)
      PROVE  ScriptInv'
  <2>1. [stream |-> s, metadata |-> m, requestor |-> user] \in Requests
    BY DEF Requests
  <2>2. events' \in Seq(Requests)
    BY <1>2, <2>1 DEF RequestENSOwnerAndCreateStream, ScriptInv
  <2> QED
    BY <1>2, <2>2 DEF RequestENSOwnerAndCreateStream, ScriptInv
<1>3. CASE Deliver
  <2> DEFINE longer == Append(script.chain, Head(events))
  <2>1. /\ events' \in Seq(Requests)
        /\ longer \in Seq(Requests)
        /\ longer # <<>>
        /\ script.chain # <<>> => Head(longer) = Head(script.chain)
    <3>1. events \in Seq(Requests) /\ events # <<>> /\ events' = Tail(events)
      BY <1>3 DEF Deliver, ScriptInv
    <3>2. Head(events) \in Requests /\ Tail(events) \in Seq(Requests)
      BY <3>1
    <3>3. script.chain \in Seq(Requests)
      BY TypesOfScript
    <3>4. /\ longer \in Seq(Requests)
          /\ longer # <<>>
          /\ \A i \in 1 .. Len(script.chain) : longer[i] = script.chain[i]
      BY <3>2, <3>3, AppendProperties
    <3>5. script.chain # <<>> => longer[1] = script.chain[1]
      BY <3>3, <3>4
    <3> HIDE DEF Requests, longer
    <3> QED
      BY <3>1, <3>2, <3>3, <3>4, <3>5
  <2>2. script' = [up |-> script.up, chain |-> longer,
                   phase |-> script.phase, retry |-> script.retry]
    BY <1>3, TypesOfScript DEF Deliver
  <2>3. script' \in Script
    BY <2>1, <2>2, TypesOfScript DEF Script
  <2> HIDE DEF longer
  <2> QED
    <3>1. /\ script'.chain = longer
          /\ script'.phase = script.phase
          /\ UNCHANGED <<ensOwner, everOwners>>
      BY <1>3, <2>2 DEF Deliver
    <3>2. /\ ensOwner \in everOwners
          /\ script.phase # "check" => script.chain # <<>>
          /\ script.phase # "check" => Head(script.chain).requestor \in everOwners
      BY DEF ScriptInv
    <3> QED
      BY <2>1, <2>3, <3>1, <3>2 DEF ScriptInv
<1>4. CASE CheckOwner
  BY <1>4, GoToIsSafe, ReleaseIsSafe DEF CheckOwner, Release, Phases, ScriptInv
<1>5. CASE CheckExists
  BY <1>5, GoToIsSafe, ReleaseIsSafe DEF CheckExists, Release, Phases, ScriptInv
<1>6. CASE SendSucceeds
  BY <1>6, GoToIsSafe DEF SendSucceeds, Phases, ScriptInv
<1>7. CASE SendFails
  BY <1>7, FailureIsSafe DEF SendFails, ScriptInv
<1>8. CASE WaitForReceipt
  BY <1>8, FailureIsSafe, ReleaseIsSafe DEF WaitForReceipt, ScriptInv
<1>9. CASE Crash
  <2>1. script' = [up |-> FALSE, chain |-> <<>>, phase |-> "check", retry |-> TRUE]
    BY <1>9 DEF Crash, Started
  <2>2. script' \in Script
    BY <2>1 DEF Script, Phases
  <2>3. events' \in Seq(Requests)
    BY <1>9 DEF Crash
  <2> QED
    BY <1>9, <2>1, <2>2, <2>3 DEF Crash, ScriptInv
<1>10. CASE Restart
  BY <1>10 DEF Restart, Started, Script, Phases, ScriptInv
<1>11. ASSUME NEW user \in Users, TransferName(user)
       PROVE  ScriptInv'
  BY <1>11 DEF TransferName, ScriptInv
<1>12. CASE UNCHANGED vars
  BY <1>12 DEF vars, ensVars, ScriptInv
<1> QED
  BY <1>1, <1>2, <1>3, <1>4, <1>5, <1>6, <1>7, <1>8, <1>9, <1>10, <1>11, <1>12
     DEF Next, CreateAsCachedOwner

\* What a step does to the registry and the cache: nothing that CacheInv and
\* RegistryInv tell apart, or it creates a stream for someone who owned the name.
LEMMA StepsOfTheRegistry ==
    ASSUME ENSInv, [Next]_vars
    PROVE  \/ /\ RegistryNext \/ UNCHANGED registryVars
              /\ owner' = owner /\ everOwners \subseteq everOwners'
           \/ \E s \in Streams : \E m : \E creator \in everOwners :
                 /\ CreateStreamAndPermission(s, creator, m)
                 /\ owner' = creator /\ everOwners' = everOwners
<1>1. CASE RegistryNext /\ UNCHANGED ensVars
  BY <1>1 DEF ensVars
<1>2. ASSUME NEW s \in Streams, NEW user \in Users, NEW m \in Metadata,
             CreateAsCachedOwner(s, user, m)
      PROVE  /\ CreateStreamAndPermission(s, user, m) /\ user \in everOwners
             /\ owner' = user /\ everOwners' = everOwners
  BY <1>2, ENSAssumption DEF CreateAsCachedOwner, ensVars, ENSInv, CacheInv
<1>3. ASSUME NEW s \in Streams, NEW user \in Users, NEW m \in Metadata,
             RequestENSOwnerAndCreateStream(s, user, m)
      PROVE  UNCHANGED <<registryVars, owner, everOwners>>
  BY <1>3 DEF RequestENSOwnerAndCreateStream
<1>4. CASE Deliver \/ CheckOwner \/ CheckExists \/ SendFails \/ WaitForReceipt \/ Crash \/ Restart
  BY <1>4 DEF Deliver, CheckOwner, CheckExists, SendFails, WaitForReceipt, Crash, Restart
<1>5. CASE SendSucceeds
  <2>1. /\ Current \in Requests
        /\ Current.requestor \in everOwners
        /\ owner' = Current.requestor /\ everOwners' = everOwners
        /\ CreateStreamAndPermission(Current.stream, Current.requestor, Current.metadata)
    BY <1>5, TypesOfScript DEF SendSucceeds, FulfillENSOwner, Busy, Current, ENSInv, ScriptInv
  <2>2. PICK request \in Requests : request = Current
    BY <2>1
  <2>3. request.stream \in Streams
    BY <2>2 DEF Requests
  <2> QED
    BY <2>1, <2>2, <2>3
<1>6. ASSUME NEW user \in Users, TransferName(user)
      PROVE  UNCHANGED <<registryVars, owner>> /\ everOwners \subseteq everOwners'
  BY <1>6 DEF TransferName
<1>7. CASE UNCHANGED vars
  BY <1>7 DEF vars, ensVars
<1> QED
  BY <1>1, <1>2, <1>3, <1>4, <1>5, <1>6, <1>7 DEF Next

\* Versions change in creations only.
LEMMA RegistryStepKeepsVersions ==
    ASSUME RegistryNext \/ UNCHANGED registryVars
    PROVE  version' = version
<1>1. ASSUME NEW s \in Streams, NEW sender \in Users, StreamCall(s, sender)
      PROVE  version' = version
  BY <1>1 DEF StreamCall, DeleteStream, UpdateStreamMetadata, SetPermissionsForUser,
              SetAllPermissions, GrantPermission, RevokePermission, SetPermission,
              RevokeAllPermissionsForUser, SetExpirationTime, AddStorageNode,
              RemoveStorageNode, PermissionChanged
<1>2. ASSUME NEW s \in Streams, NEW user, TrustedSetPermissionsForUser(s, user, MaxTime)
      PROVE  version' = version
  BY <1>2 DEF TrustedSetPermissionsForUser, SetAllPermissions, PermissionChanged
<1>3. ASSUME NEW n, CreateOrUpdateNode(n) \/ RemoveNode(n)
      PROVE  version' = version
  BY <1>3 DEF CreateOrUpdateNode, RemoveNode
<1> QED
  BY <1>1, <1>2, <1>3 DEF RegistryNext, Tick, registryVars

\* Whoever creates a stream under an ENS name has owned the name: the script asks
\* the ENS chain before it calls, after every retry and restart, and the contract
\* trusts only what the script has told it.
THEOREM CreatorsOwnTheNameAlways == Spec => CreatorsOwnTheName
<1>1. ENSInv /\ [Next]_vars => ENSInv'
  <2> SUFFICES ASSUME ENSInv, [Next]_vars PROVE ENSInv'
    OBVIOUS
  <2>1. ScriptInv'
    BY StepKeepsScriptInv DEF ENSInv
  <2>2. CacheInv'
    BY StepsOfTheRegistry DEF ENSInv, CacheInv
  <2>3. RegistryInv'
    BY StepsOfTheRegistry, RegistryStepKeepsRegistryInv, CreationKeepsRegistryInv DEF ENSInv
  <2> QED
    BY <2>1, <2>2, <2>3 DEF ENSInv
<1>2. ENSInv /\ [Next]_vars =>
        [\A s \in Streams : version'[s] > version[s]
           => /\ owner' \in everOwners
              /\ granted'[s] = {owner'}]_vars
  <2> SUFFICES ASSUME ENSInv, [Next]_vars,
                      NEW s \in Streams, version'[s] > version[s]
               PROVE  owner' \in everOwners /\ granted'[s] = {owner'}
    OBVIOUS
  <2>1. version[s] \in Nat
    BY DEF ENSInv, RegistryInv, RegistryType
  <2>2. version' # version
    BY <2>1
  <2>3. \E r \in Streams : \E m : \E creator \in everOwners :
            /\ CreateStreamAndPermission(r, creator, m)
            /\ owner' = creator /\ everOwners' = everOwners
    BY <2>2, StepsOfTheRegistry, RegistryStepKeepsVersions
  <2>4. PICK r \in Streams, creator \in everOwners :
            /\ owner' = creator
            /\ \E m : CreateStreamAndPermission(r, creator, m)
    BY <2>3
  <2>5. /\ version' = [version EXCEPT ![r] = version[r] + 1]
        /\ granted' = [granted EXCEPT ![r] = {creator}]
    BY <2>4 DEF CreateStreamAndPermission
  <2>6. r = s
    BY <2>1, <2>5 DEF ENSInv, RegistryInv, RegistryType
  <2> QED
    BY <2>4, <2>5, <2>6 DEF ENSInv, RegistryInv, RegistryType
<1> QED
  BY <1>1, <1>2, ENSInvHoldsInitially, PTL DEF Spec, CreatorsOwnTheName

-----------------------------------------------------------------------------
(* Folding over the events of a transaction *)

\* A transaction with a single event is handled by that event's handler.
LEMMA OneEventHandled ==
    ASSUME NEW s, NEW e
    PROVE  HandleAll(s, <<e>>) = Handle(s, e)
<1> DEFINE after == Handle(s, e)
           Next1(g) == [U \in SUBSET {1} |-> IF U = {} THEN s ELSE Handle(g[U \ {Max(U)}], <<e>>[Max(U)])]
           iter == CHOOSE g : g = Next1(g)
<1>1. DOMAIN <<e>> = {1} /\ <<e>>[1] = e
  OBVIOUS
<1>2. Max({1}) = 1
  BY DEF Max
<1>3. HandleAll(s, <<e>>) = iter[{1}]
  BY <1>1 DEF HandleAll, FoldLeft, MapThenFoldSet
<1>4. \E g : g = Next1(g)
  <2> DEFINE g == [U \in SUBSET {1} |-> IF U = {} THEN s ELSE after]
  <2>1. \A U \in SUBSET {1} : U # {} => U = {1} /\ {1} \ {Max({1})} = {}
    BY <1>2
  <2>2. ASSUME NEW U \in SUBSET {1}
        PROVE  g[U] = IF U = {} THEN s ELSE Handle(g[U \ {Max(U)}], <<e>>[Max(U)])
    <3>1. CASE U = {}
      BY <3>1
    <3>2. CASE U # {}
      <4>1. U = {1} /\ U \ {Max(U)} = {} /\ <<e>>[Max(U)] = e
        BY <3>2, <2>1, <1>1, <1>2
      <4>2. g[{}] = s /\ g[U] = after
        BY <3>2
      <4> QED
        BY <4>1, <4>2, <3>2
    <3> QED
      BY <3>1, <3>2
  <2>3. g = Next1(g)
    BY <2>2
  <2> QED
    BY <2>3
<1>5. iter = Next1(iter)
  BY <1>4
<1> HIDE DEF iter
<1>6. iter[{}] = s
  BY <1>5
<1>7. iter[{1}] = Handle(iter[{1} \ {Max({1})}], <<e>>[Max({1})])
  BY <1>5
<1>8. {1} \ {1} = {}
  OBVIOUS
<1> QED
  BY <1>1, <1>2, <1>3, <1>6, <1>7, <1>8

\* A transaction with two events: the second finds the store as the first left it.
LEMMA TwoEventsHandled ==
    ASSUME NEW s, NEW d, NEW e
    PROVE  HandleAll(s, <<d, e>>) = Handle(Handle(s, d), e)
<1> DEFINE logged == <<d, e>>
           first == Handle(s, d)
           second == Handle(s, e)
           both == Handle(first, e)
           Step(g, U) == IF U = {} THEN s ELSE Handle(g[U \ {Max(U)}], logged[Max(U)])
           Next2(g) == [U \in SUBSET {1, 2} |-> Step(g, U)]
           iter == CHOOSE g : g = Next2(g)
<1>1. DOMAIN logged = {1, 2} /\ logged[1] = d /\ logged[2] = e
  OBVIOUS
<1>2. Max({1}) = 1 /\ Max({2}) = 2 /\ Max({1, 2}) = 2
  <2>1. \A U \in {{1}, {2}, {1, 2}} : \E x \in U : \A y \in U : x >= y
    OBVIOUS
  <2>2. \A U \in {{1}, {2}, {1, 2}} : Max(U) \in U /\ \A y \in U : Max(U) >= y
    BY <2>1 DEF Max
  <2> QED
    BY <2>2
<1>3. HandleAll(s, logged) = iter[{1, 2}]
  BY <1>1 DEF HandleAll, FoldLeft, MapThenFoldSet
<1> HIDE DEF logged
<1>4. \A U \in SUBSET {1, 2} : U = {} \/ U = {1} \/ U = {2} \/ U = {1, 2}
  <2> SUFFICES ASSUME NEW U \in SUBSET {1, 2}
               PROVE  U = {} \/ U = {1} \/ U = {2} \/ U = {1, 2}
    OBVIOUS
  <2> QED
    OBVIOUS
<1>5. \E g : g = Next2(g)
  <2> DEFINE g == [U \in SUBSET {1, 2} |-> IF U = {} THEN s ELSE IF U = {1} THEN first
                                           ELSE IF U = {2} THEN second ELSE both]
  <2>1. g[{}] = s /\ g[{1}] = first /\ g[{2}] = second /\ g[{1, 2}] = both
    OBVIOUS
  <2>2. {1} \ {1} = {} /\ {2} \ {2} = {} /\ {1, 2} \ {2} = {1}
    OBVIOUS
  <2>3. DOMAIN g = SUBSET {1, 2} /\ g = [U \in SUBSET {1, 2} |-> g[U]]
    OBVIOUS
  <2> HIDE DEF g
  <2>4. Step(g, {}) = s
    OBVIOUS
  <2>5. Step(g, {1}) = first
    BY <1>1, <1>2, <2>1, <2>2
  <2>6. Step(g, {2}) = second
    BY <1>1, <1>2, <2>1, <2>2
  <2>7. Step(g, {1, 2}) = both
    BY <1>1, <1>2, <2>1, <2>2
  <2> HIDE DEF Step, first, second, both
  <2>8. \A U \in SUBSET {1, 2} : g[U] = Step(g, U)
    BY <1>4, <2>1, <2>4, <2>5, <2>6, <2>7
  <2>9. g = Next2(g)
    BY <2>3, <2>8
  <2> QED
    BY <2>9
<1>6. iter = Next2(iter)
  <2> HIDE DEF Next2
  <2> QED
    BY <1>5
<1> HIDE DEF iter
<1>7. /\ iter[{}] = Step(iter, {}) /\ iter[{1}] = Step(iter, {1})
      /\ iter[{1, 2}] = Step(iter, {1, 2})
  <2> HIDE DEF Step
  <2>1. \A U \in SUBSET {1, 2} : iter[U] = Step(iter, U)
    BY <1>6
  <2> QED
    BY <2>1
<1>8. {1} \ {1} = {} /\ {1, 2} \ {2} = {1}
  OBVIOUS
<1>9. iter[{}] = s
  BY <1>7
<1>10. iter[{1}] = Handle(iter[{}], d)
  BY <1>1, <1>2, <1>7, <1>8
<1>11. iter[{1, 2}] = Handle(iter[{1}], e)
  BY <1>1, <1>2, <1>7, <1>8
<1> QED
  BY <1>3, <1>9, <1>10, <1>11 DEF logged

-----------------------------------------------------------------------------
(* What the list looks like *)

Before(r, i) == IF i = 1 THEN ZeroAddress ELSE r[i - 1]
After(r, i) == IF i = Len(r) THEN ZeroAddress ELSE r[i + 1]

\* The list l holds the nodes of r in their order, each linked to its neighbours.
Linked(l, r) ==
    /\ r \in Seq(NodeAccounts)
    /\ \A i, j \in 1 .. Len(r) : r[i] = r[j] => i = j
    /\ DOMAIN l.items = {r[i] : i \in 1 .. Len(r)}
    /\ l.nodeCount = Len(r)
    /\ l.headNode = IF Len(r) = 0 THEN ZeroAddress ELSE r[1]
    /\ l.tailNode = IF Len(r) = 0 THEN ZeroAddress ELSE r[Len(r)]
    /\ \A i \in 1 .. Len(r) : l.items[r[i]] = [prev |-> Before(r, i), next |-> After(r, i)]

\* The inductive invariant.
ListInv ==
    /\ Linked(list, registered)
    /\ ~nodeStore.halted
    /\ DOMAIN nodeStore.nodes = {registered[i] : i \in 1 .. Len(registered)}

\* The n nodes of w follow each other along the field, from the first one.
Follow(w, n, from, field) ==
    /\ w = [i \in 1 .. n |-> w[i]]
    /\ n > 0 => w[1] = from
    /\ \A i \in 1 .. n : i < n => /\ w[i] \in DOMAIN list.items
                                  /\ list.items[w[i]][field] = w[i + 1]

\* Walking from one end along one field meets the nodes that follow each other
\* along that field.
LEMMA WalkFollows ==
    ASSUME NEW from, NEW field, NEW w, NEW n \in Nat, n = list.nodeCount,
           Follow(w, n, from, field)
    PROVE  Walk(from, field) = w
<1> DEFINE Step(g, i) == IF i = 1 THEN from
                         ELSE IF g[i - 1] \in DOMAIN list.items
                              THEN list.items[g[i - 1]][field] ELSE ZeroAddress
           at == CHOOSE g : g = [i \in 1 .. n |-> Step(g, i)]
           T == {i \in 1 .. n : at[i] = w[i]}
<1> USE DEF Follow
<1>1. Walk(from, field) = at
  BY DEF Walk, IsRegistered
<1>2. w = [i \in 1 .. n |-> Step(w, i)]
  <2>1. ASSUME NEW i \in 1 .. n
        PROVE  w[i] = Step(w, i)
    <3>1. CASE i = 1
      BY <3>1
    <3>2. CASE i # 1
      <4>1. i - 1 \in 1 .. n /\ i - 1 < n /\ (i - 1) + 1 = i
        BY <3>2
      <4> QED
        BY <4>1, <3>2
    <3> QED
      BY <3>1, <3>2
  <2> HIDE DEF Step
  <2> QED
    BY <2>1
<1>3. at = [i \in 1 .. n |-> Step(at, i)]
  <2> HIDE DEF Step
  <2> QED
    BY <1>2
<1> HIDE DEF at
<1>4. n > 0 => 1 \in T
  BY <1>3
<1>5. ASSUME NEW i \in 1 .. n, i < n, i \in T
      PROVE  i + 1 \in T
  <2>1. i + 1 \in 1 .. n /\ i + 1 # 1 /\ (i + 1) - 1 = i
    BY <1>5
  <2>2. at[i + 1] = Step(at, i + 1)
    BY <1>3, <2>1
  <2> QED
    BY <1>5, <2>1, <2>2
<1> HIDE DEF T
<1>6. 1 .. n \subseteq T
  BY <1>4, <1>5, IntervalInduction
<1>7. \A i \in 1 .. n : at[i] = w[i]
  BY <1>6 DEF T
<1>8. at = [i \in 1 .. n |-> at[i]]
  <2> HIDE DEF Step
  <2> QED
    BY <1>3
<1>9. at = w
  <2> HIDE DEF Step
  <2> QED
    BY <1>7, <1>8
<1> QED
  BY <1>1, <1>9

-----------------------------------------------------------------------------
(* Adding and removing a node *)

\* _createOrUpdateNode of a new node: it comes after the tail, or is the first.
LEMMA AppendedIsLinked ==
    ASSUME Linked(list, registered), NEW n \in NodeAccounts, n \notin DOMAIN list.items
    PROVE  Linked(Appended(n), Append(registered, n))
<1> DEFINE r == registered
           len == Len(registered)
           r2 == Append(registered, n)
           l2 == Appended(n)
<1>1. /\ r \in Seq(NodeAccounts) /\ len \in Nat
      /\ \A i \in 1 .. len : r[i] \in NodeAccounts /\ r[i] # n
  BY DEF Linked
<1>2. /\ r2 \in Seq(NodeAccounts)
      /\ Len(r2) = len + 1
      /\ \A i \in 1 .. len : r2[i] = r[i]
      /\ r2[len + 1] = n
  BY <1>1, AppendProperties
<1>3. /\ DOMAIN l2.items = DOMAIN list.items \cup {n}
      /\ l2.headNode = IF list.headNode = ZeroAddress THEN n ELSE list.headNode
      /\ l2.tailNode = n
      /\ l2.nodeCount = list.nodeCount + 1
      /\ \A m \in DOMAIN list.items : m # list.tailNode => l2.items[m] = list.items[m]
      /\ \A m \in DOMAIN list.items : m = list.tailNode =>
            l2.items[m] = [list.items[m] EXCEPT !.next = n]
      /\ n # list.tailNode => l2.items[n] = [prev |-> list.tailNode, next |-> ZeroAddress]
  BY DEF Appended, Save
<1> HIDE DEF r2, l2
<1>4. ZeroAddress \notin NodeAccounts
  BY NodeAccountsAssumption
<1>5. /\ DOMAIN list.items = {r[i] : i \in 1 .. len}
      /\ list.nodeCount = len
      /\ list.headNode = IF len = 0 THEN ZeroAddress ELSE r[1]
      /\ list.tailNode = IF len = 0 THEN ZeroAddress ELSE r[len]
      /\ \A i, j \in 1 .. len : r[i] = r[j] => i = j
      /\ \A i \in 1 .. len : list.items[r[i]] = [prev |-> Before(r, i), next |-> After(r, i)]
      /\ len = Len(r)
  BY DEF Linked
<1> HIDE DEF r, len
<1>6. \A i, j \in 1 .. len + 1 : r2[i] = r2[j] => i = j
  <2>1. \A i \in 1 .. len + 1 : i = len + 1 \/ i \in 1 .. len
    BY <1>1
  <2> QED
    BY <2>1, <1>1, <1>2, <1>5
<1>7. DOMAIN l2.items = {r2[i] : i \in 1 .. len + 1}
  <2>1. \A i \in 1 .. len + 1 : i = len + 1 \/ i \in 1 .. len
    BY <1>1
  <2>2. len + 1 \in 1 .. len + 1 /\ 1 .. len \subseteq 1 .. len + 1
    BY <1>1
  <2> QED
    BY <2>1, <2>2, <1>2, <1>3, <1>5
<1>8. n # list.tailNode
  BY <1>1, <1>4, <1>5
<1>9. ASSUME NEW i \in 1 .. len + 1
      PROVE  l2.items[r2[i]] = [prev |-> Before(r2, i), next |-> After(r2, i)]
  <2>1. CASE i = len + 1
    <3>1. Before(r2, i) = list.tailNode /\ After(r2, i) = ZeroAddress
      <4>1. len # 0 => i - 1 = len /\ len \in 1 .. len /\ i # 1
        BY <2>1, <1>1
      <4> QED
        BY <2>1, <4>1, <1>1, <1>2, <1>5 DEF Before, After
    <3> QED
      BY <3>1, <2>1, <1>2, <1>3, <1>8
  <2>2. CASE i \in 1 .. len
    <3>1. /\ list.items[r[i]] = [prev |-> Before(r, i), next |-> After(r, i)]
          /\ r[i] \in DOMAIN list.items /\ r2[i] = r[i]
      BY <2>2, <1>2, <1>5
    <3>2. Before(r2, i) = Before(r, i)
      <4>1. i # 1 => i - 1 \in 1 .. len
        BY <2>2, <1>1
      <4> QED
        BY <4>1, <1>2 DEF Before
    <3>3. CASE i = len
      <4>1. After(r2, i) = n /\ list.tailNode = r[i]
        BY <3>3, <2>2, <1>1, <1>2, <1>5 DEF After
      <4> QED
        BY <3>1, <3>2, <4>1, <1>3
    <3>4. CASE i # len
      <4>1. r[i] # list.tailNode
        BY <3>4, <2>2, <1>1, <1>5
      <4>2. After(r2, i) = After(r, i)
        <5>1. i + 1 \in 1 .. len /\ i # len + 1
          BY <3>4, <2>2, <1>1
        <5> QED
          BY <5>1, <3>4, <1>2, <1>5 DEF After
      <4> QED
        BY <3>1, <3>2, <4>1, <4>2, <1>3
    <3> QED
      BY <3>3, <3>4
  <2> QED
    BY <2>1, <2>2, <1>1
<1>10. l2.headNode = r2[1] /\ l2.tailNode = r2[Len(r2)] /\ Len(r2) # 0
  <2>1. CASE len = 0
    BY <2>1, <1>2, <1>3, <1>5
  <2>2. CASE len # 0
    <3>1. 1 \in 1 .. len
      BY <2>2, <1>1
    <3> QED
      BY <3>1, <2>2, <1>1, <1>2, <1>3, <1>4, <1>5
  <2> QED
    BY <2>1, <2>2
<1>11. Linked(l2, r2)
  BY <1>2, <1>3, <1>5, <1>6, <1>7, <1>9, <1>10 DEF Linked
<1> QED
  BY <1>11 DEF l2, r2

\* _removeNode of the node at position k, whether it is at an end, at both or in
\* between: its neighbours, if any, are linked to each other.
LEMMA UnlinkedIsLinked ==
    ASSUME Linked(list, registered), NEW k \in 1 .. Len(registered)
    PROVE  Linked(Unlinked(registered[k]), RemoveAt(registered, k))
<1> DEFINE r == registered
           len == Len(registered)
           n == registered[k]
           r2 == RemoveAt(registered, k)
           l2 == Unlinked(n)
           Old(i) == IF i < k THEN i ELSE i + 1
<1>1. /\ r \in Seq(NodeAccounts) /\ len = Len(r) /\ len \in Nat /\ k \in 1 .. len
      /\ DOMAIN list.items = {r[i] : i \in 1 .. len}
      /\ list.nodeCount = len
      /\ list.headNode = IF len = 0 THEN ZeroAddress ELSE r[1]
      /\ list.tailNode = IF len = 0 THEN ZeroAddress ELSE r[len]
      /\ \A i, j \in 1 .. len : r[i] = r[j] => i = j
      /\ \A i \in 1 .. len : list.items[r[i]] = [prev |-> Before(r, i), next |-> After(r, i)]
      /\ \A i \in 1 .. len : r[i] \in NodeAccounts /\ r[i] # ZeroAddress
  BY NodeAccountsAssumption DEF Linked
<1>2. /\ r2 \in Seq(NodeAccounts)
      /\ Len(r2) = len - 1
      /\ \A i \in 1 .. len - 1 : r2[i] = r[Old(i)]
  BY <1>1, RemoveAtProperties
<1>3. n = r[k]
  OBVIOUS
<1>4. /\ DOMAIN l2.items = DOMAIN list.items \ {n}
      /\ l2.headNode = IF n = list.headNode THEN list.items[n].next ELSE list.headNode
      /\ l2.tailNode = IF n = list.tailNode THEN list.items[n].prev ELSE list.tailNode
      /\ l2.nodeCount = list.nodeCount - 1
      /\ \A m \in DOMAIN list.items \ {n} : l2.items[m] =
           [prev |-> IF m = list.items[n].next THEN list.items[n].prev ELSE list.items[m].prev,
            next |-> IF m = list.items[n].prev THEN list.items[n].next ELSE list.items[m].next]
  BY DEF Unlinked, Without, Bridged
<1> HIDE DEF r2, l2, r, len, n
<1> HIDE DEF Old
<1>12. /\ list.items[n].prev = Before(r, k)
       /\ list.items[n].next = After(r, k)
  <2>1. list.items[r[k]] = [prev |-> Before(r, k), next |-> After(r, k)]
    BY <1>1
  <2>2. list.items[n] = [prev |-> Before(r, k), next |-> After(r, k)]
    BY <2>1, <1>3
  <2> QED
    BY <2>2
<1>13. \A i \in 1 .. len - 1 : Old(i) = IF i < k THEN i ELSE i + 1
  BY DEF Old
<1>5. /\ \A i \in 1 .. len - 1 : Old(i) \in 1 .. len /\ Old(i) # k
      /\ \A j \in 1 .. len : j # k => \E i \in 1 .. len - 1 : Old(i) = j
      /\ \A i, j \in 1 .. len - 1 : Old(i) = Old(j) => i = j
  <2>1. \A i \in 1 .. len - 1 : Old(i) \in 1 .. len /\ Old(i) # k
    BY <1>1, <1>13
  <2>2. ASSUME NEW j \in 1 .. len, j # k
        PROVE  \E i \in 1 .. len - 1 : Old(i) = j
    <3>1. CASE j < k
      <4>1. j \in 1 .. len - 1 /\ Old(j) = j
        BY <3>1, <1>1, <1>13
      <4> QED
        BY <4>1
    <3>2. CASE k < j
      <4>1. j - 1 \in 1 .. len - 1 /\ Old(j - 1) = j
        BY <3>2, <1>1, <1>13
      <4> QED
        BY <4>1
    <3> QED
      BY <3>1, <3>2, <2>2, <1>1
  <2>3. \A i, j \in 1 .. len - 1 : Old(i) = Old(j) => i = j
    BY <1>1, <1>13
  <2> QED
    BY <2>1, <2>2, <2>3
<1>6. \A i, j \in 1 .. len - 1 : r2[i] = r2[j] => i = j
  <2>1. \A i, j \in 1 .. len - 1 : r[Old(i)] = r[Old(j)] => i = j
    BY <1>1, <1>5
  <2> QED
    BY <2>1, <1>2
<1>7. DOMAIN l2.items = {r2[i] : i \in 1 .. len - 1}
  <2>1. \A j \in 1 .. len : r[j] # n <=> j # k
    BY <1>1, <1>3
  <2>2. DOMAIN l2.items = {r[j] : j \in (1 .. len) \ {k}}
    BY <2>1, <1>1, <1>4
  <2>3. {r[j] : j \in (1 .. len) \ {k}} = {r[Old(i)] : i \in 1 .. len - 1}
    BY <1>5
  <2>4. {r[Old(i)] : i \in 1 .. len - 1} = {r2[i] : i \in 1 .. len - 1}
    BY <1>2
  <2> QED
    BY <2>2, <2>3, <2>4
<1>8. ASSUME NEW i \in 1 .. len - 1
      PROVE  l2.items[r2[i]] = [prev |-> Before(r2, i), next |-> After(r2, i)]
  <2> DEFINE j == Old(i)
             m == r[j]
  <2>1. /\ j \in 1 .. len /\ j # k /\ m \in DOMAIN list.items \ {n}
        /\ r2[i] = m
        /\ list.items[m].prev = Before(r, j) /\ list.items[m].next = After(r, j)
    <3>1. j \in 1 .. len /\ j # k
      BY <1>5
    <3>2. m # n /\ m \in DOMAIN list.items
      BY <3>1, <1>1, <1>3
    <3>3. list.items[m] = [prev |-> Before(r, j), next |-> After(r, j)]
      BY <3>1, <1>1
    <3> QED
      BY <3>1, <3>2, <3>3, <1>2
  <2>2. l2.items[m] = [prev |-> IF m = After(r, k) THEN Before(r, k) ELSE Before(r, j),
                       next |-> IF m = Before(r, k) THEN After(r, k) ELSE After(r, j)]
    <3> HIDE DEF m, j
    <3> QED
      BY <2>1, <1>12, <1>4
  <2>3. m = After(r, k) <=> j = k + 1
    <3>1. k + 1 \in 1 .. len \/ k = len
      BY <1>1
    <3> QED
      BY <3>1, <2>1, <1>1 DEF After
  <2>4. m = Before(r, k) <=> j = k - 1
    <3>1. k - 1 \in 1 .. len \/ k = 1
      BY <1>1
    <3> QED
      BY <3>1, <2>1, <1>1 DEF Before
  <2>5. Before(r2, i) = IF j = k + 1 THEN Before(r, k) ELSE Before(r, j)
    <3>1. CASE i = 1
      BY <3>1, <1>1, <1>13 DEF Before
    <3>2. CASE i # 1
      <4>1. i - 1 \in 1 .. len - 1 /\ r2[i - 1] = r[Old(i - 1)] /\ j # 1
        BY <3>2, <1>1, <1>2, <1>13
      <4>2. Old(i - 1) = IF j = k + 1 THEN k - 1 ELSE j - 1
        BY <3>2, <4>1, <1>1, <1>13
      <4>3. j = k + 1 => k # 1
        BY <3>2, <1>1, <1>13
      <4> HIDE DEF j, Old
      <4> QED
        BY <3>2, <4>1, <4>2, <4>3 DEF Before
    <3> QED
      BY <3>1, <3>2
  <2>6. After(r2, i) = IF j = k - 1 THEN After(r, k) ELSE After(r, j)
    <3>1. CASE i = len - 1
      BY <3>1, <1>1, <1>2, <1>13 DEF After
    <3>2. CASE i # len - 1
      <4>1. i + 1 \in 1 .. len - 1 /\ r2[i + 1] = r[Old(i + 1)] /\ j # len
        <5>1. i + 1 \in 1 .. len - 1
          BY <3>2, <1>1
        <5>2. j # len
          BY <3>2, <1>1, <1>13
        <5> QED
          BY <5>1, <5>2, <1>2
      <4>2. Old(i + 1) = IF j = k - 1 THEN k + 1 ELSE j + 1
        BY <3>2, <4>1, <1>1, <1>13
      <4>3. j = k - 1 => k # len
        BY <3>2, <1>1, <1>13
      <4> HIDE DEF j, Old
      <4> QED
        BY <3>2, <4>1, <4>2, <4>3, <1>1, <1>2 DEF After
    <3> QED
      BY <3>1, <3>2
  <2> HIDE DEF j, m
  <2> QED
    BY <2>1, <2>2, <2>3, <2>4, <2>5, <2>6
<1>9. l2.headNode = IF Len(r2) = 0 THEN ZeroAddress ELSE r2[1]
  <2>1. n = list.headNode <=> k = 1
    BY <1>1, <1>3
  <2>2. CASE len = 1
    BY <2>1, <2>2, <1>1, <1>2, <1>12, <1>4 DEF After
  <2>3. CASE len # 1
    <3>1. 1 \in 1 .. len - 1 /\ r2[1] = IF k = 1 THEN r[2] ELSE r[1]
      BY <2>3, <1>1, <1>2, <1>13
    <3>2. k = 1 => After(r, k) = r[2]
      BY <2>3, <1>1 DEF After
    <3> QED
      BY <2>1, <2>3, <3>1, <3>2, <1>1, <1>2, <1>12, <1>4
  <2> QED
    BY <2>2, <2>3
<1>10. l2.tailNode = IF Len(r2) = 0 THEN ZeroAddress ELSE r2[Len(r2)]
  <2>1. n = list.tailNode <=> k = len
    BY <1>1, <1>3
  <2>2. CASE len = 1
    BY <2>1, <2>2, <1>1, <1>2, <1>12, <1>4 DEF Before
  <2>3. CASE len # 1
    <3>1. len - 1 \in 1 .. len - 1 /\ r2[len - 1] = IF k = len THEN r[len - 1] ELSE r[len]
      BY <2>3, <1>1, <1>2, <1>13
    <3>2. k = len => Before(r, k) = r[len - 1]
      BY <2>3, <1>1 DEF Before
    <3> QED
      BY <2>1, <2>3, <3>1, <3>2, <1>1, <1>2, <1>12, <1>4
  <2> QED
    BY <2>2, <2>3
<1>11. Linked(l2, r2)
  BY <1>1, <1>2, <1>4, <1>6, <1>7, <1>8, <1>9, <1>10 DEF Linked
<1> QED
  BY <1>11 DEF l2, r2, n

-----------------------------------------------------------------------------
(* Every step *)

LEMMA InitListInv == ListInit => ListInv
<1> SUFFICES ASSUME ListInit PROVE ListInv
  OBVIOUS
<1>1. /\ list = EmptyList /\ registered = <<>> /\ nodeStore = NewStore
  BY DEF ListInit
<1>2. Linked(EmptyList, <<>>)
  BY DEF Linked, EmptyList
<1> QED
  BY <1>1, <1>2 DEF ListInv, NewStore

\* createOrUpdateNode and createOrUpdateNodeSelf
LEMMA RegistersKeepsListInv ==
    ASSUME ListInv, NEW n \in NodeAccounts, Registers(n)
    PROVE  ListInv'
<1> DEFINE e == [name |-> "NodeUpdated", node |-> n]
<1>1. nodeStore' = HandleNodeUpdate(nodeStore, e)
  <2>1. nodeStore' = Handle(nodeStore, e)
    BY OneEventHandled DEF Registers
  <2> QED
    BY <2>1 DEF Handle, ListInv
<1>2. ~nodeStore'.halted /\ DOMAIN nodeStore'.nodes = DOMAIN nodeStore.nodes \cup {n}
  BY <1>1 DEF HandleNodeUpdate, Save, ListInv
<1>3. CASE n \in DOMAIN list.items
  <2>1. list' = list /\ registered' = registered
    BY <1>3 DEF Registers, IsRegistered
  <2>2. n \in DOMAIN nodeStore.nodes
    BY <1>3 DEF ListInv, Linked
  <2> QED
    BY <1>2, <2>1, <2>2 DEF ListInv
<1>4. CASE n \notin DOMAIN list.items
  <2>1. list' = Appended(n) /\ registered' = Append(registered, n)
    BY <1>4 DEF Registers, IsRegistered
  <2>2. Linked(list, registered) /\ registered \in Seq(NodeAccounts)
    BY DEF ListInv, Linked
  <2>3. Linked(list', registered')
    BY <1>4, <2>1, <2>2, AppendedIsLinked
  <2>4. /\ Len(registered') = Len(registered) + 1 /\ Len(registered) \in Nat
        /\ \A i \in 1 .. Len(registered) : registered'[i] = registered[i]
        /\ registered'[Len(registered) + 1] = n
    BY <2>1, <2>2, AppendProperties
  <2>5. {registered'[i] : i \in 1 .. Len(registered')}
          = {registered[i] : i \in 1 .. Len(registered)} \cup {n}
    <3>1. 1 .. Len(registered') = (1 .. Len(registered)) \cup {Len(registered) + 1}
      BY <2>4
    <3> QED
      BY <2>4, <3>1
  <2> QED
    BY <1>2, <2>3, <2>5 DEF ListInv
<1> QED
  BY <1>3, <1>4

\* removeNode, removeNodeSelf and kickOut
LEMMA RemovesKeepsListInv ==
    ASSUME ListInv, NEW n \in NodeAccounts, Removes(n)
    PROVE  ListInv'
<1> DEFINE e == [name |-> "NodeRemoved", node |-> n]
           k == CHOOSE i \in DOMAIN registered : registered[i] = n
<1>1. nodeStore' = HandleNodeRemoved(nodeStore, e)
  <2>1. nodeStore' = Handle(nodeStore, e)
    BY OneEventHandled DEF Removes
  <2> QED
    BY <2>1 DEF Handle, ListInv
<1>2. ~nodeStore'.halted /\ DOMAIN nodeStore'.nodes = DOMAIN nodeStore.nodes \ {n}
  BY <1>1 DEF HandleNodeRemoved, Without, ListInv
<1>3. Linked(list, registered) /\ registered \in Seq(NodeAccounts)
  BY DEF ListInv, Linked
<1>4. /\ DOMAIN registered = 1 .. Len(registered)
      /\ n \in DOMAIN list.items /\ DOMAIN list.items = {registered[i] : i \in 1 .. Len(registered)}
  BY <1>3 DEF Linked, Removes, IsRegistered
<1>5. k \in 1 .. Len(registered) /\ registered[k] = n
  BY <1>4
<1>6. list' = Unlinked(registered[k]) /\ registered' = RemoveAt(registered, k)
  BY <1>5 DEF Removes
<1> HIDE DEF k
<1>7. Linked(list', registered')
  BY <1>3, <1>5, <1>6, UnlinkedIsLinked
<1>8. {registered'[i] : i \in 1 .. Len(registered')}
        = {registered[i] : i \in 1 .. Len(registered)} \ {n}
  <2>1. DOMAIN list'.items = DOMAIN list.items \ {n}
    BY <1>5, <1>6 DEF Unlinked, Without, Bridged
  <2> QED
    BY <2>1, <1>4, <1>7 DEF Linked
<1> QED
  BY <1>2, <1>7, <1>8 DEF ListInv

LEMMA NextListInv ==
    ASSUME ListInv, [ListNext]_listVars
    PROVE  ListInv'
<1>1. ASSUME NEW n \in NodeAccounts, OwnerRegisters(n) \/ CreateOrUpdateNodeSelf(n)
      PROVE  ListInv'
  BY <1>1, RegistersKeepsListInv DEF OwnerRegisters, CreateOrUpdateNodeSelf
<1>2. ASSUME NEW n \in NodeAccounts, RemoveNodeSelf(n) \/ KickOut(n)
      PROVE  ListInv'
  BY <1>2, RemovesKeepsListInv DEF RemoveNodeSelf, KickOut
<1>3. ASSUME NEW n \in NodeAccounts, NEW verdict \in {"Approved", "Rejected"},
             WhitelistNode(n, verdict)
      PROVE  ListInv'
  BY <1>3 DEF WhitelistNode, ListInv
<1>4. ASSUME NEW value \in BOOLEAN, SetRequiresWhitelist(value)
      PROVE  ListInv'
  BY <1>4 DEF SetRequiresWhitelist, ListInv
<1>5. CASE UNCHANGED listVars
  BY <1>5 DEF listVars, ListInv
<1> QED
  BY <1>1, <1>2, <1>3, <1>4, <1>5 DEF ListNext

\* A list that is linked is walked from both ends.
LEMMA LinkedIsListed == ListInv => NodesAreListed
<1> SUFFICES ASSUME ListInv PROVE NodesAreListed
  OBVIOUS
<1> DEFINE r == registered
           n == Len(registered)
           back == Reverse(registered)
<1>1. /\ r \in Seq(NodeAccounts) /\ n \in Nat /\ n = Len(r)
      /\ r = [i \in 1 .. n |-> r[i]] /\ DOMAIN r = 1 .. n
      /\ \A i \in 1 .. n : r[i] \in NodeAccounts
  BY DEF ListInv, Linked
<1>2. /\ DOMAIN list.items = {r[i] : i \in 1 .. n}
      /\ list.nodeCount = n
      /\ list.headNode = IF n = 0 THEN ZeroAddress ELSE r[1]
      /\ list.tailNode = IF n = 0 THEN ZeroAddress ELSE r[n]
      /\ \A i \in 1 .. n : list.items[r[i]] = [prev |-> Before(r, i), next |-> After(r, i)]
  BY DEF ListInv, Linked
<1>3. DOMAIN nodeStore.nodes = {r[i] : i \in 1 .. n}
  BY DEF ListInv
<1>4. /\ back = [i \in 1 .. n |-> back[i]]
      /\ \A i \in 1 .. n : back[i] = r[n - i + 1]
  BY DEF Reverse
<1> HIDE DEF r, n, back
<1>5. Walk(list.headNode, "next") = r
  <2>1. ASSUME NEW i \in 1 .. n, i < n
        PROVE  r[i] \in DOMAIN list.items /\ list.items[r[i]]["next"] = r[i + 1]
    <3>1. After(r, i) = r[i + 1]
      BY <1>1, <2>1 DEF After
    <3>2. list.items[r[i]] = [prev |-> Before(r, i), next |-> r[i + 1]]
      BY <1>2, <3>1
    <3> QED
      BY <3>2, <1>2
  <2>2. n > 0 => r[1] = list.headNode
    BY <1>1, <1>2
  <2>3. n \in Nat /\ n = list.nodeCount /\ r = [i \in 1 .. n |-> r[i]]
    BY <1>1, <1>2
  <2>4. Follow(r, n, list.headNode, "next")
    BY <2>1, <2>2, <2>3 DEF Follow
  <2> QED
    BY <2>3, <2>4, WalkFollows
<1>6. Walk(list.tailNode, "prev") = back
  <2>1. ASSUME NEW i \in 1 .. n, i < n
        PROVE  back[i] \in DOMAIN list.items /\ list.items[back[i]]["prev"] = back[i + 1]
    <3> DEFINE j == n - i + 1
    <3>1. j \in 1 .. n /\ j # 1 /\ i + 1 \in 1 .. n /\ n - (i + 1) + 1 = j - 1
      BY <1>1, <2>1
    <3>2. back[i] = r[j] /\ back[i + 1] = r[j - 1]
      BY <3>1, <1>4
    <3> HIDE DEF j
    <3>3. Before(r, j) = r[j - 1]
      BY <3>1 DEF Before
    <3>4. list.items[r[j]] = [prev |-> r[j - 1], next |-> After(r, j)]
      BY <3>1, <3>3, <1>2
    <3> QED
      BY <3>1, <3>2, <3>4, <1>2
  <2>2. n > 0 => back[1] = list.tailNode
    <3>1. n > 0 => 1 \in 1 .. n /\ n - 1 + 1 = n
      BY <1>1
    <3>2. n > 0 => back[1] = r[n]
      BY <3>1, <1>4
    <3> QED
      BY <3>2, <1>1, <1>2
  <2>3. n \in Nat /\ n = list.nodeCount /\ back = [i \in 1 .. n |-> back[i]]
    BY <1>1, <1>2, <1>4
  <2>4. Follow(back, n, list.tailNode, "prev")
    BY <2>1, <2>2, <2>3 DEF Follow
  <2> QED
    BY <2>3, <2>4, WalkFollows
<1>7. (list.headNode = ZeroAddress <=> n = 0) /\ (list.tailNode = ZeroAddress <=> n = 0)
  <2>1. n # 0 => 1 \in 1 .. n /\ n \in 1 .. n
    BY <1>1
  <2> QED
    BY <2>1, <1>1, <1>2, NodeAccountsAssumption
<1>8. n = 0 <=> r = <<>>
  BY <1>1
<1>9. ToSet(r) = {r[i] : i \in 1 .. n}
  BY <1>1 DEF ToSet
<1>10. r = registered /\ back = Reverse(registered)
  BY DEF r, back
<1> QED
  BY <1>3, <1>5, <1>6, <1>7, <1>8, <1>9, <1>10 DEF NodesAreListed

-----------------------------------------------------------------------------
(* The theorem *)

\* getNodes lists every registered node once, in the order in which they
\* registered, and the list is the same read backwards, for any number of nodes and
\* whoever is added, removed or kicked out: _createOrUpdateNode() and _removeNode()
\* repair both neighbours and both ends.
THEOREM NodesAreAlwaysListed == RegistriesSpec => []NodesAreListed
<1>1. RegistriesInit => ListInv
  BY InitListInv DEF RegistriesInit
<1>2. ListInv /\ [RegistriesNext]_registriesVars => ListInv'
  <2> SUFFICES ASSUME ListInv, [RegistriesNext]_registriesVars
               PROVE  ListInv'
    OBVIOUS
  <2>1. [ListNext]_listVars
    BY DEF RegistriesNext, registriesVars
  <2> QED
    BY <2>1, NextListInv
<1>3. ListInv => NodesAreListed
  BY LinkedIsListed
<1> QED
  BY <1>1, <1>2, <1>3, PTL DEF RegistriesSpec

-----------------------------------------------------------------------------
(* The streams, their permissions and their storage nodes in the subgraph *)

Permission == [Types -> Int]

\* What the subgraph shows of a permission is what is stored, or both hold nothing:
\* a permission that was void when it was set is not kept by the contract.
PermissionAgrees(s, user) ==
    LET shown == store.permissions[<<s, user>>]
        at == PermissionAt(s, UserKey(s, user))
    IN  /\ <<s, user>> \in DOMAIN store.permissions
        /\ shown \in Permission
        /\ shown = at \/ (Holds(shown) = {} /\ Holds(at) = {})

PermissionsAgree ==
    \A s \in Streams : \A user \in granted[s] : Exists(s) => PermissionAgrees(s, user)

StorageNodesAgree ==
    /\ DOMAIN store.nodes = nodes
    /\ \A n \in nodes :
         LET stored == {s \in Streams : <<s, n>> \in pairs}
         IN  IF n \in removed THEN store.nodes[n] \subseteq stored
             ELSE store.nodes[n] = stored

\* Whatever has been stored on a node that never came or never left is shown.
PairsAreKnown == \A s \in Streams : \A n : <<s, n>> \in pairs => n \in nodes \cup removed

PermissionsTyped ==
    \A s \in Streams : \A key \in DOMAIN permissions[s] : permissions[s][key] \in Permission

StoreType ==
    /\ store = [streams |-> store.streams, permissions |-> store.permissions,
                nodes |-> store.nodes, halted |-> store.halted]
    /\ store.halted \in BOOLEAN

\* The inductive invariant.
ShownInv ==
    /\ RegistryInv
    /\ metadata = [s \in Streams |-> metadata[s]]
    /\ PermissionsTyped
    /\ PairsAreKnown
    /\ StoreType
    /\ ~store.halted => EntitiesOfStreams /\ PermissionsAgree /\ StorageNodesAgree

LEMMA InitShownInv == RegistryInit => ShownInv
<1> SUFFICES ASSUME RegistryInit PROVE ShownInv
  OBVIOUS
<1>1. RegistryInv
  BY RegistryInvHoldsInitially
<1>2. /\ store = NewStore /\ pairs = {} /\ nodes = {}
      /\ metadata = [s \in Streams |-> NoMetadata]
      /\ \A s \in Streams : permissions[s] = <<>> /\ granted[s] = {} /\ metadata[s] = NoMetadata
  BY DEF RegistryInit
<1>3. EntitiesOfStreams
  BY <1>2 DEF EntitiesOfStreams, Exists, NewStore
<1>4. PermissionsAgree /\ StorageNodesAgree /\ PermissionsTyped /\ PairsAreKnown
  BY <1>2 DEF PermissionsAgree, StorageNodesAgree, PermissionsTyped, PairsAreKnown, NewStore
<1>5. StoreType
  BY <1>2 DEF StoreType, NewStore
<1> QED
  BY <1>1, <1>2, <1>3, <1>4, <1>5 DEF ShownInv

\* The invariant says more than the two properties.
LEMMA ShownInvSuffices == ShownInv => StreamsShown /\ StorageNodesShown
<1>1. PermissionsAgree => EntitiesOfPermissions
  BY DEF PermissionsAgree, PermissionAgrees, EntitiesOfPermissions
<1> QED
  BY <1>1 DEF ShownInv, StreamsShown, StorageNodesShown, StorageNodesAgree

\* The permission of a user that has none, and what it holds: nothing.
LEMMA NoPermissionTyped ==
    ASSUME RegistryInv
    PROVE  NoPermission \in Permission /\ Holds(NoPermission) = {}
  BY DEF NoPermission, Permission, Holds, RegistryInv, RegistryType

LEMMA PermissionAtTyped ==
    ASSUME RegistryInv, PermissionsTyped, NEW s \in Streams, NEW key
    PROVE  PermissionAt(s, key) \in Permission
  BY NoPermissionTyped DEF PermissionAt, PermissionsTyped

\* Time only takes away.
LEMMA VoidStaysVoid ==
    ASSUME now \in Nat, now' = now \/ now' = now + 1, NEW p \in Permission, Holds(p) = {}
    PROVE  {t \in Types : p[t] >= now'} = {}
  BY DEF Permission, Holds

-----------------------------------------------------------------------------
(* What stays as it is *)

LEMMA SameStreams ==
    ASSUME EntitiesOfStreams, metadata' = metadata, store'.streams = store.streams
    PROVE  EntitiesOfStreams'
  BY DEF EntitiesOfStreams, Exists

LEMMA SameStorageNodes ==
    ASSUME StorageNodesAgree, UNCHANGED <<nodes, pairs, removed>>, store'.nodes = store.nodes
    PROVE  StorageNodesAgree'
  BY DEF StorageNodesAgree

LEMMA SamePermissions ==
    ASSUME ShownInv, PermissionsAgree, UNCHANGED <<version, permissions, granted>>,
           now' = now \/ now' = now + 1,
           store'.permissions = store.permissions,
           \A s \in Streams : Exists(s)' => Exists(s)
    PROVE  PermissionsAgree'
<1> SUFFICES ASSUME NEW s \in Streams, NEW user \in granted[s], Exists(s)
             PROVE  PermissionAgrees(s, user)'
  BY DEF PermissionsAgree
<1> DEFINE shown == store.permissions[<<s, user>>]
           at == PermissionAt(s, UserKey(s, user))
<1>1. /\ <<s, user>> \in DOMAIN store.permissions /\ shown \in Permission
      /\ shown = at \/ (Holds(shown) = {} /\ Holds(at) = {})
  BY DEF PermissionsAgree, PermissionAgrees
<1>2. shown' = shown /\ at' = at
  BY DEF PermissionAt, UserKey
<1>3. at \in Permission
  BY PermissionAtTyped DEF ShownInv
<1>4. now \in Nat
  BY DEF ShownInv, RegistryInv, RegistryType
<1> HIDE DEF shown, at
<1>5. Holds(shown) = {} /\ Holds(at) = {} => Holds(shown)' = {} /\ Holds(at)' = {}
  BY <1>1, <1>2, <1>3, <1>4, VoidStaysVoid DEF Holds
<1>6. /\ (<<s, user>> \in DOMAIN store.permissions)' /\ shown' \in Permission
      /\ shown' = at' \/ (Holds(shown)' = {} /\ Holds(at)' = {})
  BY <1>1, <1>2, <1>5
<1> QED
  BY <1>6 DEF PermissionAgrees, shown, at

-----------------------------------------------------------------------------
(* One event *)

\* Once halted, the subgraph stays as it is.
LEMMA HaltedStays ==
    ASSUME NEW st, NEW e, st.halted
    PROVE  Handle(st, e) = st
  BY DEF Handle

\* What each handler leaves alone; the streams and their permissions.
LEMMA StreamEventEffect ==
    ASSUME StoreType, ~store.halted, NEW s, NEW m,
           NEW e \in {[name |-> "StreamCreated", stream |-> s, metadata |-> m],
                      [name |-> "StreamUpdated", stream |-> s, metadata |-> m]}
    PROVE  Handle(store, e) = [streams |-> Save(store.streams, s, m),
                               permissions |-> store.permissions,
                               nodes |-> store.nodes, halted |-> FALSE]
<1>1. Handle(store, e) = [store EXCEPT !.streams = Save(store.streams, s, m)]
  BY DEF Handle, HandleStreamCreation, HandleStreamUpdate
<1> QED
  BY <1>1 DEF StoreType

LEMMA DeletionEffect ==
    ASSUME StoreType, ~store.halted, NEW s
    PROVE  Handle(store, [name |-> "StreamDeleted", stream |-> s])
             = [streams |-> Without(store.streams, s), permissions |-> store.permissions,
                nodes |-> store.nodes, halted |-> FALSE]
<1> DEFINE e == [name |-> "StreamDeleted", stream |-> s]
<1>1. Handle(store, e) = [store EXCEPT !.streams = Without(store.streams, s)]
  BY DEF Handle, HandleStreamDeletion
<1> QED
  BY <1>1 DEF StoreType

\* A store is a record of these fields.
IsStore(st) ==
    /\ st = [streams |-> st.streams, permissions |-> st.permissions,
             nodes |-> st.nodes, halted |-> st.halted]
    /\ st.halted \in BOOLEAN

LEMMA RecordFields ==
    ASSUME NEW a, NEW b, NEW c, NEW st,
           st = [streams |-> a, permissions |-> b, nodes |-> c, halted |-> FALSE]
    PROVE  /\ IsStore(st) /\ ~st.halted
           /\ st.streams = a /\ st.permissions = b /\ st.nodes = c
<1>1. ~st.halted /\ st.halted \in BOOLEAN
      /\ st.streams = a /\ st.permissions = b /\ st.nodes = c
  OBVIOUS
<1>2. st = [streams |-> st.streams, permissions |-> st.permissions,
            nodes |-> st.nodes, halted |-> st.halted]
  BY <1>1
<1> QED
  BY <1>1, <1>2 DEF IsStore

LEMMA PermissionEventEffect ==
    ASSUME NEW st, IsStore(st), ~st.halted, NEW s, NEW user, NEW p
    PROVE  s \in DOMAIN st.streams => Handle(st, PermissionUpdated(s, user, p))
             = [streams |-> st.streams, permissions |-> Save(st.permissions, <<s, user>>, p),
                nodes |-> st.nodes, halted |-> FALSE]
<1> DEFINE e == [name |-> "PermissionUpdated", stream |-> s, user |-> user, permission |-> p]
<1>1. Handle(st, e) = HandlePermissionUpdate(st, e)
  BY DEF Handle
<1>2. HandlePermissionUpdate(st, e) =
        IF s \notin DOMAIN st.streams THEN st
        ELSE [st EXCEPT !.permissions = Save(st.permissions, <<s, user>>, p)]
  BY DEF HandlePermissionUpdate
<1>3. ASSUME NEW entities
      PROVE  [st EXCEPT !.permissions = entities]
               = [streams |-> st.streams, permissions |-> entities,
                  nodes |-> st.nodes, halted |-> FALSE]
  <2>1. [st EXCEPT !.permissions = entities]
          = [streams |-> st.streams, permissions |-> entities,
             nodes |-> st.nodes, halted |-> st.halted]
    BY DEF IsStore
  <2>2. st.halted = FALSE
    BY DEF IsStore
  <2> QED
    BY <2>1, <2>2
<1>4. PermissionUpdated(s, user, p) = e
  BY DEF PermissionUpdated
<1> HIDE DEF e
<1> QED
  BY <1>1, <1>2, <1>3, <1>4

\* A stream the subgraph does not know.
LEMMA UnknownStreamEffect ==
    ASSUME NEW st, ~st.halted, NEW s, s \notin DOMAIN st.streams, NEW user, NEW p
    PROVE  Handle(st, PermissionUpdated(s, user, p)) = st
<1> DEFINE e == [name |-> "PermissionUpdated", stream |-> s, user |-> user, permission |-> p]
<1>1. Handle(st, e) = HandlePermissionUpdate(st, e)
  BY DEF Handle
<1> QED
  BY <1>1 DEF HandlePermissionUpdate, PermissionUpdated

\* The store with other nodes.
StoreWithNodes(entities, halted) ==
    [streams |-> store.streams, permissions |-> store.permissions,
     nodes |-> entities, halted |-> halted]

LEMMA NodeUpdatedEffect ==
    ASSUME StoreType, ~store.halted, NEW n
    PROVE  Handle(store, [name |-> "NodeUpdated", node |-> n])
             = StoreWithNodes(IF n \in DOMAIN store.nodes THEN store.nodes
                              ELSE Save(store.nodes, n, {}), FALSE)
<1> DEFINE e == [name |-> "NodeUpdated", node |-> n]
<1>1. Handle(store, e) = IF n \in DOMAIN store.nodes THEN store
                         ELSE [store EXCEPT !.nodes = Save(store.nodes, n, {})]
  BY DEF Handle, HandleNodeUpdate
<1> QED
  BY <1>1 DEF StoreType, StoreWithNodes

LEMMA NodeRemovedEffect ==
    ASSUME StoreType, ~store.halted, NEW n
    PROVE  Handle(store, [name |-> "NodeRemoved", node |-> n])
             = StoreWithNodes(Without(store.nodes, n), FALSE)
<1> DEFINE e == [name |-> "NodeRemoved", node |-> n]
<1>1. Handle(store, e) = [store EXCEPT !.nodes = Without(store.nodes, n)]
  BY DEF Handle, HandleNodeRemoved
<1> QED
  BY <1>1 DEF StoreType, StoreWithNodes

\* A storage node the subgraph does not know halts it.
LEMMA AddedEffect ==
    ASSUME StoreType, ~store.halted, NEW s, NEW n
    PROVE  Handle(store, [name |-> "Added", stream |-> s, node |-> n])
             = IF n \notin DOMAIN store.nodes THEN StoreWithNodes(store.nodes, TRUE)
               ELSE StoreWithNodes([store.nodes EXCEPT ![n] = store.nodes[n] \cup {s}], FALSE)
<1> DEFINE e == [name |-> "Added", stream |-> s, node |-> n]
<1>1. Handle(store, e) =
        IF n \notin DOMAIN store.nodes THEN [store EXCEPT !.halted = TRUE]
        ELSE [store EXCEPT !.nodes = [store.nodes EXCEPT ![n] = store.nodes[n] \cup {s}]]
  BY DEF Handle, HandleStorageNodeAddedToStream, Halted
<1> QED
  BY <1>1 DEF StoreType, StoreWithNodes

LEMMA RemovedEffect ==
    ASSUME StoreType, ~store.halted, NEW s, NEW n
    PROVE  Handle(store, [name |-> "Removed", stream |-> s, node |-> n])
             = IF n \notin DOMAIN store.nodes THEN StoreWithNodes(store.nodes, TRUE)
               ELSE StoreWithNodes([store.nodes EXCEPT ![n] = store.nodes[n] \ {s}], FALSE)
<1> DEFINE e == [name |-> "Removed", stream |-> s, node |-> n]
<1>1. Handle(store, e) =
        IF n \notin DOMAIN store.nodes THEN [store EXCEPT !.halted = TRUE]
        ELSE [store EXCEPT !.nodes = [store.nodes EXCEPT ![n] = store.nodes[n] \ {s}]]
  BY DEF Handle, HandleStorageNodeRemovedFromStream, Halted
<1> QED
  BY <1>1 DEF StoreType, StoreWithNodes

-----------------------------------------------------------------------------
(* Every step *)

LEMMA EmitOne ==
    ASSUME NEW e, Emit(<<e>>)
    PROVE  store' = Handle(store, e)
  BY OneEventHandled DEF Emit

LEMMA StoreOfFields ==
    ASSUME NEW a, NEW b, NEW c,
           store' = [streams |-> a, permissions |-> b, nodes |-> c, halted |-> FALSE]
    PROVE  /\ StoreType' /\ store'.halted = FALSE
           /\ store'.streams = a /\ store'.permissions = b /\ store'.nodes = c
<1>1. /\ store'.halted = FALSE
      /\ store'.streams = a /\ store'.permissions = b /\ store'.nodes = c
  OBVIOUS
<1>2. store' = [streams |-> store'.streams, permissions |-> store'.permissions,
                nodes |-> store'.nodes, halted |-> store'.halted]
  BY <1>1
<1> QED
  BY <1>1, <1>2 DEF StoreType

\* What a step must do to keep the invariant, if it does not concern the store of
\* a subgraph that is halted.
LEMMA StepKeepsShownInv ==
    ASSUME ShownInv, RegistryInv', (metadata = [s \in Streams |-> metadata[s]])',
           PermissionsTyped', PairsAreKnown',
           store.halted => store' = store,
           ~store.halted => StoreType',
           ~store.halted /\ ~store'.halted =>
               EntitiesOfStreams' /\ PermissionsAgree' /\ StorageNodesAgree'
    PROVE  ShownInv'
<1>1. CASE store.halted
  <2>1. StoreType' /\ store'.halted
    BY <1>1 DEF ShownInv, StoreType
  <2> QED
    BY <2>1 DEF ShownInv
<1>2. CASE ~store.halted
  BY <1>2 DEF ShownInv
<1> QED
  BY <1>1, <1>2

\* Nodes come and go, and are given to streams: nothing but their entities changes.
LEMMA NodeStepKeepsShownInv ==
    ASSUME ShownInv, UNCHANGED <<metadata, version, permissions, now, granted>>,
           store.halted => store' = store,
           NEW entities, NEW halted \in BOOLEAN,
           ~store.halted => store' = StoreWithNodes(entities, halted),
           PairsAreKnown',
           ~store.halted /\ ~halted => (DOMAIN entities = nodes)',
           ~store.halted /\ ~halted => \A n \in nodes' :
             LET stored == {s \in Streams : <<s, n>> \in pairs'}
             IN  IF n \in removed' THEN entities[n] \subseteq stored ELSE entities[n] = stored
    PROVE  ShownInv'
<1>1. RegistryInv' /\ PermissionsTyped' /\ (metadata = [s \in Streams |-> metadata[s]])'
  BY OtherStepsKeepRegistryInv DEF ShownInv, PermissionsTyped
<1>2. ~store.halted => /\ StoreType'
                       /\ store'.streams = store.streams
                       /\ store'.permissions = store.permissions
                       /\ store'.nodes = entities
                       /\ store'.halted = halted
  BY DEF StoreWithNodes, StoreType
<1>3. ~store.halted /\ ~store'.halted =>
        EntitiesOfStreams' /\ PermissionsAgree' /\ StorageNodesAgree'
  <2> SUFFICES ASSUME ~store.halted, ~store'.halted
               PROVE  EntitiesOfStreams' /\ PermissionsAgree' /\ StorageNodesAgree'
    OBVIOUS
  <2>1. EntitiesOfStreams'
    BY <1>2, SameStreams DEF ShownInv
  <2>2. PermissionsAgree'
    BY <1>2, SamePermissions DEF ShownInv, Exists
  <2>3. StorageNodesAgree'
    BY <1>2 DEF StorageNodesAgree
  <2> QED
    BY <2>1, <2>2, <2>3
<1> QED
  BY <1>1, <1>2, <1>3, StepKeepsShownInv

LEMMA CreateOrUpdateNodeShown ==
    ASSUME ShownInv, NEW n, CreateOrUpdateNode(n)
    PROVE  ShownInv'
<1> DEFINE e == [name |-> "NodeUpdated", node |-> n]
           entities == IF n \in DOMAIN store.nodes THEN store.nodes ELSE Save(store.nodes, n, {})
<1>1. store' = Handle(store, e)
  BY EmitOne DEF CreateOrUpdateNode
<1>2. store.halted => store' = store
  BY <1>1, HaltedStays
<1>3. ~store.halted => store' = StoreWithNodes(entities, FALSE)
  BY <1>1, NodeUpdatedEffect DEF ShownInv
<1>4. UNCHANGED <<metadata, version, permissions, now, granted, pairs, removed>>
      /\ nodes' = nodes \cup {n}
  BY DEF CreateOrUpdateNode
<1>5. PairsAreKnown'
  BY <1>4 DEF ShownInv, PairsAreKnown
<1>6. ~store.halted => DOMAIN entities = nodes'
  BY <1>4 DEF Save, ShownInv, StorageNodesAgree
<1>7. ASSUME ~store.halted, NEW m \in nodes'
      PROVE  LET stored == {s \in Streams : <<s, m>> \in pairs'}
             IN  IF m \in removed' THEN entities[m] \subseteq stored ELSE entities[m] = stored
  <2>1. StorageNodesAgree
    BY <1>7 DEF ShownInv
  <2>2. CASE m \in nodes
    <3>1. entities[m] = store.nodes[m]
      BY <2>1, <2>2 DEF StorageNodesAgree, Save
    <3> QED
      BY <2>1, <2>2, <3>1, <1>4 DEF StorageNodesAgree
  <2>3. CASE m \notin nodes
    <3>1. m = n /\ entities[m] = {}
      BY <2>1, <2>3, <1>4 DEF StorageNodesAgree, Save
    <3>2. m \notin removed => {s \in Streams : <<s, m>> \in pairs} = {}
      BY <2>3 DEF ShownInv, PairsAreKnown
    <3> QED
      BY <3>1, <3>2, <1>4
  <2> QED
    BY <2>2, <2>3
<1> HIDE DEF entities
<1> QED
  BY <1>2, <1>3, <1>4, <1>5, <1>6, <1>7, NodeStepKeepsShownInv

LEMMA RemoveNodeShown ==
    ASSUME ShownInv, NEW n, RemoveNode(n)
    PROVE  ShownInv'
<1> DEFINE e == [name |-> "NodeRemoved", node |-> n]
           entities == Without(store.nodes, n)
<1>1. store' = Handle(store, e)
  BY EmitOne DEF RemoveNode
<1>2. store.halted => store' = store
  BY <1>1, HaltedStays
<1>3. ~store.halted => store' = StoreWithNodes(entities, FALSE)
  BY <1>1, NodeRemovedEffect DEF ShownInv
<1>4. UNCHANGED <<metadata, version, permissions, now, granted, pairs>>
      /\ nodes' = nodes \ {n} /\ removed' = removed \cup {n}
  BY DEF RemoveNode
<1>5. PairsAreKnown'
  BY <1>4 DEF ShownInv, PairsAreKnown
<1>6. ~store.halted => DOMAIN entities = nodes'
  BY <1>4 DEF Without, ShownInv, StorageNodesAgree
<1>7. ASSUME ~store.halted, NEW m \in nodes'
      PROVE  LET stored == {s \in Streams : <<s, m>> \in pairs'}
             IN  IF m \in removed' THEN entities[m] \subseteq stored ELSE entities[m] = stored
  <2>1. StorageNodesAgree
    BY <1>7 DEF ShownInv
  <2>2. m \in nodes /\ m # n /\ entities[m] = store.nodes[m]
    BY <2>1, <1>4 DEF StorageNodesAgree, Without
  <2> QED
    BY <2>1, <2>2, <1>4 DEF StorageNodesAgree
<1> HIDE DEF entities
<1> QED
  BY <1>2, <1>3, <1>4, <1>5, <1>6, <1>7, NodeStepKeepsShownInv

LEMMA AddStorageNodeShown ==
    ASSUME ShownInv, NEW s \in Streams, NEW sender, NEW n, AddStorageNode(s, sender, n)
    PROVE  ShownInv'
<1> DEFINE e == [name |-> "Added", stream |-> s, node |-> n]
           entities == IF n \in DOMAIN store.nodes
                       THEN [store.nodes EXCEPT ![n] = store.nodes[n] \cup {s}] ELSE store.nodes
           halted == n \notin DOMAIN store.nodes
<1>1. store' = Handle(store, e)
  BY EmitOne DEF AddStorageNode
<1>2. store.halted => store' = store
  BY <1>1, HaltedStays
<1>3. ~store.halted => store' = StoreWithNodes(entities, halted)
  BY <1>1, AddedEffect DEF ShownInv
<1>4. UNCHANGED <<metadata, version, permissions, now, granted, nodes, removed>>
      /\ pairs' = pairs \cup {<<s, n>>} /\ n \in nodes
  BY DEF AddStorageNode
<1>5. PairsAreKnown'
  BY <1>4 DEF ShownInv, PairsAreKnown
<1>6. ~store.halted => DOMAIN entities = nodes'
  BY <1>4 DEF ShownInv, StorageNodesAgree
<1>7. ASSUME ~store.halted, NEW m \in nodes'
      PROVE  LET stored == {r \in Streams : <<r, m>> \in pairs'}
             IN  IF m \in removed' THEN entities[m] \subseteq stored ELSE entities[m] = stored
  <2>1. StorageNodesAgree
    BY <1>7 DEF ShownInv
  <2>2. CASE m # n
    <3>1. entities[m] = store.nodes[m] /\ \A r \in Streams : <<r, m>> \in pairs' <=> <<r, m>> \in pairs
      BY <2>1, <2>2, <1>4 DEF StorageNodesAgree
    <3> QED
      BY <2>1, <3>1, <1>4 DEF StorageNodesAgree
  <2>3. CASE m = n
    <3>1. /\ entities[m] = store.nodes[m] \cup {s}
          /\ {r \in Streams : <<r, m>> \in pairs'} = {r \in Streams : <<r, m>> \in pairs} \cup {s}
      BY <2>1, <2>3, <1>4 DEF StorageNodesAgree
    <3> QED
      BY <2>1, <3>1, <1>4 DEF StorageNodesAgree
  <2> QED
    BY <2>2, <2>3
<1>8. halted \in BOOLEAN
  OBVIOUS
<1> HIDE DEF entities, halted
<1> QED
  BY <1>2, <1>3, <1>4, <1>5, <1>6, <1>7, <1>8, NodeStepKeepsShownInv

LEMMA RemoveStorageNodeShown ==
    ASSUME ShownInv, NEW s \in Streams, NEW sender, NEW n, RemoveStorageNode(s, sender, n)
    PROVE  ShownInv'
<1> DEFINE e == [name |-> "Removed", stream |-> s, node |-> n]
           entities == IF n \in DOMAIN store.nodes
                       THEN [store.nodes EXCEPT ![n] = store.nodes[n] \ {s}] ELSE store.nodes
           halted == n \notin DOMAIN store.nodes
<1>1. store' = Handle(store, e)
  BY EmitOne DEF RemoveStorageNode
<1>2. store.halted => store' = store
  BY <1>1, HaltedStays
<1>3. ~store.halted => store' = StoreWithNodes(entities, halted)
  BY <1>1, RemovedEffect DEF ShownInv
<1>4. UNCHANGED <<metadata, version, permissions, now, granted, nodes, removed>>
      /\ pairs' = pairs \ {<<s, n>>}
  BY DEF RemoveStorageNode
<1>5. PairsAreKnown'
  BY <1>4 DEF ShownInv, PairsAreKnown
<1>6. ~store.halted => DOMAIN entities = nodes'
  BY <1>4 DEF ShownInv, StorageNodesAgree
<1>7. ASSUME ~store.halted, NEW m \in nodes'
      PROVE  LET stored == {r \in Streams : <<r, m>> \in pairs'}
             IN  IF m \in removed' THEN entities[m] \subseteq stored ELSE entities[m] = stored
  <2>1. StorageNodesAgree
    BY <1>7 DEF ShownInv
  <2>2. CASE m # n
    <3>1. entities[m] = store.nodes[m] /\ \A r \in Streams : <<r, m>> \in pairs' <=> <<r, m>> \in pairs
      BY <2>1, <2>2, <1>4 DEF StorageNodesAgree
    <3> QED
      BY <2>1, <3>1, <1>4 DEF StorageNodesAgree
  <2>3. CASE m = n
    <3>1. /\ entities[m] = store.nodes[m] \ {s}
          /\ {r \in Streams : <<r, m>> \in pairs'} = {r \in Streams : <<r, m>> \in pairs} \ {s}
      BY <2>1, <2>3, <1>4 DEF StorageNodesAgree
    <3> QED
      BY <2>1, <3>1, <1>4 DEF StorageNodesAgree
  <2> QED
    BY <2>2, <2>3
<1>8. halted \in BOOLEAN
  OBVIOUS
<1> HIDE DEF entities, halted
<1> QED
  BY <1>2, <1>3, <1>4, <1>5, <1>6, <1>7, <1>8, NodeStepKeepsShownInv

\* What a stream step does to the entities of permissions and nodes: nothing.
LEMMA MetadataStepKeepsShownInv ==
    ASSUME ShownInv, UNCHANGED <<version, permissions, now, nodes, pairs, granted, removed>>,
           (metadata = [r \in Streams |-> metadata[r]])',
           \A r \in Streams : Exists(r)' => Exists(r),
           store.halted => store' = store,
           NEW entities,
           ~store.halted => store' = [streams |-> entities, permissions |-> store.permissions,
                                      nodes |-> store.nodes, halted |-> FALSE],
           ~store.halted => EntitiesOfStreams'
    PROVE  ShownInv'
<1>1. RegistryInv' /\ PermissionsTyped' /\ PairsAreKnown'
  BY OtherStepsKeepRegistryInv DEF ShownInv, PermissionsTyped, PairsAreKnown
<1>2. ~store.halted => /\ StoreType'
                       /\ store'.permissions = store.permissions
                       /\ store'.nodes = store.nodes
  <2> SUFFICES ASSUME ~store.halted
               PROVE  StoreType' /\ store'.permissions = store.permissions
                      /\ store'.nodes = store.nodes
    OBVIOUS
  <2>1. store' = [streams |-> entities, permissions |-> store.permissions,
                  nodes |-> store.nodes, halted |-> FALSE]
    OBVIOUS
  <2> QED
    BY <2>1, StoreOfFields
<1>3. ~store.halted => PermissionsAgree' /\ StorageNodesAgree'
  BY <1>2, SamePermissions, SameStorageNodes DEF ShownInv
<1> QED
  BY <1>1, <1>2, <1>3, StepKeepsShownInv

LEMMA DeleteStreamShown ==
    ASSUME ShownInv, NEW s \in Streams, NEW sender, DeleteStream(s, sender)
    PROVE  ShownInv'
<1> DEFINE e == [name |-> "StreamDeleted", stream |-> s]
           entities == Without(store.streams, s)
<1>1. store' = Handle(store, e)
  BY EmitOne DEF DeleteStream
<1>2. store.halted => store' = store
  BY <1>1, HaltedStays
<1>3. ~store.halted => store' = [streams |-> entities, permissions |-> store.permissions,
                                 nodes |-> store.nodes, halted |-> FALSE]
  BY <1>1, DeletionEffect DEF ShownInv
<1>4. UNCHANGED <<version, permissions, now, nodes, pairs, granted, removed>>
      /\ metadata' = [metadata EXCEPT ![s] = NoMetadata]
  BY DEF DeleteStream
<1>5. /\ metadata' = [r \in Streams |-> metadata'[r]]
      /\ metadata'[s] = NoMetadata
      /\ \A r \in Streams \ {s} : metadata'[r] = metadata[r]
  BY <1>4 DEF ShownInv
<1>6. \A r \in Streams : Exists(r)' => Exists(r)
  BY <1>5 DEF Exists
<1>7. ~store.halted => EntitiesOfStreams'
  <2> SUFFICES ASSUME ~store.halted PROVE EntitiesOfStreams'
    OBVIOUS
  <2>1. EntitiesOfStreams /\ store'.streams = entities
    BY <1>3 DEF ShownInv
  <2>2. /\ DOMAIN entities = DOMAIN store.streams \ {s}
        /\ \A r \in DOMAIN entities : entities[r] = store.streams[r]
    BY DEF Without
  <2> HIDE DEF entities
  <2> QED
    BY <2>1, <2>2, <1>5 DEF EntitiesOfStreams, Exists
<1> HIDE DEF entities
<1> QED
  BY <1>2, <1>3, <1>4, <1>5, <1>6, <1>7, MetadataStepKeepsShownInv

\* Saving the metadata of a stream shows what is stored.
LEMMA SavedStreamShown ==
    ASSUME EntitiesOfStreams, NEW s \in Streams, NEW m,
           metadata' = [metadata EXCEPT ![s] = m], metadata = [r \in Streams |-> metadata[r]],
           store'.streams = Save(store.streams, s, m)
    PROVE  EntitiesOfStreams'
<1>1. /\ metadata'[s] = m
      /\ \A r \in Streams \ {s} : metadata'[r] = metadata[r]
  OBVIOUS
<1>2. /\ DOMAIN store'.streams = DOMAIN store.streams \cup {s}
      /\ store'.streams[s] = m
      /\ \A r \in DOMAIN store.streams \ {s} : store'.streams[r] = store.streams[r]
  BY DEF Save
<1> QED
  BY <1>1, <1>2 DEF EntitiesOfStreams, Exists

LEMMA UpdateStreamMetadataShown ==
    ASSUME ShownInv, NEW s \in Streams, NEW sender, NEW m, UpdateStreamMetadata(s, sender, m)
    PROVE  ShownInv'
<1> DEFINE e == [name |-> "StreamUpdated", stream |-> s, metadata |-> m]
           entities == Save(store.streams, s, m)
<1>1. store' = Handle(store, e)
  BY EmitOne DEF UpdateStreamMetadata
<1>2. store.halted => store' = store
  BY <1>1, HaltedStays
<1>3. ~store.halted => store' = [streams |-> entities, permissions |-> store.permissions,
                                 nodes |-> store.nodes, halted |-> FALSE]
  BY <1>1, StreamEventEffect DEF ShownInv
<1>4. UNCHANGED <<version, permissions, now, nodes, pairs, granted, removed>>
      /\ metadata' = [metadata EXCEPT ![s] = m] /\ Exists(s)
  BY DEF UpdateStreamMetadata
<1>5. /\ metadata' = [r \in Streams |-> metadata'[r]]
      /\ \A r \in Streams \ {s} : metadata'[r] = metadata[r]
  BY <1>4 DEF ShownInv
<1>6. \A r \in Streams : Exists(r)' => Exists(r)
  BY <1>4, <1>5 DEF Exists
<1>7. ~store.halted => EntitiesOfStreams'
  BY <1>3, <1>4, SavedStreamShown DEF ShownInv
<1> HIDE DEF entities
<1> QED
  BY <1>2, <1>3, <1>4, <1>5, <1>6, <1>7, MetadataStepKeepsShownInv

\* A permission is stored, or deleted because it holds nothing, and shown.
LEMMA PermissionChangeShown ==
    ASSUME ShownInv, NEW s \in Streams, NEW user, NEW p \in Permission,
           \/ permissions' = Stored(s, user, p)
           \/ permissions' = Deleted(s, user) /\ Holds(p) = {},
           Emit(<<PermissionUpdated(s, user, p)>>),
           PermissionChanged(s, user)
    PROVE  ShownInv'
<1> DEFINE b == IF s \in DOMAIN store.streams THEN Save(store.permissions, <<s, user>>, p)
                ELSE store.permissions
           key == UserKey(s, user)
<1>1. store' = Handle(store, PermissionUpdated(s, user, p))
  BY EmitOne
<1>2. store.halted => store' = store
  BY <1>1, HaltedStays
<1>3. ~store.halted => store' = [streams |-> store.streams, permissions |-> b,
                                 nodes |-> store.nodes, halted |-> FALSE]
  <2> HIDE DEF b
  <2> SUFFICES ASSUME ~store.halted
               PROVE  store' = [streams |-> store.streams, permissions |-> b,
                                nodes |-> store.nodes, halted |-> FALSE]
    OBVIOUS
  <2>1. store = [streams |-> store.streams, permissions |-> store.permissions,
                 nodes |-> store.nodes, halted |-> FALSE]
    BY DEF ShownInv, StoreType
  <2>2. IsStore(store) /\ ~store.halted
    BY DEF ShownInv, StoreType, IsStore
  <2>3. CASE s \in DOMAIN store.streams
    <3>1. store' = [streams |-> store.streams,
                    permissions |-> Save(store.permissions, <<s, user>>, p),
                    nodes |-> store.nodes, halted |-> FALSE]
      BY <2>2, <2>3, <1>1, PermissionEventEffect
    <3>2. b = Save(store.permissions, <<s, user>>, p)
      BY <2>3 DEF b
    <3> QED
      BY <3>1, <3>2
  <2>4. CASE s \notin DOMAIN store.streams
    <3>1. store' = store
      <4>1. Handle(store, PermissionUpdated(s, user, p)) = store
        BY <2>2, <2>4, UnknownStreamEffect
      <4> QED
        BY <4>1, <1>1
    <3>2. b = store.permissions
      BY <2>4 DEF b
    <3> QED
      BY <3>1, <3>2, <2>1
  <2> QED
    BY <2>3, <2>4
<1>4. /\ UNCHANGED <<metadata, version, now, nodes, pairs, removed>>
      /\ granted' = [granted EXCEPT ![s] = granted[s] \cup {user}]
  BY DEF PermissionChanged
<1>5. RegistryInv'
  BY ChangeKeepsRegistryInv DEF ShownInv
<1>6. PICK entries : /\ permissions' = [permissions EXCEPT ![s] = entries]
                     /\ \/ entries = Save(permissions[s], key, p)
                        \/ entries = Without(permissions[s], key) /\ Holds(p) = {}
  BY DEF Stored, Deleted
<1>7. /\ permissions'[s] = entries
      /\ \A r \in Streams \ {s} : permissions'[r] = permissions[r] /\ granted'[r] = granted[r]
      /\ granted'[s] = granted[s] \cup {user}
  BY <1>4, <1>6 DEF ShownInv, RegistryInv, RegistryType
<1>8. \A k \in DOMAIN entries : \/ k \in DOMAIN permissions[s] /\ entries[k] = permissions[s][k]
                                \/ entries[k] = p
  BY <1>6 DEF Save, Without
<1>9. PermissionsTyped'
  BY <1>7, <1>8 DEF ShownInv, PermissionsTyped
<1>10. PairsAreKnown' /\ (metadata = [r \in Streams |-> metadata[r]])'
  BY <1>4 DEF ShownInv, PairsAreKnown
<1>11. ~store.halted => StoreType' /\ EntitiesOfStreams' /\ StorageNodesAgree'
  <2> HIDE DEF b
  <2>1. ~store.halted => StoreType' /\ store'.streams = store.streams
                         /\ store'.nodes = store.nodes
    <3> SUFFICES ASSUME ~store.halted
                 PROVE  StoreType' /\ store'.streams = store.streams
                        /\ store'.nodes = store.nodes
      OBVIOUS
    <3>1. store' = [streams |-> store.streams, permissions |-> b,
                    nodes |-> store.nodes, halted |-> FALSE]
      BY <1>3
    <3> QED
      BY <3>1, StoreOfFields
  <2> QED
    BY <2>1, <1>4, SameStreams, SameStorageNodes DEF ShownInv
<1>12. ASSUME ~store.halted, NEW r \in Streams, NEW u \in granted'[r], Exists(r)'
       PROVE  PermissionAgrees(r, u)'
  <2>1. Exists(r) /\ UserKey(r, u)' = UserKey(r, u) /\ now' = now
    BY <1>4, <1>12 DEF Exists, UserKey
  <2>2. EntitiesOfStreams /\ PermissionsAgree
    BY <1>12 DEF ShownInv
  <2>3. CASE r = s /\ u = user
    <3>1. s \in DOMAIN store.streams
      BY <2>1, <2>2, <2>3 DEF EntitiesOfStreams
    <3>2. /\ <<s, user>> \in DOMAIN store'.permissions
          /\ store'.permissions[<<s, user>>] = p
      BY <1>3, <1>12, <3>1 DEF Save
    <3>3. PermissionAt(s, key)' = p \/ (PermissionAt(s, key)' = NoPermission /\ Holds(p) = {})
      <4>1. PermissionAt(s, key)' = IF key \in DOMAIN entries THEN entries[key] ELSE NoPermission
        BY <1>7, <2>1, <2>3 DEF PermissionAt
      <4> HIDE DEF key
      <4>2. CASE entries = Save(permissions[s], key, p)
        <5>1. key \in DOMAIN entries /\ entries[key] = p
          BY <4>2 DEF Save
        <5> QED
          BY <4>1, <5>1
      <4>3. CASE entries = Without(permissions[s], key) /\ Holds(p) = {}
        <5>1. key \notin DOMAIN entries
          BY <4>3 DEF Without
        <5> QED
          BY <4>1, <4>3, <5>1
      <4> QED
        BY <4>2, <4>3, <1>6
    <3>4. Holds(NoPermission) = {}
      BY NoPermissionTyped DEF ShownInv
    <3>5. Holds(p)' = Holds(p) /\ Holds(NoPermission)' = Holds(NoPermission)
      BY <2>1 DEF Holds
    <3> QED
      BY <2>1, <2>3, <3>2, <3>3, <3>4, <3>5 DEF PermissionAgrees
  <2>4. CASE ~(r = s /\ u = user)
    <3>1. u \in granted[r]
      BY <1>7, <1>12, <2>4
    <3>2. PermissionAgrees(r, u)
      BY <2>1, <2>2, <3>1 DEF PermissionsAgree
    <3>3. store'.permissions = b
      BY <1>3, <1>12
    <3>4. <<r, u>> # <<s, user>>
      BY <2>4
    <3>5. /\ <<r, u>> \in DOMAIN store'.permissions
          /\ store'.permissions[<<r, u>>] = store.permissions[<<r, u>>]
      BY <3>2, <3>3, <3>4 DEF Save, PermissionAgrees
    <3>6. PermissionAt(r, UserKey(r, u))' = PermissionAt(r, UserKey(r, u))
      <4>1. CASE r # s
        BY <4>1, <1>7, <2>1 DEF PermissionAt
      <4>2. CASE r = s
        <5>1. UserKey(r, u) # key
          BY <4>2, <2>4 DEF UserKey
        <5>2. /\ UserKey(r, u) \in DOMAIN entries <=> UserKey(r, u) \in DOMAIN permissions[s]
              /\ UserKey(r, u) \in DOMAIN entries =>
                    entries[UserKey(r, u)] = permissions[s][UserKey(r, u)]
          <6> HIDE DEF key
          <6> QED
            BY <5>1, <1>6 DEF Save, Without
        <5> QED
          BY <4>2, <5>2, <1>7, <2>1 DEF PermissionAt
      <4> QED
        BY <4>1, <4>2
    <3> QED
      BY <3>2, <3>5, <3>6, <2>1 DEF PermissionAgrees, Holds
  <2> QED
    BY <2>3, <2>4
<1>13. ~store.halted => PermissionsAgree'
  BY <1>12 DEF PermissionsAgree
<1> QED
  BY <1>2, <1>5, <1>9, <1>10, <1>11, <1>13, StepKeepsShownInv

\* createStream: the stream and its creator's permission, in this order.
LEMMA CreationShown ==
    ASSUME ShownInv, NEW s \in Streams, NEW creator, NEW m,
           CreateStreamAndPermission(s, creator, m)
    PROVE  ShownInv'
<1> DEFINE p == FullPermission
           a == Save(store.streams, s, m)
           b == Save(store.permissions, <<s, creator>>, p)
           key == <<version'[s], creator>>
           e1 == [name |-> "StreamCreated", stream |-> s, metadata |-> m]
           e2 == PermissionUpdated(s, creator, p)
<1>1. store' = Handle(Handle(store, e1), e2)
  BY TwoEventsHandled DEF CreateStreamAndPermission, Emit
<1>2. store.halted => store' = store
  BY <1>1, HaltedStays
<1>3. ~store.halted => store' = [streams |-> a, permissions |-> b,
                                 nodes |-> store.nodes, halted |-> FALSE]
  <2> SUFFICES ASSUME ~store.halted
               PROVE  store' = [streams |-> a, permissions |-> b,
                                nodes |-> store.nodes, halted |-> FALSE]
    OBVIOUS
  <2> DEFINE mid == Handle(store, e1)
  <2>1. mid = [streams |-> a, permissions |-> store.permissions,
              nodes |-> store.nodes, halted |-> FALSE]
    BY StreamEventEffect DEF ShownInv
  <2>2. s \in DOMAIN a
    BY DEF Save
  <2> HIDE DEF mid, a
  <2>3. Handle(mid, PermissionUpdated(s, creator, p))
          = [streams |-> a, permissions |-> Save(store.permissions, <<s, creator>>, p),
             nodes |-> store.nodes, halted |-> FALSE]
    <3>1. /\ mid.streams = a /\ mid.permissions = store.permissions
          /\ mid.nodes = store.nodes /\ IsStore(mid) /\ ~mid.halted
      BY <2>1, RecordFields
    <3>2. Handle(mid, PermissionUpdated(s, creator, p))
            = [streams |-> mid.streams,
               permissions |-> Save(mid.permissions, <<s, creator>>, p),
               nodes |-> mid.nodes, halted |-> FALSE]
      BY <2>2, <3>1, PermissionEventEffect
    <3> QED
      BY <3>1, <3>2
  <2>4. store' = Handle(mid, PermissionUpdated(s, creator, p))
    BY <1>1 DEF mid
  <2> QED
    BY <2>3, <2>4
<1>4. /\ UNCHANGED <<now, nodes, pairs, removed>>
      /\ granted' = [granted EXCEPT ![s] = {creator}]
      /\ metadata' = [metadata EXCEPT ![s] = m]
      /\ version' = [version EXCEPT ![s] = version[s] + 1]
      /\ permissions' = [permissions EXCEPT ![s] = Save(permissions[s], key, p)]
  BY DEF CreateStreamAndPermission
<1>5. RegistryInv'
  BY CreationKeepsRegistryInv DEF ShownInv
<1>6. /\ metadata' = [r \in Streams |-> metadata'[r]]
      /\ permissions'[s] = Save(permissions[s], key, p)
      /\ granted'[s] = {creator}
      /\ \A r \in Streams \ {s} : /\ permissions'[r] = permissions[r]
                                  /\ granted'[r] = granted[r]
                                  /\ metadata'[r] = metadata[r]
                                  /\ version'[r] = version[r]
  BY <1>4 DEF ShownInv, RegistryInv, RegistryType
<1>7. p \in Permission
  BY RegistryAssumption DEF FullPermission, Permission, Forever
<1> HIDE DEF p, key
<1>8. PermissionsTyped'
  BY <1>6, <1>7 DEF ShownInv, PermissionsTyped, Save
<1>9. PairsAreKnown'
  BY <1>4 DEF ShownInv, PairsAreKnown
<1>10. ~store.halted => /\ StoreType' /\ store'.streams = a
                        /\ store'.permissions = b /\ store'.nodes = store.nodes
  <2> SUFFICES ASSUME ~store.halted
               PROVE  /\ StoreType' /\ store'.streams = a
                      /\ store'.permissions = b /\ store'.nodes = store.nodes
    OBVIOUS
  <2> HIDE DEF a, b
  <2>1. store' = [streams |-> a, permissions |-> b, nodes |-> store.nodes, halted |-> FALSE]
    BY <1>3
  <2> QED
    BY <2>1, StoreOfFields
<1>11. ~store.halted => EntitiesOfStreams' /\ StorageNodesAgree'
  BY <1>4, <1>10, SavedStreamShown, SameStorageNodes DEF ShownInv
<1>12. ASSUME ~store.halted, NEW r \in Streams, NEW u \in granted'[r], Exists(r)'
       PROVE  PermissionAgrees(r, u)'
  <2>1. CASE r = s
    <3>1. /\ <<r, u>> \in DOMAIN store'.permissions
          /\ store'.permissions[<<r, u>>] = p
      BY <2>1, <1>6, <1>10, <1>12 DEF Save
    <3>2. PermissionAt(r, UserKey(r, u))' = p
      <4>1. UserKey(r, u)' = key
        BY <2>1, <1>6, <1>12 DEF UserKey, key
      <4> QED
        BY <4>1, <2>1, <1>6 DEF PermissionAt, Save
    <3> QED
      BY <3>1, <3>2, <1>7 DEF PermissionAgrees
  <2>2. CASE r # s
    <3>1. PermissionAgrees(r, u)
      BY <2>2, <1>6, <1>12 DEF ShownInv, PermissionsAgree, Exists
    <3>2. /\ <<r, u>> \in DOMAIN store'.permissions
          /\ store'.permissions[<<r, u>>] = store.permissions[<<r, u>>]
      BY <2>2, <3>1, <1>10, <1>12 DEF Save, PermissionAgrees
    <3>3. PermissionAt(r, UserKey(r, u))' = PermissionAt(r, UserKey(r, u))
      BY <2>2, <1>6 DEF PermissionAt, UserKey
    <3> QED
      BY <3>1, <3>2, <3>3, <1>4 DEF PermissionAgrees, Holds
  <2> QED
    BY <2>1, <2>2
<1>13. ~store.halted => PermissionsAgree'
  BY <1>12 DEF PermissionsAgree
<1> QED
  BY <1>2, <1>5, <1>6, <1>8, <1>9, <1>10, <1>11, <1>13, StepKeepsShownInv

LEMMA SetAllPermissionsShown ==
    ASSUME ShownInv, NEW s \in Streams, NEW user, NEW p \in Permission,
           SetAllPermissions(s, user, p)
    PROVE  ShownInv'
  BY PermissionChangeShown DEF SetAllPermissions, StoredUnlessVoid

LEMMA SetPermissionShown ==
    ASSUME ShownInv, NEW s \in Streams, NEW user, NEW type, NEW grant,
           SetPermission(s, user, type, grant)
    PROVE  ShownInv'
<1> DEFINE before == PermissionAt(s, UserKey(s, user))
           value == IF grant THEN Forever ELSE 0
           p == [before EXCEPT ![type] = value]
<1>1. before \in Permission
  BY PermissionAtTyped DEF ShownInv
<1>2. value \in Int
  BY RegistryAssumption DEF Forever
<1> HIDE DEF before, value
<1>3. p \in Permission
  BY <1>1, <1>2 DEF Permission
<1>4. /\ permissions' = StoredUnlessVoid(s, user, p)
      /\ Emit(<<PermissionUpdated(s, user, p)>>)
      /\ PermissionChanged(s, user)
  BY DEF SetPermission, before, value
<1> HIDE DEF p
<1> QED
  BY <1>3, <1>4, PermissionChangeShown DEF StoredUnlessVoid

LEMMA SetExpirationTimeShown ==
    ASSUME ShownInv, NEW s \in Streams, NEW sender, NEW user, NEW type, NEW expiration \in Int,
           SetExpirationTime(s, sender, user, type, expiration)
    PROVE  ShownInv'
<1> DEFINE before == PermissionAt(s, UserKey(s, user))
           p == [before EXCEPT ![type] = expiration]
<1>1. before \in Permission
  BY PermissionAtTyped DEF ShownInv
<1> HIDE DEF before
<1>2. p \in Permission
  BY <1>1 DEF Permission
<1>3. /\ permissions' = Stored(s, user, p)
      /\ Emit(<<PermissionUpdated(s, user, p)>>)
      /\ PermissionChanged(s, user)
  BY DEF SetExpirationTime, before
<1> HIDE DEF p
<1> QED
  BY <1>2, <1>3, PermissionChangeShown

LEMMA StreamCallShown ==
    ASSUME ShownInv, NEW s \in Streams, NEW sender \in Users, StreamCall(s, sender)
    PROVE  ShownInv'
<1>1. CASE DeleteStream(s, sender)
  BY <1>1, DeleteStreamShown
<1>2. ASSUME NEW m, UpdateStreamMetadata(s, sender, m)
      PROVE  ShownInv'
  BY <1>2, UpdateStreamMetadataShown
<1>3. ASSUME NEW user, NEW p \in Inputs, SetPermissionsForUser(s, sender, user, p)
      PROVE  ShownInv'
  <2>1. p \in Permission
    BY RegistryAssumption DEF Inputs, Permission, NoPermission, FullPermission, Forever
  <2> QED
    BY <1>3, <2>1, SetAllPermissionsShown DEF SetPermissionsForUser
<1>4. ASSUME NEW user, NEW type,
             \/ GrantPermission(s, sender, user, type)
             \/ RevokePermission(s, sender, user, type)
      PROVE  ShownInv'
  BY <1>4, SetPermissionShown DEF GrantPermission, RevokePermission
<1>5. ASSUME NEW user, RevokeAllPermissionsForUser(s, sender, user)
      PROVE  ShownInv'
  <2>1. NoPermission \in Permission /\ Holds(NoPermission) = {}
    BY NoPermissionTyped DEF ShownInv
  <2> QED
    BY <1>5, <2>1, PermissionChangeShown DEF RevokeAllPermissionsForUser
<1>6. ASSUME NEW user, NEW type, NEW expiration \in {0, MaxTime},
             SetExpirationTime(s, sender, user, type, expiration)
      PROVE  ShownInv'
  BY <1>6, SetExpirationTimeShown, RegistryAssumption
<1>7. ASSUME NEW n, AddStorageNode(s, sender, n)
      PROVE  ShownInv'
  BY <1>7, AddStorageNodeShown
<1>8. ASSUME NEW n, RemoveStorageNode(s, sender, n)
      PROVE  ShownInv'
  BY <1>8, RemoveStorageNodeShown
<1> QED
  BY <1>1, <1>2, <1>3, <1>4, <1>5, <1>6, <1>7, <1>8 DEF StreamCall

\* Time passes, or nothing happens to the registry.
LEMMA IdleShown ==
    ASSUME ShownInv, UNCHANGED <<metadata, version, permissions, nodes, pairs, store, granted, removed>>,
           now' = now \/ now' = now + 1
    PROVE  ShownInv'
<1>1. RegistryInv' /\ PermissionsTyped' /\ PairsAreKnown' /\ (metadata = [s \in Streams |-> metadata[s]])'
  BY OtherStepsKeepRegistryInv DEF ShownInv, PermissionsTyped, PairsAreKnown
<1>2. StoreType'
  BY DEF ShownInv, StoreType
<1>3. ~store.halted => EntitiesOfStreams' /\ PermissionsAgree' /\ StorageNodesAgree'
  <2>1. \A s \in Streams : Exists(s)' => Exists(s)
    BY DEF Exists
  <2> QED
    BY <2>1, SameStreams, SamePermissions, SameStorageNodes DEF ShownInv
<1> QED
  BY <1>1, <1>2, <1>3, StepKeepsShownInv

LEMMA NextShownInv ==
    ASSUME ShownInv, [StreamNext]_registryVars
    PROVE  ShownInv'
<1>1. ASSUME NEW s \in Streams, NEW user, NEW m, CreateStreamAndPermission(s, user, m)
      PROVE  ShownInv'
  BY <1>1, CreationShown
<1>2. ASSUME NEW s \in Streams, NEW user, TrustedSetPermissionsForUser(s, user, MaxTime)
      PROVE  ShownInv'
  <2> DEFINE p == [NoPermission EXCEPT !["Subscribe"] = MaxTime]
  <2>1. p \in Permission
    <3>1. NoPermission \in Permission /\ MaxTime \in Int
      BY NoPermissionTyped, RegistryAssumption DEF ShownInv
    <3> QED
      BY <3>1 DEF Permission
  <2>2. SetAllPermissions(s, user, p)
    BY <1>2 DEF TrustedSetPermissionsForUser
  <2> HIDE DEF p
  <2> QED
    BY <2>1, <2>2, SetAllPermissionsShown
<1>3. ASSUME NEW n, CreateOrUpdateNode(n) \/ RemoveNode(n)
      PROVE  ShownInv'
  BY <1>3, CreateOrUpdateNodeShown, RemoveNodeShown
<1>4. CASE Tick
  BY <1>4, IdleShown DEF Tick
<1>5. CASE UNCHANGED registryVars
  BY <1>5, IdleShown DEF registryVars
<1> QED
  BY <1>1, <1>2, <1>3, <1>4, <1>5, StreamCallShown DEF StreamNext, RegistryNext

-----------------------------------------------------------------------------
(* The theorems *)

\* The inductive invariant of the stream registry and its subgraph.
LEMMA ShownInvariance == RegistriesSpec => []ShownInv
<1>1. RegistriesInit => ShownInv
  BY InitShownInv DEF RegistriesInit
<1>2. ShownInv /\ [RegistriesNext]_registriesVars => ShownInv'
  <2> SUFFICES ASSUME ShownInv, [RegistriesNext]_registriesVars
               PROVE  ShownInv'
    OBVIOUS
  <2>1. [StreamNext]_registryVars
    BY DEF RegistriesNext, registriesVars
  <2> QED
    BY <2>1, NextShownInv
<1> QED
  BY <1>1, <1>2, PTL DEF RegistriesSpec

\* The subgraph shows the streams that exist and what their users may do, for any
\* streams and users, however often streams are deleted and created again, and
\* whatever expires in between: streamRegistry.ts against StreamRegistryV5.
THEOREM StreamsAreAlwaysShown == RegistriesSpec => []StreamsShown
  BY ShownInvariance, ShownInvSuffices, PTL

\* The storage nodes shown for a stream are those of the storage registry, but for
\* nodes that were removed at some time, as long as the subgraph has not halted.
THEOREM StorageNodesAreAlwaysShown == RegistriesSpec => []StorageNodesShown
  BY ShownInvariance, ShownInvSuffices, PTL

=============================================================================
