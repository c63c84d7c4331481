------------------------------ MODULE Projects ------------------------------
(***************************************************************************)
(* The Hub: ProjectRegistryV1, ProjectStakingV1 and the local purchase of  *)
(* MarketplaceV4, with the subgraph that follows their events.  One action *)
(* per contract function that changes the state.                           *)
(*                                                                         *)
(* A permission is the set of what its user may do.  It is stored under a  *)
(* hash of the project's state and the user, here the pair of them.  Left  *)
(* out: metadata, the tokens that are paid, and that whoever adds a stream *)
(* must have the Grant permission on it in StreamRegistry: here any call   *)
(* may find that it has.                                                   *)
(***************************************************************************)
EXTENDS Integers, Sequences, FiniteSets, FiniteSetsExt, ProjectIndex

CONSTANTS Projs, Users, Public,     \* Public: the zero address
          Streams, StreamLists,     \* the lists of streams that callers give
          Domains, Prices,          \* payment details: a price for each domain
          LocalDomain,              \* MarketplaceV4's own chain
          MaxDay, MaxStake,         \* bounds: days, stake of a user
          MaxCalls                  \* bound: calls for each project, besides those that
                                    \* create and delete it

ASSUME ProjectsAssumption ==
    /\ IsFiniteSet(Users) /\ IsFiniteSet(Domains)
    /\ Public \notin Users
    /\ StreamLists \subseteq Seq(Streams)
    /\ LocalDomain \in Domains /\ Prices \subseteq Nat
    /\ {MaxDay, MaxStake, MaxCalls} \subseteq Nat

VARIABLES state,          \* 0: never created, 1: created, 2: deleted
          streams, index, \* Project.streams, Project.streamIndex (position + 1, or 0)
          permissions,    \* Project.permissions
          subscriptions,  \* Project.subscriptions: end times, or 0
          payments,       \* Project.paymentDetails
          staked,         \* ProjectStaking: stakedTokens
          projectStake,   \* ProjectStaking: stakedTokensByProject
          day,            \* block.timestamp, in days
          store,          \* the subgraph's entities
          repeated,       \* history: projects that were given a list naming a stream twice
          bought,         \* history: purchases
          calls           \* history: calls for each project

projectVars == <<state, streams, index, permissions, subscriptions, payments, staked,
                 projectStake, day, store, repeated, bought, calls>>
stakingVars == <<staked, projectStake>>

Rights == {"Buy", "Delete", "Edit", "Grant"}
Targets == Users \cup {Public}
PaymentDetails == UNION {[ds -> Prices] : ds \in SUBSET Domains}

Init ==
    /\ state = [p \in Projs |-> 0]
    /\ streams = [p \in Projs |-> <<>>]
    /\ index = [p \in Projs |-> [s \in Streams |-> 0]]
    /\ permissions = [p \in Projs |-> <<>>]
    /\ subscriptions = [p \in Projs |-> [u \in Users |-> 0]]
    /\ payments = [p \in Projs |-> <<>>]
    /\ staked = [p \in Projs |-> [u \in Users |-> 0]]
    /\ projectStake = [p \in Projs |-> 0]
    /\ day = 1
    /\ store = NewStore
    /\ repeated = {}
    /\ bought = [p \in Projs |-> 0]
    /\ calls = [p \in Projs |-> 0]

Exists(p) == state[p] = 1

\* getAddressKey
AddressKey(p, user) == <<state[p], user>>

PermissionOf(p, user) ==
    LET key == AddressKey(p, user)
    IN  IF key \in DOMAIN permissions[p] THEN permissions[p][key] ELSE {}

\* hasPermissionType, which asks for an existing project
HasPermissionType(p, user, right) == Exists(p) /\ right \in PermissionOf(p, user)

Emit(events) == store' = HandleAll(store, events)

Called(p) == calls[p] < MaxCalls /\ calls' = [calls EXCEPT ![p] = @ + 1]

-----------------------------------------------------------------------------
(* The streams of a project: the list, the positions, the events emitted   *)

Listing(p) == [streams |-> streams[p], index |-> index[p], events |-> <<>>]

\* _addStream
WithStream(p, listing, s) ==
    [streams |-> Append(listing.streams, s),
     index   |-> [listing.index EXCEPT ![s] = Len(listing.streams) + 1],
     events  |-> Append(listing.events, [name |-> "StreamAdded", project |-> p, stream |-> s])]

\* addStreams skips what is there already.
WithStreams(p, listing, list) ==
    FoldLeft(LAMBDA l, s : IF l.index[s] > 0 THEN l ELSE WithStream(p, l, s), listing, list)

\* One step of the compaction in setStreams: the first occurrence of a marked stream
\* is kept and its mark is gone with its new position.
KeepIfMarked(p, l, s) ==
    IF s \in l.marked
    THEN [l EXCEPT !.streams = Append(@, s), !.index[s] = Len(l.streams) + 1,
                   !.marked = @ \ {s}]
    ELSE [l EXCEPT !.index[s] = 0,
                   !.events = Append(@, [name |-> "StreamRemoved", project |-> p, stream |-> s])]

\* setStreams
WithStreamsSet(p, list) ==
    LET start == [streams |-> <<>>, index |-> index[p], events |-> <<>>,
                  marked |-> {s \in ToSet(list) : index[p][s] > 0}]
        kept == FoldLeft(LAMBDA l, s : KeepIfMarked(p, l, s), start, streams[p])
    IN  WithStreams(p, [streams |-> kept.streams, index |-> kept.index, events |-> kept.events],
                    list)

\* removeStream: the last stream takes the place of the one that goes.
WithoutStream(p, s) ==
    LET list == streams[p]
        last == list[Len(list)]
        i == index[p][s]
        moved == IF Len(list) > 1 THEN [index[p] EXCEPT ![last] = i] ELSE index[p]
    IN  [streams |-> Front(ReplaceAt(list, i, last)),
         index   |-> [moved EXCEPT ![s] = 0],
         events  |-> <<[name |-> "StreamRemoved", project |-> p, stream |-> s]>>]

SetListing(p, listing) ==
    /\ streams' = [streams EXCEPT ![p] = listing.streams]
    /\ index' = [index EXCEPT ![p] = listing.index]

Repeats(list) == Cardinality(ToSet(list)) < Len(list)

\* A list that repeats a stream is shown as it is, whatever the contract makes of it.
NoteRepeats(p, list) ==
    repeated' = IF Repeats(list) THEN repeated \cup {p} ELSE repeated

PaymentEvents(p, details) ==
    [i \in 1..Cardinality(DOMAIN details) |->
        LET d == SetToSeq(DOMAIN details)[i]
        IN  [name |-> "PaymentDetailsByChainUpdated", project |-> p, domain |-> d,
             price |-> details[d]]]

PermissionEvent(p, user, rights) ==
    [name |-> "PermissionUpdated", project |-> p, user |-> user, permission |-> rights]

-----------------------------------------------------------------------------
(* ProjectRegistryV1 *)

\* createProject, trustedCreateProject
CreateProject(p, user, list, details, isPublicPurchable) ==
    LET empty == [streams |-> <<>>, index |-> [s \in Streams |-> 0], events |-> <<>>]
        listing == FoldLeft(LAMBDA l, s : WithStream(p, l, s), empty, list)
        owners == <<user>> \o IF isPublicPurchable THEN <<Public>> ELSE <<>>
    IN  /\ state[p] = 0
        /\ state' = [state EXCEPT ![p] = 1]
        /\ SetListing(p, listing)
        /\ payments' = [payments EXCEPT ![p] = details]
        /\ permissions' = [permissions EXCEPT ![p] =
             FoldLeft(LAMBDA ps, u : Save(ps, <<1, u>>, Rights), @, owners)]
        /\ Emit(listing.events
                  \o <<[name |-> "ProjectCreated", project |-> p, streams |-> list]>>
                  \o PaymentEvents(p, details)
                  \o [i \in DOMAIN owners |-> PermissionEvent(p, owners[i], Rights)])
        /\ NoteRepeats(p, list)
        /\ UNCHANGED <<subscriptions, stakingVars, day, bought, calls>>

\* deleteProject: all that was stored stays, under a state that is no more.
DeleteProject(p, sender) ==
    /\ HasPermissionType(p, sender, "Delete")
    /\ state' = [state EXCEPT ![p] = 2]
    /\ Emit(<<[name |-> "ProjectDeleted", project |-> p]>>)
    /\ UNCHANGED <<streams, index, permissions, subscriptions, payments, stakingVars, day,
                   repeated, bought, calls>>

UpdateProject(p, sender, list, details) ==
    LET listing == WithStreamsSet(p, list)
    IN  /\ HasPermissionType(p, sender, "Edit")
        /\ Called(p)
        /\ SetListing(p, listing)
        /\ payments' = [payments EXCEPT ![p] =
             [d \in DOMAIN @ \cup DOMAIN details |->
                IF d \in DOMAIN details THEN details[d] ELSE @[d]]]
        /\ Emit(listing.events
                  \o <<[name |-> "ProjectUpdated", project |-> p, streams |-> list]>>
                  \o PaymentEvents(p, details))
        /\ NoteRepeats(p, list)
        /\ UNCHANGED <<state, permissions, subscriptions, stakingVars, day, bought>>

UpdatePaymentDetailsByChain(p, sender, d, price) ==
    /\ HasPermissionType(p, sender, "Edit")
    /\ Called(p)
    /\ payments' = [payments EXCEPT ![p] = Save(@, d, price)]
    /\ Emit(PaymentEvents(p, [e \in {d} |-> price]))
    /\ UNCHANGED <<state, streams, index, permissions, subscriptions, stakingVars, day,
                   repeated, bought>>

ChangeStreams(p, sender, listing) ==
    /\ HasPermissionType(p, sender, "Edit")
    /\ Called(p)
    /\ SetListing(p, listing)
    /\ Emit(listing.events)
    /\ UNCHANGED <<state, permissions, subscriptions, payments, stakingVars, day, repeated, bought>>

AddStream(p, sender, s) ==
    index[p][s] = 0 /\ ChangeStreams(p, sender, WithStream(p, Listing(p), s))

AddStreams(p, sender, list) == ChangeStreams(p, sender, WithStreams(p, Listing(p), list))

RemoveStream(p, sender, s) ==
    index[p][s] > 0 /\ ChangeStreams(p, sender, WithoutStream(p, s))

SetStreams(p, sender, list) == ChangeStreams(p, sender, WithStreamsSet(p, list))

\* _setPermissionBooleans, or _setPermission, for one user after the other
SetPermissions(p, users, rightsOf) ==
    /\ Called(p)
    /\ permissions' = [permissions EXCEPT ![p] =
         FoldLeft(LAMBDA ps, i : Save(ps, AddressKey(p, users[i]), rightsOf[i]), @,
                  [i \in DOMAIN users |-> i])]
    /\ Emit([i \in DOMAIN users |-> PermissionEvent(p, users[i], rightsOf[i])])
    /\ UNCHANGED <<state, streams, index, subscriptions, payments, stakingVars, day,
                   repeated, bought>>

EnablePermissionType(p, sender, user, right) ==
    /\ HasPermissionType(p, sender, "Grant")
    /\ SetPermissions(p, <<user>>, <<PermissionOf(p, user) \cup {right}>>)

RevokePermissionType(p, sender, user, right) ==
    /\ HasPermissionType(p, sender, "Grant")
    /\ SetPermissions(p, <<user>>, <<PermissionOf(p, user) \ {right}>>)

\* setPermissionBooleans, setPermissionsForMultipleUsers, revokeAllPermissionsForUser
SetPermissionBooleans(p, sender, user, rights) ==
    HasPermissionType(p, sender, "Grant") /\ SetPermissions(p, <<user>>, <<rights>>)

\* To oneself it is lost and given again.
TransferPermissionType(p, sender, recipient, right) ==
    /\ HasPermissionType(p, sender, right)
    /\ SetPermissions(p, <<sender, recipient>>,
         <<PermissionOf(p, sender) \ {right},
           IF recipient = sender THEN PermissionOf(p, sender)
           ELSE PermissionOf(p, recipient) \cup {right}>>)

\* Who transfers everything to itself ends up with nothing.
TransferAllPermissionsToUser(p, sender, recipient) ==
    /\ Exists(p) /\ PermissionOf(p, sender) # {}
    /\ SetPermissions(p, <<recipient, sender>>,
         <<PermissionOf(p, sender) \cup PermissionOf(p, recipient), {}>>)

\* trustedSetPermissions: does not ask whether the project exists.
TrustedSetPermissions(p, user, rights) == SetPermissions(p, <<user>>, <<rights>>)

\* _addOrExtendSubscription by one day, with what the caller's other events are
Extend(p, user, events) ==
    LET end == (IF subscriptions[p][user] > day THEN subscriptions[p][user] ELSE day) + 1
    IN  /\ Called(p)
        /\ subscriptions' = [subscriptions EXCEPT ![p][user] = end]
        /\ Emit(<<[name |-> "Subscribed", project |-> p, user |-> user, end |-> end]>> \o events)
        /\ UNCHANGED <<state, streams, index, permissions, payments, stakingVars, day, repeated>>

\* grantSubscription by a holder of Grant or, for a remote purchase, by the marketplace
GrantSubscription(p, user) ==
    Exists(p) /\ Extend(p, user, <<>>) /\ UNCHANGED bought

-----------------------------------------------------------------------------
(* MarketplaceV4 and ProjectStakingV1 *)

\* buyFor: canBuyProject, grantSubscription, _handleProjectPurchase
BuyFor(p, subscriber) ==
    /\ \E user \in {Public, subscriber} : HasPermissionType(p, user, "Buy")
    /\ LocalDomain \in DOMAIN payments[p] /\ payments[p][LocalDomain] > 0
    /\ Extend(p, subscriber, <<[name |-> "ProjectPurchased", project |-> p, user |-> subscriber]>>)
    /\ bought' = [bought EXCEPT ![p] = @ + 1]

StakeChange(p, user, amount, change, name) ==
    /\ Called(p)
    /\ staked' = [staked EXCEPT ![p][user] = @ + change]
    /\ projectStake' = [projectStake EXCEPT ![p] = @ + change]
    /\ Emit(<<[name |-> name, project |-> p, user |-> user, amount |-> amount, day |-> day,
               projectStake |-> projectStake[p] + change]>>)
    /\ UNCHANGED <<state, streams, index, permissions, subscriptions, payments, day,
                   repeated, bought>>

\* stake, and onTokenTransfer
Stake(p, user, amount) ==
    /\ Exists(p) /\ staked[p][user] + amount <= MaxStake
    /\ StakeChange(p, user, amount, amount, "Stake")

\* unstake: also from a project that was deleted, and of nothing from one that never was
Unstake(p, user, amount) ==
    /\ staked[p][user] >= amount
    /\ StakeChange(p, user, amount, -amount, "Unstake")

Tick ==
    /\ day < MaxDay
    /\ day' = day + 1
    /\ UNCHANGED <<state, streams, index, permissions, subscriptions, payments, stakingVars,
                   store, repeated, bought, calls>>

EditorCall(p, sender) ==
    \/ \E list \in StreamLists, details \in PaymentDetails : UpdateProject(p, sender, list, details)
    \/ \E d \in Domains, price \in Prices : UpdatePaymentDetailsByChain(p, sender, d, price)
    \/ \E s \in Streams : AddStream(p, sender, s)
    \/ \E list \in StreamLists : AddStreams(p, sender, list)
    \/ \E s \in Streams : RemoveStream(p, sender, s)
    \/ \E list \in StreamLists : SetStreams(p, sender, list)

PermissionCall(p, sender) ==
    \/ DeleteProject(p, sender)
    \/ \E user \in Targets : EnablePermissionType(p, sender, user, "Edit")
    \/ \E user \in Targets : RevokePermissionType(p, sender, user, "Edit")
    \/ \E user \in Targets, rights \in {{}, {"Grant"}} : SetPermissionBooleans(p, sender, user, rights)
    \/ \E user \in Targets : TransferPermissionType(p, sender, user, "Edit")
    \/ \E user \in Targets : TransferAllPermissionsToUser(p, sender, user)

UserCall(p, user) ==
    \/ \E list \in StreamLists, details \in PaymentDetails, public \in BOOLEAN :
         CreateProject(p, user, list, details, public)
    \/ EditorCall(p, user)
    \/ PermissionCall(p, user)
    \/ TrustedSetPermissions(p, user, Rights)
    \/ GrantSubscription(p, user)
    \/ BuyFor(p, user)
    \/ \E amount \in 1..MaxStake : Stake(p, user, amount)
    \/ \E amount \in 0..MaxStake : Unstake(p, user, amount)

Next == Tick \/ \E p \in Projs, user \in Users : UserCall(p, user)

Spec == Init /\ [][Next]_projectVars

-----------------------------------------------------------------------------
(* Properties *)

\* The streams shown are those of the contract, in any order, and each is where its
\* index says, unless a list that names a stream twice was given for the project.
StreamsAreListed(p) ==
    p \notin repeated =>
        /\ ToSet(store.projects[p].streams) = ToSet(streams[p])
        /\ Len(store.projects[p].streams) = Len(streams[p])
        /\ \A s \in Streams : index[p][s] = 0 <=> s \notin ToSet(streams[p])
        /\ \A i \in DOMAIN streams[p] : index[p][streams[p][i]] = i

\* What a user may do is shown, and nothing else: also if a permission was set before
\* the project was created.
RightsAreListed(p) ==
    \A user \in Targets :
        PermissionOf(p, user) = IF user \in store.projects[p].permissions
                                THEN store.permissions[<<p, user>>] ELSE {}

SubscriptionsAreListed(p) ==
    /\ \A user \in Users :
         subscriptions[p][user] = IF user \in store.projects[p].subscriptions
                                  THEN store.subscriptions[<<p, user>>] ELSE 0
    /\ \A d \in Domains :
         d \in DOMAIN payments[p] =>
            d \in store.projects[p].payments /\ store.payments[<<p, d>>] = payments[p][d]
    /\ Cardinality(store.projects[p].purchases) = bought[p]

\* The Project entity of a project that exists shows what the contracts hold for it.
ProjectsShown ==
    \A p \in Projs :
        Exists(p) => /\ p \in DOMAIN store.projects
                     /\ StreamsAreListed(p) /\ RightsAreListed(p) /\ SubscriptionsAreListed(p)

StakeAtEnd(p, d) ==
    LET later == {e \in d + 1..MaxDay : <<p, e>> \in DOMAIN store.days}
    IN  IF later = {} THEN projectStake[p] ELSE store.days[<<p, Min(later)>>].stakeAtStart

\* The days follow each other: each starts with the stake the last one ended with.
DaysAddUp(p) ==
    \A d \in 1..MaxDay :
        <<p, d>> \in DOMAIN store.days =>
            LET bucket == store.days[<<p, d>>]
            IN  /\ bucket.stakeChange = bucket.stakingsWei - bucket.unstakingsWei
                /\ bucket.stakeAtStart + bucket.stakeChange = StakeAtEnd(p, d)

\* The stake shown for a project is what its users staked, and its score too; the
\* stake of each user is right even after the project was deleted, when an unstaking
\* makes a Project entity reappear.
ProjectStakesShown ==
    \A p \in Projs :
        /\ \A user \in Users : ProjectStake(store, p, user) = staked[p][user]
        /\ Exists(p) => /\ store.projects[p].stakedWei = SumFunction(staked[p])
                        /\ store.projects[p].score = SumFunction(staked[p])
                        /\ DaysAddUp(p)

=============================================================================
