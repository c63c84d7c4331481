---------------------------- MODULE ProjectIndex ----------------------------
(***************************************************************************)
(* The subgraph's view of the Hub: the Project entity with what it lists   *)
(* (streams, permissions, subscriptions, payment details, purchases), the  *)
(* stake of each user and the daily staking buckets, and the handlers that *)
(* update them, one for each event.                                        *)
(*                                                                         *)
(* Ids that the handlers put together are tuples here.  A Project lists    *)
(* the ids of what belongs to it without the project: a user, a domain, a  *)
(* user and a number.  Left out: metadata, times of creation, prices of    *)
(* purchases, and stream ids that are too long to be handled.              *)
(***************************************************************************)
EXTENDS Integers, Sequences, SequencesExt

NewStore == [projects |-> <<>>, permissions |-> <<>>, subscriptions |-> <<>>,
             payments |-> <<>>, purchases |-> {}, stakes |-> <<>>, days |-> <<>>]

Save(entities, id, entity) ==
    [i \in DOMAIN entities \cup {id} |-> IF i = id THEN entity ELSE entities[i]]

Lacking(entities, ids) == [i \in DOMAIN entities \ ids |-> entities[i]]

NewProject == [streams |-> <<>>, permissions |-> {}, subscriptions |-> {}, payments |-> {},
               purchases |-> {}, counter |-> 0, score |-> 0, stakedWei |-> 0]

\* loadOrCreateProject: also for a project that was deleted, or is not there yet.
Project(store, p) ==
    IF p \in DOMAIN store.projects THEN store.projects[p] ELSE NewProject

HandleProjectCreationAppends(store, e) ==
    [store EXCEPT !.projects = Save(@, e.project,
        [Project(store, e.project) EXCEPT !.streams = @ \o e.streams, !.permissions = {},
                                          !.counter = 0, !.score = 0])]

\* The streams were announced by StreamAdded already: they are set once more.
HandleProjectCreation(store, e) ==
    [store EXCEPT !.projects = Save(@, e.project,
        [Project(store, e.project) EXCEPT !.streams = e.streams, !.permissions = {},
                                          !.counter = 0, !.score = 0])]

Ids(p, listed) == {<<p, i>> : i \in listed}

HandleProjectDeletion(store, e) ==
    LET project == Project(store, e.project)
    IN  [store EXCEPT
          !.projects = Lacking(@, {e.project}),
          !.permissions = Lacking(@, Ids(e.project, project.permissions)),
          !.subscriptions = Lacking(@, Ids(e.project, project.subscriptions)),
          !.payments = Lacking(@, Ids(e.project, project.payments)),
          !.purchases = @ \ Ids(e.project, project.purchases)]

HandleProjectUpdate(store, e) ==
    [store EXCEPT !.projects = Save(@, e.project,
        [Project(store, e.project) EXCEPT !.streams = e.streams])]

HandlePermissionUpdate(store, e) ==
    [store EXCEPT
        !.permissions = Save(@, <<e.project, e.user>>, e.permission),
        !.projects = Save(@, e.project,
            [Project(store, e.project) EXCEPT !.permissions = @ \cup {e.user}])]

HandleSubscriptionUpdate(store, e) ==
    [store EXCEPT
        !.subscriptions = Save(@, <<e.project, e.user>>, e.end),
        !.projects = Save(@, e.project,
            [Project(store, e.project) EXCEPT !.subscriptions = @ \cup {e.user}])]

HandlePaymentDetailsByChainUpdate(store, e) ==
    [store EXCEPT
        !.payments = Save(@, <<e.project, e.domain>>, e.price),
        !.projects = Save(@, e.project,
            [Project(store, e.project) EXCEPT !.payments = @ \cup {e.domain}])]

HandleStreamAddition(store, e) ==
    [store EXCEPT !.projects = Save(@, e.project,
        [Project(store, e.project) EXCEPT !.streams = Append(@, e.stream)])]

\* The first occurrence goes, if there is one.
HandleStreamRemoval(store, e) ==
    [store EXCEPT !.projects = Save(@, e.project,
        [Project(store, e.project) EXCEPT !.streams = RemoveFirst(@, e.stream)])]

HandleProjectPurchase(store, e) ==
    LET project == Project(store, e.project)
        purchase == <<e.user, project.counter + 1>>
    IN  [store EXCEPT
            !.purchases = @ \cup Ids(e.project, {purchase}),
            !.projects = Save(@, e.project,
                [project EXCEPT !.counter = @ + 1, !.purchases = @ \cup {purchase}])]

\* loadOrCreateProjectStake
ProjectStake(store, p, user) ==
    IF <<p, user>> \in DOMAIN store.stakes THEN store.stakes[<<p, user>>] ELSE 0

\* loadOrCreateProjectStakingBucket: a new day starts with what the Project shows.
StakingBucket(store, p, day) ==
    IF <<p, day>> \in DOMAIN store.days THEN store.days[<<p, day>>]
    ELSE [stakeAtStart |-> IF p \in DOMAIN store.projects THEN store.projects[p].stakedWei ELSE 0,
          stakeChange |-> 0, stakingsWei |-> 0, unstakingsWei |-> 0]

\* What handleStake1 and handleUnstake1 have in common; change is negative for the
\* latter, which also shows a Project again that was deleted.
StakeChanged(store, e, change, bucket) ==
    [store EXCEPT
        !.stakes = Save(@, <<e.project, e.user>>, ProjectStake(store, e.project, e.user) + change),
        !.days = Save(@, <<e.project, e.day>>, [bucket EXCEPT !.stakeChange = @ + change]),
        !.projects = Save(@, e.project,
            [Project(store, e.project) EXCEPT !.score = @ + change, !.stakedWei = e.projectStake])]

HandleStake(store, e) ==
    LET bucket == StakingBucket(store, e.project, e.day)
    IN  StakeChanged(store, e, e.amount, [bucket EXCEPT !.stakingsWei = @ + e.amount])

HandleUnstakeSavedFirst(store, e) ==
    LET saved == [store EXCEPT !.projects = Save(@, e.project,
                     [Project(store, e.project) EXCEPT !.stakedWei = e.projectStake])]
        bucket == StakingBucket(saved, e.project, e.day)
    IN  StakeChanged(store, e, -e.amount, [bucket EXCEPT !.unstakingsWei = @ + e.amount])

HandleUnstake(store, e) ==
    LET bucket == StakingBucket(store, e.project, e.day)
    IN  StakeChanged(store, e, -e.amount, [bucket EXCEPT !.unstakingsWei = @ + e.amount])

Handle(store, e) ==
    CASE e.name = "ProjectCreated"               -> HandleProjectCreation(store, e)
      [] e.name = "ProjectDeleted"               -> HandleProjectDeletion(store, e)
      [] e.name = "ProjectUpdated"               -> HandleProjectUpdate(store, e)
      [] e.name = "PermissionUpdated"            -> HandlePermissionUpdate(store, e)
      [] e.name = "Subscribed"                   -> HandleSubscriptionUpdate(store, e)
      [] e.name = "PaymentDetailsByChainUpdated" -> HandlePaymentDetailsByChainUpdate(store, e)
      [] e.name = "StreamAdded"                  -> HandleStreamAddition(store, e)
      [] e.name = "StreamRemoved"                -> HandleStreamRemoval(store, e)
      [] e.name = "ProjectPurchased"             -> HandleProjectPurchase(store, e)
      [] e.name = "Stake"                        -> HandleStake(store, e)
      [] e.name = "Unstake"                      -> HandleUnstake(store, e)

\* The store after a transaction's events, in the order of its log.
HandleAll(store, events) == FoldLeft(Handle, store, events)

=============================================================================
