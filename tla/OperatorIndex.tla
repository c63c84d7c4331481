---------------------------- MODULE OperatorIndex ----------------------------
(***************************************************************************)
(* The subgraph's view of one Operator contract: its entities and the      *)
(* handlers that update them, one for each event.  As in SponsorshipIndex, *)
(* a handler reads its event and the store only.                           *)
(*                                                                         *)
(* bucket is the OperatorDailyBucket of the current day, if there is one,  *)
(* with the counts it keeps.  Left out: the buckets of the delegators,     *)
(* timestamps, and sums that repeat the ones below.                        *)
(***************************************************************************)
EXTENDS Integers, Sequences, SequencesExt

CONSTANTS Delegators

NoBucket == [exists |-> FALSE, delegatorCountAtStart |-> 0, delegatorCountChange |-> 0]

\* A Delegator entity that loadOrCreateDelegator has just created.
NewDelegator == [numberOfDelegations |-> 0, totalValueDataWei |-> 0, cumulativeEarningsWei |-> 0]

\* A Delegation entity that loadOrCreateDelegation has just created.
NewDelegation == [operatorTokenBalanceWei |-> 0, valueDataWei |-> 0]

\* The Operator, Network and PastDelegationCount entities when handleNewOperator
\* is done, and no other entity.  One Delegation of a delegator exists at a time:
\* delegations[h] is the one whose ID ends in pastDelegationCount[h].
NewStore ==
    [delegatorCount |-> 0, totalStakeInSponsorshipsWei |-> 0, dataTokenBalanceWei |-> 0,
     operatorTokenTotalSupplyWei |-> 0, cumulativeProfitsWei |-> 0, exchangeRate |-> <<0, 1>>,
     isEligibleToVote |-> FALSE, operatorsCutFraction |-> 0,
     delegations |-> <<>>,
     pastDelegationCount |-> [h \in Delegators |-> 0],
     delegators |-> [h \in Delegators |-> NewDelegator],
     queueEntries |-> <<>>,
     bucket |-> NoBucket,
     network |-> [totalStake |-> 0, totalDelegated |-> 0, totalUndelegated |-> 0,
                  eligibleVotersCount |-> 0]]

\* A BigDecimal quotient, kept as its two parts.
Rate(value, supply) == IF supply > 0 THEN <<value, supply>> ELSE <<1, 1>>

Save(entities, id, entity) ==
    [i \in DOMAIN entities \cup {id} |-> IF i = id THEN entity ELSE entities[i]]

Without(entities, id) == [i \in DOMAIN entities \ {id} |-> entities[i]]

LoadedDelegation(store, h) ==
    IF h \in DOMAIN store.delegations THEN store.delegations[h] ELSE NewDelegation

\* loadOrCreateOperatorDailyBucket: a new bucket starts from the stored Operator.
WithBucket(store) ==
    IF store.bucket.exists THEN store
    ELSE [store EXCEPT !.bucket = [exists |-> TRUE,
                                   delegatorCountAtStart |-> store.delegatorCount,
                                   delegatorCountChange |-> 0]]

CountChanges(store, h, change) ==
    [store EXCEPT !.delegatorCount = @ + change,
                  !.bucket.delegatorCountChange = @ + change,
                  !.delegators[h].numberOfDelegations = @ + change]

HandleMetadataUpdate(store, e) ==
    [store EXCEPT !.operatorsCutFraction = e.operatorsCutFraction]

HandleUndelegated(store, e) == [store EXCEPT !.network.totalUndelegated = @ + e.amountDataWei]
HandleDelegated(store, e) == [store EXCEPT !.network.totalDelegated = @ + e.amountDataWei]

HandleBalanceUpdateKeepsEmpty(store, e) ==
    LET h      == e.delegator
        worth  == IF e.totalSupplyWei = 0 THEN e.balanceWei
                  ELSE (e.balanceWei * e.value) \div e.totalSupplyWei
        old    == LoadedDelegation(store, h)
        ready  == [WithBucket(store) EXCEPT !.operatorTokenTotalSupplyWei = e.totalSupplyWei,
                                            !.exchangeRate = Rate(e.value, e.totalSupplyWei)]
        joined == IF old.operatorTokenBalanceWei = 0 THEN CountChanges(ready, h, 1) ELSE ready
        valued == [joined EXCEPT !.delegators[h].totalValueDataWei = @ + worth - old.valueDataWei]
    IN  [valued EXCEPT !.delegations = Save(@, h,
                [operatorTokenBalanceWei |-> e.balanceWei, valueDataWei |-> worth])]

\* A Delegation exists while the delegator has operator tokens; the next one gets
\* a new ID.  The value it had is taken off its delegator's total.
HandleBalanceUpdate(store, e) ==
    LET h      == e.delegator
        worth  == IF e.totalSupplyWei = 0 THEN e.balanceWei
                  ELSE (e.balanceWei * e.value) \div e.totalSupplyWei
        old    == LoadedDelegation(store, h)
        ready  == [WithBucket(store) EXCEPT !.operatorTokenTotalSupplyWei = e.totalSupplyWei,
                                            !.exchangeRate = Rate(e.value, e.totalSupplyWei)]
        joined == IF old.operatorTokenBalanceWei = 0 THEN CountChanges(ready, h, 1) ELSE ready
        valued == [joined EXCEPT !.delegators[h].totalValueDataWei = @ + worth - old.valueDataWei]
    IN  IF e.balanceWei > 0
        THEN [valued EXCEPT !.delegations = Save(@, h,
                [operatorTokenBalanceWei |-> e.balanceWei, valueDataWei |-> worth])]
        ELSE [CountChanges(valued, h, -1) EXCEPT !.delegations = Without(@, h),
                                                 !.pastDelegationCount[h] = @ + 1]

\* The network's total follows the changes of each operator's.
HandleOperatorValueUpdate(store, e) ==
    LET change == e.totalStakeInSponsorshipsWei - store.totalStakeInSponsorshipsWei
    IN  [WithBucket(store) EXCEPT !.totalStakeInSponsorshipsWei = e.totalStakeInSponsorshipsWei,
                                  !.dataTokenBalanceWei = e.dataTokenBalanceWei,
                                  !.exchangeRate = Rate(e.totalStakeInSponsorshipsWei
                                                          + e.dataTokenBalanceWei,
                                                        store.operatorTokenTotalSupplyWei),
                                  !.network.totalStake = @ + change]

HandleProfitRoundedUp(store, e) ==
    LET supply   == store.operatorTokenTotalSupplyWei
        share(h) == (store.delegations[h].operatorTokenBalanceWei * e.valueIncreaseWei + supply - 1)
                        \div supply
        earned == [h \in Delegators |->
                     IF h \in DOMAIN store.delegations
                     THEN [store.delegators[h] EXCEPT !.cumulativeEarningsWei = @ + share(h)]
                     ELSE store.delegators[h]]
    IN  [WithBucket(store) EXCEPT !.cumulativeProfitsWei = @ + e.valueIncreaseWei,
                                  !.delegators = earned]

\* Every delegator's earnings grow by its share of the profit, rounded down.
HandleProfit(store, e) ==
    LET share(h) == (store.delegations[h].operatorTokenBalanceWei * e.valueIncreaseWei)
                        \div store.operatorTokenTotalSupplyWei
        earned == [h \in Delegators |->
                     IF h \in DOMAIN store.delegations
                     THEN [store.delegators[h] EXCEPT !.cumulativeEarningsWei = @ + share(h)]
                     ELSE store.delegators[h]]
    IN  [WithBucket(store) EXCEPT !.cumulativeProfitsWei = @ + e.valueIncreaseWei,
                                  !.delegators = earned]

\* Only the sum of the day's losses, which nothing reads.
HandleLoss(store, e) == WithBucket(store)

HandleQueuedDataPayout(store, e) ==
    [store EXCEPT !.queueEntries = Save(@, e.queueIndex,
                    [delegator |-> e.delegator, amount |-> e.amountWei])]

HandleQueueUpdated(store, e) ==
    IF e.queueIndex \notin DOMAIN store.queueEntries THEN store
    ELSE IF e.amountWei = 0 THEN [store EXCEPT !.queueEntries = Without(@, e.queueIndex)]
    ELSE [store EXCEPT !.queueEntries[e.queueIndex].amount = e.amountWei]

HandleVoterUpdate(store, e) ==
    [store EXCEPT !.isEligibleToVote = e.isVoter,
                  !.network.eligibleVotersCount = @ + IF e.isVoter THEN 1 ELSE -1]

Handle(store, e) ==
    CASE e.name = "MetadataUpdated"     -> HandleMetadataUpdate(store, e)
      [] e.name = "Undelegated"         -> HandleUndelegated(store, e)
      [] e.name = "Delegated"           -> HandleDelegated(store, e)
      [] e.name = "BalanceUpdate"       -> HandleBalanceUpdate(store, e)
      [] e.name = "OperatorValueUpdate" -> HandleOperatorValueUpdate(store, e)
      [] e.name = "Profit"              -> HandleProfit(store, e)
      [] e.name = "Loss"                -> HandleLoss(store, e)
      [] e.name = "QueuedDataPayout"    -> HandleQueuedDataPayout(store, e)
      [] e.name = "QueueUpdated"        -> HandleQueueUpdated(store, e)
      [] e.name = "VoterUpdate"         -> HandleVoterUpdate(store, e)

\* The store after a transaction's events, in the order of its log.
HandleAll(store, events) == FoldLeft(Handle, store, events)

=============================================================================
