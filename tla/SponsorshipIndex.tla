-------------------------- MODULE SponsorshipIndex --------------------------
(***************************************************************************)
(* The subgraph's view of one Sponsorship: the entities it stores and the  *)
(* handlers that update them, one for each event of the contract.  Events  *)
(* are handled one by one in the order they were emitted, and a handler    *)
(* reads nothing but its event and the store, so each handler is an        *)
(* operator from the store before to the store after it.                   *)
(*                                                                         *)
(* Left out: timestamps, metadata, the daily buckets and the APY, which    *)
(* are computed from the fields below and read by no handler.              *)
(***************************************************************************)
EXTENDS Integers, Sequences, SequencesExt

CONSTANTS Ether,     \* the scale of fractions
          Parties,   \* operators and voters: the operator contracts
          Nobody     \* address(0), and the empty flagger

\* A Stake entity that loadOrCreateStake has just created.
NewStake == [amountWei |-> 0, lockedWei |-> 0, minimumStakeWei |-> 0]

\* A Flag entity that loadOrCreateFlag has just created.
NewFlag ==
    [lastFlagIndex |-> -1, flagger |-> Nobody, result |-> "waiting",
     votesForKick |-> 0, votesAgainstKick |-> 0, reviewerCount |-> 0,
     targetStakeAtRiskWei |-> 0, reviewers |-> <<>>]

\* The Network entity that loadOrCreateNetwork has just created: its copy of
\* StreamrConfig's parameters, and the minimum stake computed from them.
NewNetwork ==
    [slashingFraction |-> 0, flaggerReward |-> 0, reviewerReward |-> 0, reviewerCount |-> 0,
     flagStake |-> 0, leavePenalty |-> 0, minimumStake |-> 0]

\* What handleNewSponsorship creates, and the Network.  Flags are stored by target and index,
\* so flags[t] is a function from the indexes that exist.
NewStore(targets) ==
    [stakes |-> <<>>,
     network |-> NewNetwork,
     totalStakedWei |-> 0, operatorCount |-> 0, cumulativeSponsoring |-> 0,
     flags |-> [t \in targets |-> <<>>],
     votes |-> {}]

Entity(entities, id, fresh) == IF id \in DOMAIN entities THEN entities[id] ELSE fresh

Save(entities, id, entity) ==
    [i \in DOMAIN entities \cup {id} |-> IF i = id THEN entity ELSE entities[i]]

Without(entities, id) == [i \in DOMAIN entities \ {id} |-> entities[i]]

SaveFlag(store, t, index, flag) == [store EXCEPT !.flags[t] = Save(@, index, flag)]

\* A Stake entity exists while the operator has stake.
HandleStakeUpdated(store, e) ==
    IF e.stakedWei = 0 THEN [store EXCEPT !.stakes = Without(@, e.operator)]
    ELSE LET stake == Entity(store.stakes, e.operator, NewStake)
         IN  [store EXCEPT !.stakes = Save(@, e.operator,
                                           [stake EXCEPT !.amountWei = e.stakedWei])]

\* Creates the Stake entity if there is none.
HandleStakeLockUpdated(store, e) ==
    LET stake == Entity(store.stakes, e.operator, NewStake)
    IN  [store EXCEPT !.stakes = Save(@, e.operator,
            [stake EXCEPT !.lockedWei = e.lockedStakeWei,
                          !.minimumStakeWei = e.minimumStakeWei])]

HandleSponsorshipUpdated(store, e) ==
    [store EXCEPT !.totalStakedWei = e.totalStakedWei, !.operatorCount = e.operatorCount]

HandleSponsorshipReceived(store, e) ==
    [store EXCEPT !.cumulativeSponsoring = @ + e.amount]

FirstFlag(store, t) == Entity(store.flags[t], 0, NewFlag)

\* Comes before the Flagged event: the first reviewer's request creates the flag
\* under the index that Flagged will make the last one.
HandleReviewRequest(store, e) ==
    LET index == IF 0 \in DOMAIN store.flags[e.target]
                 THEN FirstFlag(store, e.target).lastFlagIndex + 1 ELSE 0
        flag  == Entity(store.flags[e.target], index, NewFlag)
    IN  SaveFlag(store, e.target, index, [flag EXCEPT !.reviewers = Append(@, e.reviewer)])

\* The first flag holds the running index of the flags on this target; every
\* other flag has 0 there.
HandleFlagged(store, e) ==
    LET index  == FirstFlag(store, e.target).lastFlagIndex + 1
        marked == SaveFlag(store, e.target, 0,
                           [FirstFlag(store, e.target) EXCEPT !.lastFlagIndex = index])
        flag   == Entity(marked.flags[e.target], index, NewFlag)
    IN  SaveFlag(marked, e.target, index,
            [flag EXCEPT !.flagger = e.flagger,
                         !.reviewerCount = e.reviewerCount,
                         !.targetStakeAtRiskWei = e.targetStakeAtRiskWei,
                         !.lastFlagIndex = 0])

FlagResults == <<"voting", "kicked", "failed">>

HandleFlagUpdateUnderFirst(store, e) ==
    LET index == store.flags[e.target][0].lastFlagIndex
        flag  == store.flags[e.target][index]
    IN  [SaveFlag(store, e.target, index,
            [flag EXCEPT !.result = FlagResults[e.status],
                         !.votesForKick = e.votesForKick,
                         !.votesAgainstKick = e.votesAgainstKick])
         EXCEPT !.votes = IF e.voterWeight = 0 THEN @
                          ELSE @ \cup {[target |-> e.target, index |-> 0, voter |-> e.voter,
                                        weight |-> e.voterWeight, kick |-> e.kick]}]

\* The Vote is stored only for a vote that was cast: the event that ends the
\* voting has no weight.  Operator.protectionEndTimestamp is assigned on an
\* Operator entity that is not saved, so it is not part of the store.
HandleFlagUpdate(store, e) ==
    LET index == store.flags[e.target][0].lastFlagIndex
        flag  == store.flags[e.target][index]
        vote  == [target |-> e.target, index |-> index, voter |-> e.voter,
                  weight |-> e.voterWeight, kick |-> e.kick]
    IN  [SaveFlag(store, e.target, index,
            [flag EXCEPT !.result = FlagResults[e.status],
                         !.votesForKick = e.votesForKick,
                         !.votesAgainstKick = e.votesAgainstKick])
         EXCEPT !.votes = IF e.voterWeight > 0 THEN @ \cup {vote} ELSE @]

\* Rounds down, where the contract rounds up.
UpdateMinimumStake(network) ==
    [network EXCEPT !.minimumStake =
        (Ether * (network.flaggerReward + network.reviewerCount * network.reviewerReward))
            \div network.slashingFraction]

\* Every parameter is stored under its key; the minimum stake depends on four.
HandleConfigChanged(store, e) ==
    LET changed == [store.network EXCEPT ![e.key] = e.newValue]
    IN  [store EXCEPT !.network =
            IF e.key \in {"flagStake", "leavePenalty"} THEN changed
            ELSE UpdateMinimumStake(changed)]

\* Counts the slashing of the operator and stores a plain event; neither is
\* read again.  The Stake is left as it is.
HandleOperatorSlashed(store, e) == store

Handle(store, e) ==
    CASE e.name = "StakeUpdate"         -> HandleStakeUpdated(store, e)
      [] e.name = "StakeLockUpdate"     -> HandleStakeLockUpdated(store, e)
      [] e.name = "SponsorshipUpdate"   -> HandleSponsorshipUpdated(store, e)
      [] e.name = "SponsorshipReceived" -> HandleSponsorshipReceived(store, e)
      [] e.name = "ReviewRequest"       -> HandleReviewRequest(store, e)
      [] e.name = "Flagged"             -> HandleFlagged(store, e)
      [] e.name = "FlagUpdate"          -> HandleFlagUpdate(store, e)
      [] e.name = "ConfigChanged"       -> HandleConfigChanged(store, e)
      [] e.name = "OperatorSlashed"     -> HandleOperatorSlashed(store, e)

\* The store after a transaction's events, in the order of its log.
HandleAll(store, events) == FoldLeft(Handle, store, events)

=============================================================================
