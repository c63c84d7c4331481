------------------------------ MODULE Operator ------------------------------
(***************************************************************************)
(* One Operator contract with its undelegation queue, its stakes in        *)
(* Sponsorships, its entry in the voter registry, and the subgraph that    *)
(* follows its events.  Every action is one transaction, with the          *)
(* callbacks that the Sponsorship makes in it; the Sponsorships themselves *)
(* are reduced to the stake they hold for this operator.  What VoteKick    *)
(* shows to be possible (slashing, kicking, leaving with or without a      *)
(* penalty) may happen at any time here.                                   *)
(***************************************************************************)
EXTENDS OperatorBooks

CONSTANTS Cuts,              \* operatorsCutFraction values
          DataAmounts,       \* what can be delegated, sent or staked in one call
          Undelegations,     \* what can be asked for in one undelegate call
          EarningAmounts, SlashAmounts,
          MaxIncome,         \* bound: the DATA that ever came in
          MaxUndelegations,  \* bound: undelegate calls
          MaxDepartures      \* bound: how often delegators leave

ASSUME BoundsAssumption ==
    /\ Cuts \subseteq 0 .. Ether
    /\ DataAmounts \cup Undelegations \subseteq Nat \ {0}
    /\ EarningAmounts \cup SlashAmounts \subseteq Nat \ {0}
    /\ MaxIncome \in Nat /\ MaxUndelegations \in Nat /\ MaxDepartures \in Nat

VARIABLES op,       \* the accounts of the contract
          stakeAt,  \* what the Sponsorships it has joined hold for it
          income,   \* history: the DATA that ever came in
          store     \* the subgraph's entities

vars == <<op, stakeAt, income, store>>

Index == INSTANCE OperatorIndex WITH Delegators <- Holders

MetadataUpdated(cut) == [name |-> "MetadataUpdated", operatorsCutFraction |-> cut]

\* initialize() emits MetadataUpdated, which is handled after NewOperator.
Init ==
    /\ \E cut \in Cuts : op = EmptyAccounts(cut)
    /\ stakeAt = <<>>
    /\ income = 0
    /\ store = Index!HandleMetadataUpdate(Index!NewStore, MetadataUpdated(op.cut))

\* The transaction takes place unless something in it has reverted.
Commit(tx) ==
    /\ tx.ok
    /\ op' = tx.op
    /\ store' = Index!HandleAll(store, tx.log)
    /\ op'.nextIndex <= MaxUndelegations
    /\ SumFunction(store'.pastDelegationCount) <= MaxDepartures

Earn(data) == income' = income + data /\ income' <= MaxIncome

With(data) == [Begin(op) EXCEPT !.op.balance = @ + data]

StakeAfter(s, stake) == [stakeAt EXCEPT ![s] = stake]

StakeGone(s) == [r \in DOMAIN stakeAt \ {s} |-> stakeAt[r]]

\* Some functions pay out the queue in the end, others leave it to the caller.
MaybePaidOut(tx, payOut) == IF payOut THEN PaidOutQueue(tx, 0) ELSE tx

-----------------------------------------------------------------------------
(* Delegators *)

\* delegate(), or transferAndCall() of DATA
Delegate(h, data) ==
    /\ Earn(data)
    /\ Commit(PaidOutQueue(Delegated(With(data), h, data), 0))
    /\ UNCHANGED stakeAt

\* undelegate()
Undelegate(h, data) ==
    /\ Commit(PaidOutQueue(Queued(Begin(op), h, data), 0))
    /\ UNCHANGED <<stakeAt, income>>

\* transfer() of operator tokens
Transfer(from, to, tokens) ==
    /\ Commit(Transferred(Begin(op), from, to, tokens))
    /\ UNCHANGED <<stakeAt, income>>

\* payOutQueue() by anyone
PayOutQueue(maxIterations) ==
    /\ Commit(PaidOutQueue(Begin(op), maxIterations))
    /\ UNCHANGED <<stakeAt, income>>

\* DATA that comes without a delegation: by a plain transfer, or as a reward from
\* a Sponsorship the operator is staked in, which onTokenTransfer ignores.
ReceiveUntold(data) ==
    /\ Earn(data)
    /\ Commit(With(data))
    /\ UNCHANGED stakeAt

\* triggerAnotherOperatorWithdraw(): the reward is delegated for the owner.
FishAnother(data) ==
    /\ Earn(data)
    /\ Commit(Delegated(With(data), Owner, data))
    /\ UNCHANGED stakeAt

-----------------------------------------------------------------------------
(* The operator *)

\* stake()
StakeInto(s, amount) ==
    /\ Commit(Staked(Begin(op), s, amount))
    /\ stakeAt' = [r \in DOMAIN stakeAt \cup {s} |->
                     IF r # s THEN stakeAt[r]
                     ELSE amount + IF s \in DOMAIN stakeAt THEN stakeAt[s] ELSE 0]
    /\ UNCHANGED income

\* reduceStakeTo(), reduceStakeWithoutQueue()
ReduceStakeTo(s, target, payOut) ==
    /\ 0 < target /\ target < stakeAt[s]
    /\ Commit(MaybePaidOut(StakeReduced(Begin(op), s, stakeAt[s] - target), payOut))
    /\ stakeAt' = StakeAfter(s, target)
    /\ UNCHANGED income

\* unstake(), unstakeWithoutQueue()
Unstake(s, earnings, payOut) ==
    LET received == stakeAt[s] + earnings
    IN  /\ Earn(earnings)
        /\ Commit(MaybePaidOut(SponsorshipRemoved(With(received), s, received), payOut))
        /\ stakeAt' = StakeGone(s)

\* What the Sponsorship may slash from a leaving operator: what is locked, and the
\* leave penalty; 0 for none.
LeaveSlashings(stake) ==
    {losses \in [locked : SlashAmounts \cup {0}, penalty : SlashAmounts \cup {0}] :
        losses.locked + losses.penalty <= stake}

NoLosses == [locked |-> 0, penalty |-> 0]

\* _slash calls nobody if there is nothing to slash.
SlashedBy(tx, s, losses) ==
    LET Slash(t, amount) == IF amount = 0 THEN t ELSE OnSlash(t, s, amount)
    IN  Slash(Slash(tx, losses.locked), losses.penalty)

\* forceUnstake(), by the operator or by anyone when the queue is overdue: the
\* Sponsorship calls onSlash before the stake module removes it.
ForceUnstake(s, losses, earnings, maxIterations) ==
    LET received == stakeAt[s] - (losses.locked + losses.penalty) + earnings
        slashed  == SlashedBy(Begin(op), s, losses)
        returned == [slashed EXCEPT !.op.balance = @ + received]
    IN  /\ Earn(earnings)
        /\ Commit(PaidOutQueue(SponsorshipRemoved(returned, s, received), maxIterations))
        /\ stakeAt' = StakeGone(s)

FishermanReward(tx, valueBefore, earnings) ==
    LET reward  == (earnings * FishermanFraction) \div Ether
        slashed == SlashSelfDelegation(tx, reward)
        sent    == [Require(slashed, reward <= slashed.op.balance)
                      EXCEPT !.op.balance = @ - reward]
    IN  IF earnings > (valueBefore * AllowedEarningsFraction) \div Ether
        THEN OperatorValueUpdate(sent)
        ELSE tx

\* withdrawEarningsFromSponsorships(): an outsider who finds too much is rewarded.
WithdrawEarnings(earnings, outsider, payOut) ==
    LET split    == EarningsSplit(With(earnings), earnings)
        rewarded == IF outsider THEN FishermanReward(split, ValueOf(op), earnings) ELSE split
    IN  /\ op.sponsorships # {}
        /\ outsider => payOut
        /\ Earn(earnings)
        /\ Commit(MaybePaidOut(rewarded, payOut))
        /\ UNCHANGED stakeAt

\* updateOperatorsCutFraction()
UpdateCut(cut) ==
    /\ op.totalStaked = 0
    /\ op' = [op EXCEPT !.cut = cut]
    /\ store' = Index!HandleAll(store, <<MetadataUpdated(cut)>>)
    /\ UNCHANGED <<stakeAt, income>>

-----------------------------------------------------------------------------
(* The Sponsorships, and time *)

\* A false flag is paid for from the stake: onSlash.
SlashedInSponsorship(s, amount) ==
    /\ amount <= stakeAt[s]
    /\ Commit(OnSlash(Begin(op), s, amount))
    /\ stakeAt' = StakeAfter(s, stakeAt[s] - amount)
    /\ UNCHANGED income

\* Kicked, with or without slashing; what is locked and the penalty go first.
KickedOut(s, amount, losses, earnings) ==
    LET rest     == stakeAt[s] - amount
        received == rest - (losses.locked + losses.penalty) + earnings
        slashed  == SlashedBy(Begin(op), s, losses)
        returned == [slashed EXCEPT !.op.balance = @ + received]
    IN  /\ rest >= losses.locked + losses.penalty
        /\ Earn(earnings)
        /\ Commit(OnKick(returned, s, amount, received))
        /\ stakeAt' = StakeGone(s)

\* A new day: the next event creates a new bucket.
NextDay ==
    /\ store.delegatorCount = Cardinality(Holders)
    /\ store' = [store EXCEPT !.bucket = Index!NoBucket]
    /\ UNCHANGED <<op, stakeAt, income>>

EarningsOrNone == EarningAmounts \cup {0}

Next ==
    \/ \E h \in Holders, data \in DataAmounts : Delegate(h, data)
    \/ \E h \in Holders, data \in Undelegations : Undelegate(h, data)
    \/ \E from, to \in Holders, tokens \in DataAmounts : Transfer(from, to, tokens)
    \/ \E maxIterations \in {0, 1} : PayOutQueue(maxIterations)
    \/ \E data \in EarningAmounts : ReceiveUntold(data)
    \/ \E data \in EarningAmounts : FishAnother(data)
    \/ \E s \in Sponsorships, amount \in DataAmounts : StakeInto(s, amount)
    \/ \E s \in DOMAIN stakeAt : \E target \in DataAmounts, payOut \in BOOLEAN :
         ReduceStakeTo(s, target, payOut)
    \/ \E s \in DOMAIN stakeAt, earnings \in EarningsOrNone, payOut \in BOOLEAN :
         Unstake(s, earnings, payOut)
    \/ \E s \in DOMAIN stakeAt : \E losses \in LeaveSlashings(stakeAt[s]) :
         \E earnings \in EarningsOrNone, maxIterations \in {0, 1} :
            ForceUnstake(s, losses, earnings, maxIterations)
    \/ \E earnings \in EarningAmounts, outsider, payOut \in BOOLEAN :
         WithdrawEarnings(earnings, outsider, payOut)
    \/ \E cut \in Cuts : UpdateCut(cut)
    \/ \E s \in DOMAIN stakeAt : \E amount \in SlashAmounts : SlashedInSponsorship(s, amount)
    \/ \E s \in DOMAIN stakeAt, amount \in SlashAmounts \cup {0} :
         \E losses \in LeaveSlashings(stakeAt[s]) : \E earnings \in EarningsOrNone :
            KickedOut(s, amount, losses, earnings)
    \/ NextDay

Spec == Init /\ [][Next]_vars

-----------------------------------------------------------------------------
(* Properties *)

\* The stakes the operator accounts for are the ones the Sponsorships hold: no
\* slashing and no kick is missed, although the callbacks are made in a try whose
\* failure is ignored, and the totals are the sums.
StakesAgree ==
    /\ op.sponsorships = DOMAIN stakeAt
    /\ \A s \in DOMAIN stakeAt : stakeAt[s] = op.stakedInto[s] - op.slashedIn[s]
    /\ op.totalStaked = SumFunction(op.stakedInto)
    /\ op.totalSlashed = SumFunction(op.slashedIn)
    /\ op.balance >= 0 /\ ValueOf(op) >= 0

\* Delegators never pay for a slashing, a payout, a delegation or rounding: while
\* somebody else than the owner holds operator tokens, the rate of DATA per token
\* falls only in a step that uses up the whole self-delegation.  (The owner alone can
\* lose its last tokens and get new ones for its cut in the same transaction.)
RateIsKept ==
    [][(op'.tokens[Owner] > 0 /\ \E h \in Holders \ {Owner} : op.tokens[h] > 0)
         => ValueOf(op') * Supply(op) >= ValueOf(op) * Supply(op')]_vars

HoldersNow == {h \in Holders : op.tokens[h] > 0}

\* A Delegation entity exists for exactly those who hold operator tokens, and the
\* counts kept next to it, of the operator, of its day and of each delegator,
\* count them; a delegator's total value is that of its delegations.
DelegationsShown ==
    /\ DOMAIN store.delegations = HoldersNow
    /\ \A h \in HoldersNow : store.delegations[h].operatorTokenBalanceWei = op.tokens[h]
    /\ store.operatorTokenTotalSupplyWei = Supply(op)
    /\ store.delegatorCount = Cardinality(HoldersNow)
    /\ store.bucket.exists => store.bucket.delegatorCountAtStart + store.bucket.delegatorCountChange
                                = store.delegatorCount
    /\ \A h \in Holders :
         /\ store.delegators[h].numberOfDelegations = IF h \in HoldersNow THEN 1 ELSE 0
         /\ store.delegators[h].totalValueDataWei =
              IF h \in HoldersNow THEN store.delegations[h].valueDataWei ELSE 0

\* What is shown of the accounts is what they are: the queue entries, except for one
\* whose rest is zero, which the contract keeps in the queue while the entity is gone
\* already; the stake, the cut and the voting right; and the DATA held, which is
\* understated by what came in untold.
AccountsShown ==
    LET waiting == {i \in DOMAIN op.queue : op.queue[i].amount > 0}
        index(i) == QueueIndex(op) + i - 1
    IN  /\ DOMAIN store.queueEntries = {index(i) : i \in waiting}
        /\ \A i \in waiting : store.queueEntries[index(i)] = op.queue[i]
        /\ store.totalStakeInSponsorshipsWei = op.totalStaked - op.totalSlashed
        /\ store.network.totalStake = op.totalStaked - op.totalSlashed
        /\ store.dataTokenBalanceWei <= op.balance
        /\ store.operatorsCutFraction = op.cut
        /\ store.isEligibleToVote = op.voter
        /\ store.network.eligibleVotersCount = IF op.voter THEN 1 ELSE 0

\* The earnings credited to the delegators never exceed the operator's profits,
\* although the shares are computed from the entities and not from the contract.
EarningsWithinProfits ==
    SumFunction([h \in Holders |-> store.delegators[h].cumulativeEarningsWei])
        <= store.cumulativeProfitsWei

\* "payOutQueue can't be allowed to fail" (QueueModule.sol:18): paying the first entry
\* reverts in one case only, when there is more DATA than the entry asked for, but less
\* than the whole delegation is worth, which is due because too little would be left.
QueueIsPaidUnlessRich ==
    op.queue # <<>> /\ ~PaidOutQueue(Begin(op), 1).ok
        => Head(op.queue).amount < op.balance /\ op.balance < Due(op).data

=============================================================================
