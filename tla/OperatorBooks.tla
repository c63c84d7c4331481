---------------------------- MODULE OperatorBooks ----------------------------
(***************************************************************************)
(* The accounts of one Operator contract and the functions of Operator,    *)
(* QueueModule, StakeModule and the default policies that change them.     *)
(* Each takes the transaction so far and returns it with its own part      *)
(* done: the accounts, the events in the order they were emitted, and      *)
(* whether nothing has reverted.  Fractions are scaled by Ether.           *)
(***************************************************************************)
EXTENDS Integers, Sequences, FiniteSets, Functions, SequencesExt

CONSTANTS Holders, Owner,            \* who may hold operator tokens; the operator itself
          Sponsorships,
          Ether,                     \* the code's "1 ether"
          MinimumDelegation,         \* minimumDelegationWei
          SelfFraction,              \* minimumSelfDelegationFraction
          FeeFraction,               \* protocolFeeFraction
          AllowedEarningsFraction,   \* maxAllowedEarningsFraction
          FishermanFraction,         \* fishermanRewardFraction
          VoterThreshold             \* the stake that makes an operator a voter

ASSUME OperatorAssumption ==
    /\ Owner \in Holders
    /\ IsFiniteSet(Holders) /\ IsFiniteSet(Sponsorships)
    /\ Ether \in Nat \ {0}
    /\ MinimumDelegation \in Nat
    /\ {SelfFraction, FeeFraction, AllowedEarningsFraction, FishermanFraction} \subseteq 0 .. Ether
    /\ VoterThreshold \in Nat

\* queue holds the entries from queueCurrentIndex on; nextIndex is queueLastIndex.
\* voter is what the voter registry says of this operator.
EmptyAccounts(cut) ==
    [balance |-> 0, tokens |-> [h \in Holders |-> 0],
     sponsorships |-> {},
     stakedInto |-> [s \in Sponsorships |-> 0], slashedIn |-> [s \in Sponsorships |-> 0],
     totalStaked |-> 0, totalSlashed |-> 0,
     queue |-> <<>>, nextIndex |-> 0, cut |-> cut, voter |-> FALSE]

Begin(op) == [op |-> op, log |-> <<>>, ok |-> TRUE]

Log(tx, event) == [tx EXCEPT !.log = Append(@, event)]

Require(tx, condition) == IF condition THEN tx ELSE [tx EXCEPT !.ok = FALSE]

AtMost(x, limit) == IF x < limit THEN x ELSE limit

Supply(op) == SumFunction(op.tokens)

\* valueWithoutEarnings
ValueOf(op) == op.balance + op.totalStaked - op.totalSlashed

QueueIndex(op) == op.nextIndex - Len(op.queue)

-----------------------------------------------------------------------------
(* DefaultExchangeRatePolicy.  A division by zero reverts, see Require. *)

\* operatorTokenToData, rounding down
TokensToData(op, tokens) ==
    IF Supply(op) = 0 THEN 0 ELSE (tokens * ValueOf(op)) \div Supply(op)

TokensForDataRoundedDown(op, data) ==
    IF ValueOf(op) = 0 THEN 0 ELSE (data * Supply(op)) \div ValueOf(op)

\* operatorTokenToDataInverse, rounding up
TokensForData(op, data) ==
    IF ValueOf(op) = 0 THEN 0 ELSE (data * Supply(op) + ValueOf(op) - 1) \div ValueOf(op)

\* dataToOperatorToken, of data that is in the balance already
MintedFor(op, data) ==
    IF Supply(op) = 0 THEN data
    ELSE IF ValueOf(op) = data THEN 0
    ELSE (data * Supply(op)) \div (ValueOf(op) - data)

-----------------------------------------------------------------------------
(* The events that carry the state at the point where they are emitted *)

BalanceUpdate(tx, h) ==
    Log(tx, [name |-> "BalanceUpdate", delegator |-> h, balanceWei |-> tx.op.tokens[h],
             totalSupplyWei |-> Supply(tx.op), value |-> ValueOf(tx.op)])

OperatorValueUpdate(tx) ==
    Log(tx, [name |-> "OperatorValueUpdate",
             totalStakeInSponsorshipsWei |-> tx.op.totalStaked - tx.op.totalSlashed,
             dataTokenBalanceWei |-> tx.op.balance])

-----------------------------------------------------------------------------
(* Delegating *)

\* DefaultDelegationPolicy.onDelegate: the owner holds enough of the supply.
OwnerHasEnough(op) == Ether * op.tokens[Owner] > Supply(op) * SelfFraction

\* _delegate, after the tokens have arrived.  Nothing is checked for the owner.
Delegated(tx, h, data) ==
    LET minted   == [tx EXCEPT !.op.tokens[h] = @ + MintedFor(tx.op, data)]
        divides  == Supply(tx.op) = 0 \/ ValueOf(tx.op) # data
        allowed  == h = Owner \/ (/\ minted.op.tokens[h] >= MinimumDelegation
                                  /\ OwnerHasEnough(minted.op))
        reported == Log(Require(minted, divides /\ allowed),
                        [name |-> "Delegated", delegator |-> h, amountDataWei |-> data])
    IN  OperatorValueUpdate(BalanceUpdate(reported, h))

\* _slashSelfDelegation: burns the owner's tokens as far as they go.
SlashSelfDelegation(tx, data) ==
    IF tx.op.tokens[Owner] = 0 THEN tx
    ELSE LET burned == AtMost(TokensForData(tx.op, data), tx.op.tokens[Owner])
             able   == Require(tx, ValueOf(tx.op) > 0)
         IN  BalanceUpdate([able EXCEPT !.op.tokens[Owner] = @ - burned], Owner)

-----------------------------------------------------------------------------
(* The undelegation queue *)

QueueUpdated(tx, index, amount) ==
    Log(tx, [name |-> "QueueUpdated", queueIndex |-> index, amountWei |-> amount])

PopQueue(tx) ==
    QueueUpdated([tx EXCEPT !.op.queue = Tail(@)], QueueIndex(tx.op), 0)

\* Burn the tokens and send the data they are paid out with.
PaidTo(tx, h, tokens, data) ==
    LET burned == [Require(tx, tokens <= tx.op.tokens[h])
                     EXCEPT !.op.tokens[h] = @ - tokens, !.op.balance = @ - data]
        told   == Log(burned, [name |-> "Undelegated", delegator |-> h, amountDataWei |-> data])
    IN  OperatorValueUpdate(BalanceUpdate(told, h))

DueAsAsked(op) ==
    LET entry == Head(op.queue)
        asked == AtMost(entry.amount, ValueOf(op))
    IN  [tokens |-> TokensForData(op, asked), data |-> asked]

\* What the first entry is worth: all of the delegation if less than the minimum
\* would be left of it.
Due(op) ==
    LET entry  == Head(op.queue)
        asked  == AtMost(entry.amount, ValueOf(op))
        needed == TokensForData(op, asked)
        held   == op.tokens[entry.delegator]
    IN  IF held < needed + MinimumDelegation
        THEN [tokens |-> held, data |-> TokensToData(op, held)]
        ELSE [tokens |-> needed, data |-> asked]

\* _payOutFirstInQueue, when there is something to pay with.  A partial payment
\* takes what is paid off the amount of the entry, which reverts if the entry
\* asked for less than that.
PaidFirstInQueue(tx) ==
    LET entry == Head(tx.op.queue)
        due   == Due(tx.op)
        all   == tx.op.balance
        left  == entry.amount - all
        partly == QueueUpdated([Require(tx, left >= 0) EXCEPT !.op.queue[1].amount = left],
                               QueueIndex(tx.op), left)
    IN  IF due.data = 0 \/ due.tokens = 0 THEN PopQueue(tx)
        ELSE IF all >= due.data THEN PaidTo(PopQueue(tx), entry.delegator, due.tokens, due.data)
        ELSE PaidTo(partly, entry.delegator, TokensForData(tx.op, all), all)

\* _payOutQueue: at most so many entries (0 for all), until the DATA runs out.
PaidOutQueue(tx, maxIterations) ==
    LET length == Len(tx.op.queue)
        rounds == IF maxIterations = 0 THEN length ELSE AtMost(maxIterations, length)
        Round(t, i) == IF t.ok /\ t.op.balance > 0 /\ t.op.queue # <<>>
                       THEN PaidFirstInQueue(t) ELSE t
    IN  IF tx.ok THEN FoldLeft(Round, tx, [i \in 1 .. rounds |-> i]) ELSE tx

\* DefaultUndelegationPolicy.onUndelegate.  Time is not modelled: a delegator calls
\* when its minimumDelegationSeconds have passed.
MayUndelegate(op, h, data) ==
    LET taken == AtMost(TokensForData(op, data), op.tokens[Owner])
    IN  \/ h # Owner
        \/ op.totalStaked = 0
        \/ /\ ValueOf(op) > 0
           /\ Ether * (op.tokens[Owner] - taken) >= (Supply(op) - taken) * SelfFraction

\* _undelegate
Queued(tx, h, data) ==
    LET allowed == Require(tx, MayUndelegate(tx.op, h, data))
        queued  == [allowed EXCEPT !.op.queue = Append(@, [delegator |-> h, amount |-> data]),
                                   !.op.nextIndex = @ + 1]
    IN  Log(queued, [name |-> "QueuedDataPayout", delegator |-> h, amountWei |-> data,
                     queueIndex |-> tx.op.nextIndex])

\* _transfer of operator tokens
Transferred(tx, from, to, tokens) ==
    LET moved == IF from = to THEN tx
                 ELSE [tx EXCEPT !.op.tokens[from] = @ - tokens, !.op.tokens[to] = @ + tokens]
        op    == moved.op
        legal == /\ tokens <= tx.op.tokens[from]
                 /\ op.tokens[from] >= MinimumDelegation \/ op.tokens[from] = 0
                 /\ op.tokens[to] >= MinimumDelegation
                 /\ tx.op.tokens[to] = 0 => OwnerHasEnough(op)
                 /\ MayUndelegate(op, from, 0)
    IN  BalanceUpdate(BalanceUpdate(Require(moved, legal), from), to)

-----------------------------------------------------------------------------
(* Stakes and earnings *)

\* voterUpdate of the registry, for an operator of minEligibleVoterAge.
VoterUpdated(tx) ==
    LET eligible == tx.op.totalStaked >= VoterThreshold
        updated  == [tx EXCEPT !.op.voter = eligible]
    IN  IF eligible = tx.op.voter THEN tx
        ELSE Log(updated, [name |-> "VoterUpdate", isVoter |-> eligible])

\* _stake: the tokens leave for the Sponsorship.
Staked(tx, s, amount) ==
    LET staked == [tx EXCEPT !.op.balance = @ - amount,
                             !.op.stakedInto[s] = @ + amount,
                             !.op.totalStaked = @ + amount,
                             !.op.sponsorships = @ \cup {s}]
        legal  == tx.op.queue = <<>> /\ OwnerHasEnough(tx.op) /\ amount <= tx.op.balance
    IN  OperatorValueUpdate(VoterUpdated(Require(staked, legal)))

\* _reduceStakeTo a target that is not zero: the Sponsorship pays the rest out.
StakeReduced(tx, s, cashout) ==
    LET reduced == [tx EXCEPT !.op.balance = @ + cashout,
                              !.op.stakedInto[s] = @ - cashout,
                              !.op.totalStaked = @ - cashout]
    IN  OperatorValueUpdate(VoterUpdated(reduced))

\* _splitEarnings: the protocol fee leaves, the owner's cut is delegated for it,
\* the rest inflates the value of everyone's tokens.
EarningsSplit(tx, earnings) ==
    LET fee    == (earnings * FeeFraction) \div Ether
        cut    == ((earnings - fee) * tx.op.cut) \div Ether
        shared == Delegated([tx EXCEPT !.op.balance = @ - fee], Owner, cut)
    IN  Log(shared, [name |-> "Profit", valueIncreaseWei |-> earnings - fee - cut,
                     operatorsCutDataWei |-> cut])

SponsorshipRemovedStaked(tx, s, received) ==
    LET closed == [tx EXCEPT !.op.totalStaked = @ - tx.op.stakedInto[s]]
        result == IF received < tx.op.stakedInto[s]
                  THEN Log(closed, [name |-> "Loss",
                                    valueDecreaseWei |-> tx.op.stakedInto[s] - received])
                  ELSE EarningsSplit(closed, received - tx.op.stakedInto[s])
    IN  OperatorValueUpdate([VoterUpdated(result) EXCEPT !.op.sponsorships = @ \ {s},
                                                               !.op.stakedInto[s] = 0,
                                                               !.op.slashedIn[s] = 0])

\* _removeSponsorship, after the tokens have arrived.
SponsorshipRemoved(tx, s, received) ==
    LET closed == [tx EXCEPT !.op.totalStaked = @ - tx.op.stakedInto[s],
                             !.op.totalSlashed = @ - tx.op.slashedIn[s]]
        result == IF received < tx.op.stakedInto[s]
                  THEN Log(closed, [name |-> "Loss",
                                    valueDecreaseWei |-> tx.op.stakedInto[s] - received])
                  ELSE EarningsSplit(closed, received - tx.op.stakedInto[s])
    IN  OperatorValueUpdate([VoterUpdated(result) EXCEPT !.op.sponsorships = @ \ {s},
                                                               !.op.stakedInto[s] = 0,
                                                               !.op.slashedIn[s] = 0])

\* A call in a try without a handler: if it reverts, nothing has happened.
Tried(before, after) == IF after.ok THEN after ELSE before

OnSlashUntold(tx, s, amount) ==
    LET slashed == [SlashSelfDelegation(tx, amount) EXCEPT !.op.slashedIn[s] = @ + amount,
                                                           !.op.totalSlashed = @ + amount]
    IN  Tried(tx, Require(slashed, s \in tx.op.sponsorships))

\* onSlash, called by the Sponsorship
OnSlash(tx, s, amount) ==
    LET slashed == [SlashSelfDelegation(tx, amount) EXCEPT !.op.slashedIn[s] = @ + amount,
                                                           !.op.totalSlashed = @ + amount]
    IN  Tried(tx, OperatorValueUpdate(Require(slashed, s \in tx.op.sponsorships)))

\* onKick: burns the owner's tokens at the rate before the payout arrived.
OnKick(tx, s, slashed, received) ==
    LET without  == [tx EXCEPT !.op.totalSlashed = @ + received]
        burned   == [SlashSelfDelegation(without, slashed)
                       EXCEPT !.op.totalSlashed = @ - received]
        punished == IF slashed > 0 THEN burned ELSE tx
    IN  Tried(tx, SponsorshipRemoved(Require(punished, s \in tx.op.sponsorships),
                                     s, received))

=============================================================================
