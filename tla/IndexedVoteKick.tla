--------------------------- MODULE IndexedVoteKick ---------------------------
(***************************************************************************)
(* VoteKick together with the subgraph that follows its events.  A step is *)
(* a step of VoteKick whose transaction emits events; the subgraph handles *)
(* a block at a time, so the store is compared with the contract between   *)
(* transactions: the two change in the same step.  The events of each      *)
(* transaction are listed in the order the contract emits them, and carry  *)
(* the values at that point.  Events the subgraph does not subscribe to    *)
(* (OperatorJoined, OperatorLeft, OperatorKicked) are left out.            *)
(***************************************************************************)
EXTENDS VoteKick, SequencesExt

CONSTANTS MaxFlags,        \* bound: the flags ever raised
          MaxSponsoring    \* bound: the tokens ever sponsored

ASSUME IndexAssumption == MaxFlags \in Nat /\ MaxSponsoring \in Nat

VARIABLE store    \* the subgraph's entities

Index == INSTANCE SponsorshipIndex WITH Parties <- Operators \cup Voters, Nobody <- NoOne

indexedVars == <<books, config, flags, protected, doublePaid, store>>

Emits(events) == store' = Index!HandleAll(store, events)

EmitsWithin(events) ==
    /\ Emits(events)
    /\ store'.cumulativeSponsoring <= MaxSponsoring

-----------------------------------------------------------------------------
(* The events, each with the contract's state when it is emitted *)

StakeUpdate(b, o) == [name |-> "StakeUpdate", operator |-> o, stakedWei |-> b.staked[o]]

StakeLockUpdate(b, o, minimum) ==
    [name |-> "StakeLockUpdate", operator |-> o, lockedStakeWei |-> b.locked[o],
     minimumStakeWei |-> minimum]

SponsorshipUpdate(b) ==
    [name |-> "SponsorshipUpdate", totalStakedWei |-> b.totalStaked,
     operatorCount |-> b.operatorCount]

Received(amount) == [name |-> "SponsorshipReceived", amount |-> amount]

OperatorSlashed(o, amount) == [name |-> "OperatorSlashed", operator |-> o, amountWei |-> amount]

ReviewRequest(t, v) == [name |-> "ReviewRequest", target |-> t, reviewer |-> v]

FlagUpdate(t, status, votesFor, votesAgainst, voter, weight, kick) ==
    [name |-> "FlagUpdate", target |-> t, status |-> status, votesForKick |-> votesFor,
     votesAgainstKick |-> votesAgainst, voter |-> voter, voterWeight |-> weight, kick |-> kick]

ConfigChanged(key, value) == [name |-> "ConfigChanged", key |-> key, newValue |-> value]

When(condition, event) == IF condition THEN <<event>> ELSE <<>>

\* The status codes of FlagUpdate.
Voting == 1
Kicked == 2
NotKicked == 3

-----------------------------------------------------------------------------
(* The events of each transaction *)

StakeEvents(b, o) == <<StakeUpdate(b, o), SponsorshipUpdate(b)>>

\* _addSponsorship: tokens of unknown origin are reported on their own.
SponsorEvents(before, after, amount) ==
    LET unknown == after.pool - before.pool - amount
    IN  <<Received(amount)>> \o When(unknown > 0, Received(unknown))
            \o <<SponsorshipUpdate(after)>>

LeaveEventsLockLast(b, o, terms) ==
    <<[name |-> "StakeUpdate", operator |-> o, stakedWei |-> 0],
      SponsorshipUpdate(RemoveOperator(b, o, terms))>>
        \o When(b.locked[o] > 0, [name |-> "StakeLockUpdate", operator |-> o,
                                  lockedStakeWei |-> 0, minimumStakeWei |-> 0])

\* _removeOperator: what is forfeited and the leave penalty are slashings; the
\* last words about the Stake are that it is gone.
LeaveEvents(b, o, terms) ==
    LET gone == RemoveOperator(b, o, terms)
    IN  When(b.locked[o] > 0, OperatorSlashed(o, Forfeits(b, o)))
            \o When(b.locked[o] > 0, StakeLockUpdate(gone, o, 0))
            \o When(terms.penalty > 0,
                    OperatorSlashed(o, Smaller(terms.penalty, b.staked[o] - Forfeits(b, o))))
            \o StakeEvents(gone, o)

\* _kick
KickEvents(b, o, slashing, terms) ==
    When(slashing > 0, OperatorSlashed(o, Reduction(b, o, slashing)))
        \o LeaveEvents(ReduceStakeBy(b, o, slashing), o, terms)

\* onFlag: the reviewers are asked one by one before anything else is emitted.
FlagEvents(after, f, t, weight) ==
    LET asked == SetToSeq(DOMAIN weight)
        flagged(o) == o = t \/ Open(o)
    IN  [i \in DOMAIN asked |-> ReviewRequest(t, asked[i])]
            \o <<StakeLockUpdate(after, f, MinimumStakeOf(after, f, flagged(f))),
                 StakeLockUpdate(after, t, MinimumStakeOf(after, t, TRUE)),
                 [name |-> "Flagged", target |-> t, flagger |-> f,
                  targetStakeAtRiskWei |-> StakeAtRisk(config, books.staked[t]),
                  reviewerCount |-> Cardinality(DOMAIN weight)]>>

\* _handleKick and _handleNoKick tell the new lock of a party that has stake.
LockEvents(b, o) ==
    When(b.staked[o] > 0, StakeLockUpdate(b, o, MinimumStakeOf(b, o, Open(o))))

HandleKickEvents(b, t, flag, terms) ==
    LET unlocked == Unlock(b, t, flag.atRisk)
        slashed  == SlashTarget(b, t, flag, terms)
        settled  == Unlock(slashed, flag.flagger, flag.flagStake)
    IN  (IF b.locked[t] >= flag.atRisk THEN KickEvents(unlocked, t, flag.atRisk, terms)
         ELSE LockEvents(unlocked, t))
            \o LockEvents(settled, flag.flagger)
            \o <<FlagUpdate(t, Kicked, flag.votesFor, flag.votesAgainst, NoOne, 0, FALSE)>>

HandleNoKickEvents(b, t, flag, paid) ==
    LET released == Unlock(b, t, flag.atRisk)
        settled  == HandleNoKick(b, t, flag, paid).books
        rewards  == Cardinality(paid \ {flag.flagger}) * flag.reviewerReward
        unlocked == Unlock(released, flag.flagger, flag.flagStake)
    IN  LockEvents(released, t)
            \o When(released.locked[flag.flagger] >= flag.flagStake /\ rewards > 0,
                    OperatorSlashed(flag.flagger, Reduction(unlocked, flag.flagger, rewards)))
            \o LockEvents(settled, flag.flagger)
            \o <<FlagUpdate(t, NotKicked, flag.votesFor, flag.votesAgainst, NoOne, 0, FALSE)>>

SettlementEventsSilent(t, flag, terms, paid) ==
    IF Verdict(flag) = VotedKick THEN HandleKickEvents(books, t, flag, terms)
    ELSE HandleNoKickEvents(books, t, flag, paid)

\* _endVote reports the totals last, after the slashing of the flagger.
SettlementEvents(t, flag, terms, paid) ==
    SettlementEventsSilent(t, flag, terms, paid)
        \o <<SponsorshipUpdate(Settlement(books, t, flag, terms, paid).books)>>

\* A step that ends the voting: its events are those of some terms and payments
\* that lead to the same books.
EndsVote(t, flag, earlier) ==
    \E terms \in LeaveTermsOf(t), paid \in PaidSets(flag) :
        /\ Settlement(books, t, flag, terms, paid).books = books'
        /\ Emits(earlier \o SettlementEvents(t, flag, terms, paid))

VoteEvent(t, v, kick) ==
    LET voted == CastVote(flags[t], v, kick)
    IN  FlagUpdate(t, Voting, voted.votesFor, voted.votesAgainst, v, flags[t].state[v], kick)

-----------------------------------------------------------------------------
(* The transactions of VoteKick with their events *)

\* One call of a setter for each parameter that changes, in initialize's order.
ConfigEvents(before, after) ==
    LET change(key) == When(before[key] # after[key], ConfigChanged(key, after[key]))
    IN  change("slashingFraction") \o change("leavePenalty") \o change("reviewerCount")
            \o change("reviewerReward") \o change("flaggerReward") \o change("flagStake")

\* StreamrConfig is initialized before there are Sponsorships.
IndexedInit ==
    /\ Init
    /\ LET created == Index!NewStore(Operators)
       IN  store = Index!HandleAll(created, ConfigEvents(created.network, config))

IndexedChangeConfig(c) == ChangeConfig(c) /\ Emits(ConfigEvents(config, c))

IndexedSponsor(amount) ==
    Sponsor(amount) /\ EmitsWithin(SponsorEvents(books, books', amount))

IndexedStake(o, amount) == Stake(o, amount) /\ Emits(StakeEvents(books', o))

IndexedReduceStakeTo(o, target) == ReduceStakeTo(o, target) /\ Emits(StakeEvents(books', o))

IndexedWithdraw(o, earnings, accepted) ==
    Withdraw(o, earnings, accepted) /\ Emits(<<StakeUpdate(books, o)>>)

IndexedUnstake(o, terms) == Unstake(o, terms) /\ Emits(LeaveEvents(books, o, terms))

IndexedForceUnstake(o, terms) == ForceUnstake(o, terms) /\ Emits(LeaveEvents(books, o, terms))

IndexedFlagKicks(f, t, terms) ==
    FlagKicks(f, t, terms) /\ Emits(KickEvents(books, t, 0, terms))

IndexedFlag(f, t, weight) ==
    /\ Flag(f, t, weight)
    /\ Emits(FlagEvents(books', f, t, weight))
    /\ SumFunction([u \in Operators |-> Cardinality(DOMAIN store'.flags[u])]) <= MaxFlags

IndexedVote(t, v, kick) ==
    /\ Vote(t, v, kick)
    /\ LET voted == CastVote(flags[t], v, kick)
       IN  IF AllVoted(voted) THEN EndsVote(t, voted, <<VoteEvent(t, v, kick)>>)
           ELSE Emits(<<VoteEvent(t, v, kick)>>)

IndexedEndVotingPeriod(t) == EndVotingPeriod(t) /\ EndsVote(t, flags[t], <<>>)

Unindexed ==
    /\ \/ \E amount \in SponsorAmounts : PlainTransfer(amount)
       \/ \E t \in Operators : PhaseEnds(t)
       \/ \E t \in Operators : ProtectionEnds(t)
    /\ UNCHANGED store

IndexedNext ==
    \/ \E amount \in SponsorAmounts \cup {0} : IndexedSponsor(amount)
    \/ \E o \in Operators, amount \in StakeAmounts : IndexedStake(o, amount)
    \/ \E o \in Operators, target \in StakeAmounts : IndexedReduceStakeTo(o, target)
    \/ \E o \in Operators, earnings \in 1 .. books.pool :
         \E accepted \in Accepts(o) : IndexedWithdraw(o, earnings, accepted)
    \/ \E o \in Operators : \E terms \in LeaveTermsOf(o) : IndexedUnstake(o, terms)
    \/ \E o \in Operators : \E terms \in LeaveTermsOf(o) : IndexedForceUnstake(o, terms)
    \/ \E f \in Flaggers, t \in Operators :
         \E terms \in LeaveTermsOf(t) : IndexedFlagKicks(f, t, terms)
    \/ \E f \in Flaggers, t \in Operators, R \in SUBSET Voters :
         \E weight \in [R -> Weights] : IndexedFlag(f, t, weight)
    \/ \E t \in Operators, v \in Voters, kick \in BOOLEAN : IndexedVote(t, v, kick)
    \/ \E t \in Operators : IndexedEndVotingPeriod(t)
    \/ \E c \in Configs : IndexedChangeConfig(c)
    \/ Unindexed

IndexedSpec == IndexedInit /\ [][IndexedNext]_indexedVars

-----------------------------------------------------------------------------
(* Properties *)

LastIndex(t) == store.flags[t][0].lastFlagIndex
LastFlag(t) == store.flags[t][LastIndex(t)]

\* Between transactions a Stake entity exists for exactly the operators that have
\* stake, and it shows their lock: although a StakeLockUpdate would create the
\* entity anew, none follows the StakeUpdate that removed it.
StakesShown ==
    /\ DOMAIN store.stakes = books.joined
    /\ \A o \in books.joined : store.stakes[o].lockedWei = books.locked[o]

\* The Network entity shows the parameters of the flagging, and a minimum stake
\* that falls short of the contract's by less than one wei.
ConfigShown ==
    /\ \A key \in DOMAIN config : store.network[key] = config[key]
    /\ store.network.minimumStake \in {MinimumStake(config) - 1, MinimumStake(config)}

\* The Sponsorship entity shows the totals; it never shows less sponsoring than
\* what is left of it; no Stake is shown smaller than it is; and the Network shows
\* the configuration.
TotalsShown ==
    /\ ConfigShown
    /\ store.totalStakedWei = books.totalStaked
    /\ store.operatorCount = books.operatorCount
    /\ store.cumulativeSponsoring >= books.pool
    /\ \A o \in books.joined : store.stakes[o].amountWei >= books.staked[o]

LatestFlagShown(t) ==
    /\ LastFlag(t).result \in {"waiting", "voting"}
    /\ LastFlag(t).flagger = flags[t].flagger
    /\ LastFlag(t).targetStakeAtRiskWei = flags[t].atRisk
    /\ ToSet(LastFlag(t).reviewers) = ReviewersOf(flags[t])
    /\ LastFlag(t).reviewerCount = Len(LastFlag(t).reviewers)

VotesAddUpTo(flag, votes) ==
    LET weight(kick) == SumFunction([vote \in {v \in votes : v.kick = kick} |-> vote.weight])
    IN  weight(TRUE) = flag.votesForKick /\ weight(FALSE) = flag.votesAgainstKick

\* "only one at a time. First flag stores the last flag's index": every flag but
\* the one open now is resolved, none is left without a flagger, and the last one
\* shows the flag that is open, with the reviewers that were picked.  The Vote
\* entities of a flag add up to its votes, whether it is open or not.
FlagsShown ==
    \A t \in Operators :
        /\ \A i \in DOMAIN store.flags[t] :
             /\ store.flags[t][i].flagger \in Operators
             /\ store.flags[t][i].result \in {"kicked", "failed"} \/ (Open(t) /\ i = LastIndex(t))
             /\ VotesAddUpTo(store.flags[t][i],
                             {vote \in store.votes : vote.target = t /\ vote.index = i})
        /\ Open(t) => LatestFlagShown(t)

=============================================================================
