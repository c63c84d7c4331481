------------------------------ MODULE VoteKick ------------------------------
(***************************************************************************)
(* One Sponsorship with its VoteKickPolicy, DefaultLeavePolicy and join    *)
(* policies: operators stake, leave, flag each other; reviewers vote; the  *)
(* outcome moves stakes.  Every action is one transaction.  Clocks are     *)
(* abstracted to what the code compares them with: a flag is in "review"   *)
(* until its voteStartTimestamp has passed, in "voting" until its          *)
(* voteEndTimestamp has passed and "ended" after that; a flag that is not  *)
(* open is "none" (voteStartTimestamp = 0).                                *)
(***************************************************************************)
EXTENDS ConfigRules, SponsorshipBooks, FiniteSets, Functions

CONSTANTS Voters,          \* the operator contracts registered as voters
          Configs,         \* the configurations the administrator may set
          MinOperatorCount, MaxOperatorCount,
          Weights,         \* voting weights: valueWithoutEarnings of a voter
          StakeAmounts,    \* what can be staked, or reduced to, in one call
          SponsorAmounts,  \* what can be sponsored, or just transferred
          Flaggers,        \* bound: the operators that raise flags
          MaxStake,        \* bound: the stake an operator may add up to
          MaxSponsorship,  \* bound: the tokens inside that are not accounted as stake
          MaxDoublePaid,   \* bound: the history of double payments
          Refusing,        \* operators whose onTokenTransfer may revert
          NoOne            \* address(0)

ASSUME VoteKickAssumption ==
    /\ IsFiniteSet(Operators) /\ IsFiniteSet(Voters)
    /\ Configs \subseteq Config
    /\ \A c \in Configs : c.flagStake >= MinimumFlagStake(c)  \* setFlagStakeWei
    /\ MinOperatorCount \in Nat \ {0} /\ MaxOperatorCount \in Nat
    /\ Weights \subseteq Nat \ {0}
    /\ StakeAmounts \subseteq Nat /\ SponsorAmounts \subseteq Nat
    /\ Flaggers \subseteq Operators
    /\ MaxStake \in Nat /\ MaxSponsorship \in Nat /\ MaxDoublePaid \in Nat
    /\ Refusing \subseteq Operators \cup Voters
    /\ NoOne \notin Operators

VARIABLES books,       \* the accounts of the Sponsorship
          config,      \* the StreamrConfig values in force
          flags,       \* the flag on each operator
          protected,   \* operators whose protectionEndTimestamp is not passed
          doublePaid   \* history: see Unlock

vars == <<books, config, flags, protected, doublePaid>>

VotedKick == -1
VotedNoKick == -2

\* state is reviewerState: 0 for non-reviewers, the weight until they vote.
NoFlag ==
    [phase |-> "none", flagger |-> NoOne, atRisk |-> 0, flagStake |-> 0,
     flaggerReward |-> 0, reviewerReward |-> 0, state |-> [v \in Voters |-> 0],
     votesFor |-> 0, votesAgainst |-> 0, total |-> 0]

Open(t) == flags[t].phase # "none"
ReviewersOf(flag) == {v \in Voters : flag.state[v] # 0}

\* getMinimumStakeOf, with room for being flagged if not flagged yet
MinimumStakeOf(b, o, flagged) ==
    LET needed == IF flagged THEN b.locked[o]
                  ELSE DivByFraction(b.locked[o], Ether - config.slashingFraction)
    IN  IF needed > MinimumStake(config) THEN needed ELSE MinimumStake(config)

\* getLeavePenalty: possible only while the sponsorship is running; whether it
\* is funded and the operator in its penalty period is up to the clock.
LeavePenalties ==
    {0} \cup (IF books.operatorCount >= MinOperatorCount THEN {config.leavePenalty} ELSE {})

Accepts(o) == IF o \in Refusing THEN BOOLEAN ELSE {TRUE}

\* The terms an operator can leave under: its earnings are part of the pool.
LeaveTermsOf(o) ==
    [penalty : LeavePenalties, earnings : 0 .. books.pool,
     takesEarnings : Accepts(o), takesStake : Accepts(o)]

CommitUnchecked(b) == books' = b

\* A transaction that ends with these books, unless a checked subtraction reverts it.
Commit(b) == Commits(b) /\ books' = b

Init ==
    /\ books = EmptyBooks
    /\ config \in Configs
    /\ flags = [t \in Operators |-> NoFlag]
    /\ protected = {}
    /\ doublePaid = 0

-----------------------------------------------------------------------------
(* Sponsors *)

\* The bound on what sponsors and strangers may send.
RoomForSponsorship(amount) ==
    books.balance + amount - books.totalStaked - books.forfeited <= MaxSponsorship

\* A plain ERC20 transfer: the contract is not told.
PlainTransfer(amount) ==
    /\ RoomForSponsorship(amount)
    /\ books' = [books EXCEPT !.balance = @ + amount]
    /\ UNCHANGED <<config, flags, protected, doublePaid>>

SponsorSweepsForfeited(amount) ==
    /\ RoomForSponsorship(amount)
    /\ LET held == books.balance + amount
       IN  Commit([books EXCEPT !.balance = held, !.pool = held - books.totalStaked])
    /\ UNCHANGED <<config, flags, protected, doublePaid>>

\* sponsor() or transferAndCall() without an operator: _addSponsorship sweeps
\* every token that is not accounted for into remainingWei.
Sponsor(amount) ==
    /\ RoomForSponsorship(amount)
    /\ LET held  == books.balance + amount
           swept == held - books.totalStaked - books.forfeited
       IN  /\ swept - books.pool >= amount     \* unknownTokensWei is not negative
           /\ Commit([books EXCEPT !.balance = held, !.pool = swept])
    /\ UNCHANGED <<config, flags, protected, doublePaid>>

-----------------------------------------------------------------------------
(* Operators *)

\* stake() or transferAndCall() naming the operator: joins it if it has no stake.
Stake(o, amount) ==
    /\ books.staked[o] + amount <= MaxStake
    /\ books.balance - Owed(books) <= MaxSponsorship
    /\ LET newStaker == books.staked[o] = 0
           paidIn == [books EXCEPT !.balance = @ + amount,
                                   !.staked[o] = @ + amount,
                                   !.totalStaked = @ + amount]
           joined == [paidIn EXCEPT !.operatorCount = @ + 1,
                                    !.joined = @ \cup {o}]
       IN  /\ paidIn.staked[o] >= MinimumStakeOf(paidIn, o, Open(o))
           /\ newStaker => joined.operatorCount <= MaxOperatorCount
           /\ Commit(IF newStaker THEN joined ELSE paidIn)
    /\ UNCHANGED <<config, flags, protected, doublePaid>>

\* reduceStakeTo
ReduceStakeTo(o, target) ==
    /\ target < books.staked[o]
    /\ target >= MinimumStakeOf(books, o, Open(o))
    /\ LET by == books.staked[o] - target
       IN  Commit([ReduceStakeBy(books, o, by)
                     EXCEPT !.balance = @ - Reduction(books, o, by)])
    /\ UNCHANGED <<config, flags, protected, doublePaid>>

\* withdraw: part of the pool has been allocated to the operator.
Withdraw(o, earnings, accepted) ==
    /\ o \in books.joined
    /\ books.staked[o] > 0
    /\ Commit(WithdrawEarnings(books, earnings, accepted))
    /\ UNCHANGED <<config, flags, protected, doublePaid>>

\* unstake: only without a penalty and without locked stake
Unstake(o, terms) ==
    /\ o \in books.joined
    /\ terms.penalty = 0
    /\ books.locked[o] = 0
    /\ Commit(RemoveOperator(books, o, terms))
    /\ UNCHANGED <<config, flags, protected, doublePaid>>

\* forceUnstake: forfeits the locked stake, pays the penalty
ForceUnstake(o, terms) ==
    /\ o \in books.joined
    /\ Commit(RemoveOperator(books, o, terms))
    /\ UNCHANGED <<config, flags, protected, doublePaid>>

-----------------------------------------------------------------------------
(* Flagging *)

MayFlag(f, t) ==
    /\ f # t
    /\ ~Open(t)
    /\ t \notin protected
    /\ books.staked[t] > 0

Overlocked(t) ==
    books.locked[t] + StakeAtRisk(config, books.staked[t]) > books.staked[t]

\* onFlag when the target has too little stake to lock: kicked, not slashed.
FlagKicks(f, t, terms) ==
    /\ MayFlag(f, t)
    /\ Overlocked(t)
    /\ t \in books.joined
    /\ Commit(RemoveOperator(books, t, terms))
    /\ UNCHANGED <<config, flags, protected, doublePaid>>

CapWeightsToHalf(weight) ==
    LET total == SumFunction(weight)
    IN  [v \in DOMAIN weight |->
           IF weight[v] * 2 >= total /\ Cardinality(DOMAIN weight) > 2
           THEN total - weight[v] ELSE weight[v]]

\* No voter decides alone: with more than two reviewers, a weight of half or
\* more of the total is capped to just below half.
CapWeights(weight) ==
    LET total == SumFunction(weight)
        Big   == {v \in DOMAIN weight : weight[v] * 2 >= total}
    IN  IF Cardinality(DOMAIN weight) > 2
        THEN [v \in DOMAIN weight |->
                IF v \in Big THEN total - weight[v] - 1 ELSE weight[v]]
        ELSE weight

\* onFlag: lock stake of both parties, cache the configuration, pick reviewers.
Flag(f, t, weight) ==
    /\ MayFlag(f, t)
    /\ ~Overlocked(t)
    /\ DOMAIN weight # {}
    /\ Cardinality(DOMAIN weight) <= config.reviewerCount
    /\ DOMAIN weight \cap {f, t} = {}
    /\ LET atRisk == StakeAtRisk(config, books.staked[t])
           locks  == [books.locked EXCEPT ![t] = @ + atRisk, ![f] = @ + config.flagStake]
           locked == [books EXCEPT !.locked = locks]
           capped == CapWeights(weight)
       IN  /\ locked.staked[f] >= MinimumStakeOf(locked, f, Open(f))
           /\ Commit(locked)
           /\ flags' = [flags EXCEPT ![t] =
                [phase |-> "review", flagger |-> f, atRisk |-> atRisk,
                 flagStake |-> config.flagStake,
                 flaggerReward |-> config.flaggerReward,
                 reviewerReward |-> config.reviewerReward,
                 state |-> [v \in Voters |-> IF v \in DOMAIN weight THEN capped[v] ELSE 0],
                 votesFor |-> 0, votesAgainst |-> 0,
                 total |-> SumFunction(capped)]]
    /\ UNCHANGED <<config, protected, doublePaid>>

-----------------------------------------------------------------------------
(* Voting and resolution *)

UnlockWithoutForfeited(b, o, amount) ==
    [b EXCEPT !.locked[o] = IF @ >= amount THEN @ - amount ELSE 0]

UnlockForgetsRemnant(b, o, amount) ==
    IF b.locked[o] >= amount
    THEN [b EXCEPT !.locked[o] = @ - amount]
    ELSE [b EXCEPT !.forfeited = @ - (amount - b.locked[o])]

\* Unlock an amount of an operator's stake; what the lock does not cover any
\* more (the operator was removed meanwhile) comes out of the forfeited stake.
Unlock(b, o, amount) ==
    IF b.locked[o] >= amount
    THEN [b EXCEPT !.locked[o] = @ - amount]
    ELSE [b EXCEPT !.locked[o] = 0, !.forfeited = @ - (amount - b.locked[o])]

\* History: an uncovered lock that is not empty either is unlocked in full
\* while the whole amount leaves the contract, so its tokens are paid twice.
Remnant(b, o, amount) == IF b.locked[o] >= amount THEN 0 ELSE b.locked[o]

SlashTargetAnyway(b, t, flag, terms) ==
    IF t \in b.joined THEN Kick(Unlock(b, t, flag.atRisk), t, flag.atRisk, terms)
    ELSE Unlock(b, t, flag.atRisk)

\* The target is slashed and kicked, unless it has left and paid by forfeiting.
SlashTarget(b, t, flag, terms) ==
    IF b.locked[t] >= flag.atRisk
    THEN Kick(Unlock(b, t, flag.atRisk), t, flag.atRisk, terms)
    ELSE Unlock(b, t, flag.atRisk)

\* _handleKick.  paid are the parties whose reward transfer succeeds.
HandleKick(b, t, flag, terms, paid) ==
    LET slashed == SlashTarget(b, t, flag, terms)
        flaggerCovered == slashed.locked[flag.flagger] >= flag.flagStake
        rewards == (IF flaggerCovered /\ flag.flagger \in paid THEN flag.flaggerReward ELSE 0)
                       + Cardinality(paid \ {flag.flagger}) * flag.reviewerReward
    IN  [books |-> [Unlock(slashed, flag.flagger, flag.flagStake) EXCEPT
                      !.balance = @ - flag.atRisk
                                    - IF flaggerCovered THEN 0 ELSE flag.flagStake],
         payable |-> rewards <= flag.atRisk /\ (b.locked[t] >= flag.atRisk => t \in b.joined),
         doublePaid |-> Remnant(b, t, flag.atRisk)
                          + Remnant(slashed, flag.flagger, flag.flagStake)]

\* _handleNoKick
HandleNoKick(b, t, flag, paid) ==
    LET covered  == b.locked[t] >= flag.atRisk
        released == Unlock(b, t, flag.atRisk)
        rewards  == Cardinality(paid \ {flag.flagger}) * flag.reviewerReward
        flaggerCovered == released.locked[flag.flagger] >= flag.flagStake
        unlocked == Unlock(released, flag.flagger, flag.flagStake)
        charged  == IF flaggerCovered THEN ReduceStakeBy(unlocked, flag.flagger, rewards)
                    ELSE unlocked
    IN  [books |-> [charged EXCEPT
                      !.balance = @ - (IF covered THEN 0 ELSE flag.atRisk)
                                    - IF flaggerCovered THEN rewards ELSE flag.flagStake],
         payable |-> flaggerCovered \/ rewards <= flag.flagStake,
         doublePaid |-> Remnant(b, t, flag.atRisk)
                          + Remnant(released, flag.flagger, flag.flagStake)]

Verdict(flag) == IF flag.votesFor > flag.votesAgainst THEN VotedKick ELSE VotedNoKick

Settlement(b, t, flag, terms, paid) ==
    IF Verdict(flag) = VotedKick THEN HandleKick(b, t, flag, terms, paid)
    ELSE HandleNoKick(b, t, flag, paid)

\* safeSendRewards: the flagger and the reviewers who voted for the verdict are
\* paid, except for those whose contract refuses the tokens.
PaidSets(flag) ==
    LET due == {flag.flagger} \cup {v \in Voters : flag.state[v] = Verdict(flag)}
    IN  {paid \in SUBSET due : due \ Refusing \subseteq paid}

\* _endVote: settle, pay the rewards, forget the flag.
EndVote(t, flag) ==
    /\ flags' = [flags EXCEPT ![t] = NoFlag]
    /\ protected' = IF Verdict(flag) = VotedKick THEN protected ELSE protected \cup {t}
    /\ UNCHANGED config
    /\ \E terms \in LeaveTermsOf(t), paid \in PaidSets(flag) :
         \E s \in {Settlement(books, t, flag, terms, paid)} :
            /\ s.payable
            /\ Commit(s.books)
            /\ doublePaid' = doublePaid + s.doublePaid
            /\ doublePaid' <= MaxDoublePaid

CastOneVote(flag, v, kick) ==
    [flag EXCEPT !.state[v] = IF kick THEN VotedKick ELSE VotedNoKick,
                 !.votesFor = IF kick THEN @ + 1 ELSE @,
                 !.votesAgainst = IF kick THEN @ ELSE @ + 1]

CastVote(flag, v, kick) ==
    [flag EXCEPT !.state[v] = IF kick THEN VotedKick ELSE VotedNoKick,
                 !.votesFor = IF kick THEN @ + flag.state[v] ELSE @,
                 !.votesAgainst = IF kick THEN @ ELSE @ + flag.state[v]]

AllVoted(flag) == flag.votesFor + flag.votesAgainst = flag.total

\* onVote by a reviewer in the voting period; the last vote ends the voting.
Vote(t, v, kick) ==
    /\ flags[t].phase = "voting"
    /\ flags[t].state[v] > 0
    /\ LET voted == CastVote(flags[t], v, kick)
       IN  \/ AllVoted(voted) /\ EndVote(t, voted)
           \/ /\ ~AllVoted(voted)
              /\ flags' = [flags EXCEPT ![t] = voted]
              /\ UNCHANGED <<books, config, protected, doublePaid>>

EndVotingPeriodWithQuorum(t) ==
    /\ flags[t].phase = "ended"
    /\ AllVoted(flags[t])
    /\ EndVote(t, flags[t])

\* onVote after the voting period: anyone's call ends the voting.
EndVotingPeriod(t) == flags[t].phase = "ended" /\ EndVote(t, flags[t])

-----------------------------------------------------------------------------
(* Time passing, and the administrator *)

PhaseEnds(t) ==
    /\ flags[t].phase \in {"review", "voting"}
    /\ flags' = [flags EXCEPT ![t].phase = IF @ = "review" THEN "voting" ELSE "ended"]
    /\ UNCHANGED <<books, config, protected, doublePaid>>

ProtectionEnds(t) ==
    /\ t \in protected
    /\ protected' = protected \ {t}
    /\ UNCHANGED <<books, config, flags, doublePaid>>

ChangeConfig(c) ==
    /\ config' = c
    /\ UNCHANGED <<books, flags, protected, doublePaid>>

Next ==
    \/ \E amount \in SponsorAmounts : PlainTransfer(amount)
    \/ \E amount \in SponsorAmounts \cup {0} : Sponsor(amount)
    \/ \E o \in Operators, amount \in StakeAmounts : Stake(o, amount)
    \/ \E o \in Operators, target \in StakeAmounts : ReduceStakeTo(o, target)
    \/ \E o \in Operators, earnings \in 1 .. books.pool :
         \E accepted \in Accepts(o) : Withdraw(o, earnings, accepted)
    \/ \E o \in Operators : \E terms \in LeaveTermsOf(o) : Unstake(o, terms)
    \/ \E o \in Operators : \E terms \in LeaveTermsOf(o) : ForceUnstake(o, terms)
    \/ \E f \in Flaggers, t \in Operators : \E terms \in LeaveTermsOf(t) : FlagKicks(f, t, terms)
    \/ \E f \in Flaggers, t \in Operators, R \in SUBSET Voters :
         \E weight \in [R -> Weights] : Flag(f, t, weight)
    \/ \E t \in Operators, v \in Voters, kick \in BOOLEAN : Vote(t, v, kick)
    \/ \E t \in Operators : EndVotingPeriod(t)
    \/ \E t \in Operators : PhaseEnds(t)
    \/ \E t \in Operators : ProtectionEnds(t)
    \/ \E c \in Configs : ChangeConfig(c)

Spec == Init /\ [][Next]_vars

\* Time passes, and someone ends the voting when its period is over.
Fairness == \A t \in Operators : WF_vars(PhaseEnds(t)) /\ WF_vars(EndVotingPeriod(t))

FairSpec == Spec /\ Fairness

-----------------------------------------------------------------------------
(* Properties *)

\* The votes and their weights are left open here: VotesAddUp is about them.
FlagType(flag) ==
    /\ flag \in [phase : {"none", "review", "voting", "ended"},
                flagger : Operators \cup {NoOne},
                atRisk : Nat, flagStake : Nat, flaggerReward : Nat, reviewerReward : Nat,
                state : {flag.state}, votesFor : {flag.votesFor},
                votesAgainst : {flag.votesAgainst}, total : {flag.total}]
    /\ DOMAIN flag.state = Voters
    /\ flag.phase # "none" => flag.flagger \in Operators

\* Every variable has its type; no account of the Sponsorship is negative.
TypeOK ==
    /\ books \in Books
    /\ Commits(books)
    /\ config \in Configs
    /\ flags = [t \in Operators |-> flags[t]]
    /\ \A t \in Operators : FlagType(flags[t])
    /\ protected \subseteq Operators
    /\ doublePaid \in Nat

\* The tokens held cover every account, except for what the history variable
\* counts: the locks that Unlock() releases although their tokens are sent out.
SolventUpToDoublePay == Owed(books) <= books.balance + doublePaid

\* "It's important that whenever tokens are moved out (or unaccounted tokens
\* detected) that they be accounted for" (Sponsorship.sol:40).
Solvent == Owed(books) <= books.balance

OpenFlags == {t \in Operators : Open(t)}

\* What open flags still need from an operator, as target and as flagger.
DueFrom(o) ==
    LET flaggedByIt == [t \in {u \in OpenFlags : flags[u].flagger = o} |-> flags[t].flagStake]
    IN  (IF Open(o) THEN flags[o].atRisk ELSE 0) + SumFunction(flaggedByIt)

\* Locked and forfeited stake are together exactly what the open flags need, and
\* no operator has more locked than its flags need: nothing stays locked for a
\* flag that is over, and forfeitedStakeWei is zero without active flags.
LocksMatchFlags ==
    /\ \A o \in Operators : books.locked[o] <= DueFrom(o)
    /\ SumFunction(books.locked) + books.forfeited
         = SumFunction([o \in Operators |-> DueFrom(o)])

\* The redundant bookkeeping agrees: an operator is joined iff it has stake, the
\* totals are the sums, and nobody's stake falls below what is locked of it.
StakesAgree ==
    /\ books.joined = {o \in Operators : books.staked[o] > 0}
    /\ books.operatorCount = Cardinality(books.joined)
    /\ books.totalStaked = SumFunction(books.staked)
    /\ \A o \in Operators : books.locked[o] <= books.staked[o]

\* The votes cast and the weights still to vote add up to the total weight, so
\* that the voting ends early exactly when everyone has voted.
VotesAddUp ==
    \A t \in OpenFlags :
        LET waiting == {v \in Voters : flags[t].state[v] > 0}
        IN  /\ flags[t].votesFor + flags[t].votesAgainst
                 + SumFunction([v \in waiting |-> flags[t].state[v]]) = flags[t].total
            /\ waiting # {}

\* "no voter should decide the vote alone (among >2 voters)": every vote still to
\* be cast weighs less than the other votes together (VoteKickPolicy.sol:166).
NoVoterDecidesAlone ==
    \A t \in OpenFlags : Cardinality(ReviewersOf(flags[t])) > 2 =>
        \A v \in Voters : flags[t].state[v] > 0 =>
            flags[t].state[v] < flags[t].total - flags[t].state[v]

\* At any time every open flag could be settled, whatever the votes and whoever
\* accepts its rewards: no subtraction underflows and the payouts are covered.
FlagsCanBeSettled ==
    doublePaid = 0 =>
    \A t \in OpenFlags : \A terms \in LeaveTermsOf(t), verdict \in {VotedKick, VotedNoKick} :
        LET paid == ReviewersOf(flags[t]) \cup {flags[t].flagger}
            s == IF verdict = VotedKick THEN HandleKick(books, t, flags[t], terms, paid)
                 ELSE HandleNoKick(books, t, flags[t], paid)
        IN  s.payable /\ Commits(s.books)

\* Settling a flag touches only its two parties.  A target that is not removed
\* loses nothing, one that has forfeited its lock already is not removed, and a
\* flagger loses at most the stake it put on the flag.
SettlementIsBounded ==
    [][\A t \in Operators : (Open(t) /\ ~Open(t)') =>
         /\ \A o \in Operators \ {t, flags[t].flagger} :
              books'.staked[o] = books.staked[o] /\ books'.locked[o] = books.locked[o]
         /\ books'.staked[t] \in {0, books.staked[t]}
         /\ books.locked[t] < flags[t].atRisk => books'.staked[t] = books.staked[t]
         /\ books'.staked[flags[t].flagger] + flags[t].flagStake
              >= books.staked[flags[t].flagger]]_vars

\* Every flag is resolved in the end.
FlagsAreResolved == \A t \in Operators : Open(t) ~> ~Open(t)

\* The accounts implement the abstract ledger, counting double payments as held.
Ledger == INSTANCE TokenLedger WITH
            held <- books.balance + doublePaid, owed <- Owed(books)
LedgerSpec == Ledger!Spec

=============================================================================
