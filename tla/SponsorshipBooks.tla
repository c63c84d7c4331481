-------------------------- MODULE SponsorshipBooks --------------------------
(***************************************************************************)
(* The accounts of one Sponsorship contract and the internal functions of  *)
(* Sponsorship.sol that move tokens between them.  Each operator takes the *)
(* books before the call and returns the books after it, so that a handler *)
(* is a pipeline of calls in the order the code makes them.                *)
(*                                                                         *)
(* The tokens the contract holds (balance) belong to three accounts:       *)
(* totalStaked, forfeited and pool, where pool stands for the two          *)
(* accounts remainingWei + earningsWei that the allocation policy shifts   *)
(* tokens between.  Whatever else is held is unaccounted for until the     *)
(* next _addSponsorship sweeps it into the pool.                           *)
(***************************************************************************)
EXTENDS Integers

CONSTANT Operators    \* the operator contracts that may stake

Books ==
    [staked : [Operators -> Nat],      \* stakedWei
     locked : [Operators -> Nat],      \* lockedStakeWei
     joined : SUBSET Operators,        \* joinTimeOfOperator is not zero
     forfeited : Int,                  \* forfeitedStakeWei
     totalStaked : Int,                \* totalStakedWei
     operatorCount : Int,
     pool : Int,                       \* remainingWei + earningsWei
     balance : Int]                    \* token.balanceOf(this)

EmptyBooks ==
    [staked |-> [o \in Operators |-> 0], locked |-> [o \in Operators |-> 0],
     joined |-> {}, forfeited |-> 0, totalStaked |-> 0,
     operatorCount |-> 0, pool |-> 0, balance |-> 0]

\* What the contract owes: stakes, sponsorship and earnings, forfeited stakes.
Owed(b) == b.totalStaked + b.pool + b.forfeited

\* uint subtraction is checked: a transaction that would take an account below
\* zero, or send tokens the contract does not hold, is reverted as a whole.
Commits(b) ==
    /\ b.balance >= 0
    /\ b.totalStaked >= 0
    /\ b.pool >= 0
    /\ b.forfeited >= 0
    /\ b.operatorCount >= 0

Smaller(x, y) == IF x < y THEN x ELSE y

\* How much _reduceStakeBy takes: never below the locked stake.
Reduction(b, o, amount) ==
    IF b.locked[o] >= b.staked[o] THEN 0
    ELSE Smaller(amount, b.staked[o] - b.locked[o])

ReduceStakeButNotTotal(b, o, amount) ==
    [b EXCEPT !.staked[o] = @ - Reduction(b, o, amount)]

\* _reduceStakeBy, and _slash, which adds only the callback to the operator.
ReduceStakeBy(b, o, amount) ==
    LET taken == Reduction(b, o, amount)
    IN  [b EXCEPT !.staked[o] = @ - taken, !.totalStaked = @ - taken]

\* try token.transferAndCall(...) catch {}: what is sent of an amount, given the
\* balance; a recipient that reverts leaves the tokens in the contract.
Sent(amount, balance, accepted) == IF accepted /\ amount <= balance THEN amount ELSE 0

\* _withdraw: the allocation policy pays out the operator's earnings.
WithdrawEarnings(b, earnings, accepted) ==
    [b EXCEPT !.pool = @ - earnings, !.balance = @ - Sent(earnings, @, accepted)]

\* What a leaving operator meets: the penalty that applies, its earnings as
\* long as it still has stake, and which of the two payouts it accepts.
LeaveTerms == [penalty : Nat, earnings : Nat, takesEarnings : BOOLEAN, takesStake : BOOLEAN]

\* What _removeOperator moves from the locked stake to forfeitedStakeWei; the
\* stake is unlocked first, or else it could not be slashed.
ForfeitsNothing(b, o) == 0
ForfeitsBeforeUnlocking(b, o) == Reduction(b, o, b.locked[o])
Forfeits(b, o) == Smaller(b.locked[o], b.staked[o])

\* _removeOperator: forfeit the locked stake, slash the leave penalty and send
\* it to the beneficiary, then pay out the earnings and the stake that is left.
RemoveOperator(b, o, terms) ==
    LET penalty   == Smaller(terms.penalty, b.staked[o] - Forfeits(b, o))
        stake     == b.staked[o] - Forfeits(b, o) - penalty
        earnings  == IF stake = 0 THEN 0 ELSE terms.earnings
        punished  == b.balance - penalty
        withdrawn == punished - Sent(earnings, punished, terms.takesEarnings)
    IN  [b EXCEPT !.staked[o] = 0,
                  !.locked[o] = 0,
                  !.joined = @ \ {o},
                  !.operatorCount = @ - 1,
                  !.totalStaked = @ - b.staked[o],
                  !.forfeited = @ + Forfeits(b, o),
                  !.pool = @ - earnings,
                  !.balance = withdrawn - Sent(stake, withdrawn, terms.takesStake)]

\* _kick
Kick(b, o, slashing, terms) == RemoveOperator(ReduceStakeBy(b, o, slashing), o, terms)

=============================================================================
