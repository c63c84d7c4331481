---------------------------- MODULE ConfigRules ----------------------------
(***************************************************************************)
(* The arithmetic of StreamrConfig that the sponsorship contracts depend   *)
(* on: fractions are integers scaled by Ether (100% = Ether, 1e18 in the   *)
(* code), divisions round up, and the minimum stake is derived from the    *)
(* rewards a flag may have to pay.                                         *)
(***************************************************************************)
EXTENDS Integers

CONSTANT Ether    \* the code's "1 ether", the scale of every fraction

ASSUME EtherAssumption == Ether \in Nat \ {0}

\* A configuration: the parameters that flagging, slashing and leaving read.
Config ==
    [slashingFraction : 1 .. (Ether - 1), flaggerReward : Nat, reviewerReward : Nat,
     reviewerCount : Nat \ {0}, flagStake : Nat, leavePenalty : Nat]

\* x / fraction, rounding up.
DivByFraction(x, fraction) == (x * Ether + fraction - 1) \div fraction

\* What a flag pays at most: the flagger and every reviewer.
TotalRewards(c) == c.flaggerReward + c.reviewerCount * c.reviewerReward

\* minimumStakeWei(): the stake whose slashing pays for a KICK.
MinimumStake(c) == DivByFraction(TotalRewards(c), c.slashingFraction)

\* The lower limit setFlagStakeWei() enforces when it is called.
MinimumFlagStake(c) ==
    DivByFraction(c.reviewerCount * c.reviewerReward, Ether - c.slashingFraction)

\* slashingFraction of the stake, but never of less than the minimum stake.
StakeAtRisk(c, stake) ==
    LET larger == IF stake > MinimumStake(c) THEN stake ELSE MinimumStake(c)
    IN  (larger * c.slashingFraction) \div Ether

=============================================================================
