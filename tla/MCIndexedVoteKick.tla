-------------------------- MODULE MCIndexedVoteKick --------------------------
(* Small instances of IndexedVoteKick for TLC. *)
EXTENDS IndexedVoteKick, TLC

CONSTANTS o1, o2, r1, r2

\* 25% slashing, one reviewer paid 1, the flagger paid 1: the minimum stake is
\* 8, and a flag stake of 2 is the least setFlagStakeWei accepts.
OneReviewer == [slashingFraction |-> 1, flaggerReward |-> 1, reviewerReward |-> 1,
                reviewerCount |-> 1, flagStake |-> 2, leavePenalty |-> 7]

\* The same with two reviewers: the minimum stake is 12, the flag stake 3.
TwoReviewers == [OneReviewer EXCEPT !.reviewerCount = 2, !.flagStake = 3]

\* 75% slashing and a generous flagger reward: the minimum stake is 17 1/3, so 18
\* in the contract and 17 in the store, and a stake of 12 cannot cover the 13 that
\* a flag puts at risk.
Harsh == [OneReviewer EXCEPT !.slashingFraction = 3, !.flaggerReward = 12, !.flagStake = 4]

HarsherTwo == {TwoReviewers, Harsh}
=============================================================================
