---------------------------- MODULE MCVoteKick ----------------------------
(* Small instances of VoteKick for TLC. *)
EXTENDS VoteKick, TLC

CONSTANTS o1, o2, o3, r1, r2, r3

\* 25% slashing, one reviewer paid 1, the flagger paid 1: the minimum stake is
\* 8, and a flag stake of 2 is the least setFlagStakeWei accepts.
OneReviewer == [slashingFraction |-> 1, flaggerReward |-> 1, reviewerReward |-> 1,
                reviewerCount |-> 1, flagStake |-> 2, leavePenalty |-> 7]

\* The same with three reviewers: minimum stake 16, flag stake 4.
ThreeReviewers == [OneReviewer EXCEPT !.reviewerCount = 3, !.flagStake = 4]

\* Half is slashed and flaggers are paid so much that a stake of 16 cannot
\* cover what a flag puts at risk.
HighRewards == [ThreeReviewers EXCEPT !.slashingFraction = 2, !.flaggerReward = 14,
                                      !.flagStake = 6]

OnlyOneReviewer == {OneReviewer}
Changing == {ThreeReviewers, HighRewards}
OperatorSymmetry == Permutations(Operators)
=============================================================================
