CONSTANTS
    o1 = o1
    o2 = o2
    o3 = o3
    r1 = r1
    r2 = r2
    r3 = r3
    NoOne = NoOne
    Ether = 4
    Operators = {o1, o2}
    Flaggers = {o1}
    Voters = {r1, r2, r3}
    Configs <- Changing
    MinOperatorCount = 1
    MaxOperatorCount = 2
    Weights = {1, 3}
    StakeAmounts = {16}
    SponsorAmounts = {}
    MaxStake = 16
    MaxSponsorship = 0
    MaxDoublePaid = 0
    Refusing = {r1, o1}
SPECIFICATION FairSpec
INVARIANTS VotesAddUp NoVoterDecidesAlone FlagsCanBeSettled
PROPERTIES FlagsAreResolved
