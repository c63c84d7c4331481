CONSTANTS
    o1 = o1
    o2 = o2
    r1 = r1
    r2 = r2
    NoOne = NoOne
    Ether = 4
    Operators = {o1, o2}
    Flaggers = {o1}
    Voters = {r1, r2}
    Configs <- HarsherTwo
    MinOperatorCount = 2
    MaxOperatorCount = 2
    Weights = {1}
    StakeAmounts = {12, 14}
    SponsorAmounts = {1}
    MaxStake = 14
    MaxSponsorship = 1
    MaxDoublePaid = 0
    Refusing = {}
    MaxFlags = 2
    MaxSponsoring = 1
SPECIFICATION IndexedSpec
INVARIANTS StakesShown TotalsShown FlagsShown
