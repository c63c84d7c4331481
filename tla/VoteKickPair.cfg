CONSTANTS
    o1 = o1
    o2 = o2
    o3 = o3
    r1 = r1
    r2 = r2
    r3 = r3
    NoOne = NoOne
    Ether = 4
    Operators = {o1, o2}
    Flaggers = {o1, o2}
    Voters = {r1}
    Configs <- OnlyOneReviewer
    MinOperatorCount = 1
    MaxOperatorCount = 2
    Weights = {1}
    StakeAmounts = {8, 12}
    SponsorAmounts = {1}
    MaxStake = 12
    MaxSponsorship = 1
    MaxDoublePaid = 2
    Refusing = {}
SPECIFICATION Spec
SYMMETRY OperatorSymmetry
INVARIANTS TypeOK SolventUpToDoublePay LocksMatchFlags StakesAgree FlagsCanBeSettled
PROPERTIES LedgerSpec
