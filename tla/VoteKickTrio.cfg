CONSTANTS
    o1 = o1
    o2 = o2
    o3 = o3
    r1 = r1
    r2 = r2
    r3 = r3
    NoOne = NoOne
    Ether = 4
    Operators = {o1, o2, o3}
    Flaggers = {o1, o2, o3}
    Voters = {r1, o1}
    Configs <- OnlyOneReviewer
    MinOperatorCount = 1
    MaxOperatorCount = 3
    Weights = {1}
    StakeAmounts = {8}
    SponsorAmounts = {1}
    MaxStake = 8
    MaxSponsorship = 0
    MaxDoublePaid = 2
    Refusing = {r1}
SPECIFICATION Spec
INVARIANTS LocksMatchFlags
 
