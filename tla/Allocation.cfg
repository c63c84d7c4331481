CONSTANTS
    o1 = o1
    o2 = o2
    o3 = o3
    Operators = {o1, o2, o3}
    MinOperatorCount = 2
    IncomePerSecond = 3
    Scale = 10000
    RoundUp = 100
    Stakes = {1, 2}
    SponsorAmounts = {2}
    FairScale = 60
    MaxElapsed = 2
    MaxSponsored = 4
SPECIFICATION Spec
SYMMETRY OperatorSymmetry
INVARIANTS TypeOK EarningsAreFair EarningsAreCovered EarningsReachOperators UpdatesAreTimely
