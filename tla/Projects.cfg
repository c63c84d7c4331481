CONSTANTS
    alice = alice
    bob = bob
    zero = zero
    p1 = p1
    s1 = s1
    s2 = s2
    d1 = d1
    Projs = {p1}
    Users = {alice, bob}
    Public = zero
    Streams = {s1, s2}
    StreamLists <- Lists
    Domains = {d1}
    Prices = {0, 1}
    LocalDomain = d1
    MaxDay = 2
    MaxStake = 2
    MaxCalls = 3
SPECIFICATION Spec
INVARIANTS ProjectsShown ProjectStakesShown
SYMMETRY Symmetry
CHECK_DEADLOCK FALSE
