CONSTANTS
    owner = owner
    d1 = d1
    s1 = s1
    c1 = c1
    n1 = n1
    n2 = n2
    n3 = n3
    Holders = {owner, d1}
    Owner = owner
    Sponsorships = {s1}
    Ether = 4
    MinimumDelegation = 20
    SelfFraction = 1
    FeeFraction = 0
    AllowedEarningsFraction = 1
    FishermanFraction = 2
    VoterThreshold = 30
    Cuts = {0, 2}
    DataAmounts = {20}
    Undelegations = {20}
    EarningAmounts = {17}
    SlashAmounts = {28}
    MaxIncome = 60
    MaxUndelegations = 3
    MaxDepartures = 1
    NodeAddresses = {n1, n2, n3}
    Accounts = {owner, c1}
    AccountOwner = owner
    MaxListed = 2
SPECIFICATION ContractSpec
INVARIANTS StakesAgree DelegationsShown AccountsShown EarningsWithinProfits QueueIsPaidUnlessRich NodesArePublishers
  
