CONSTANTS
    alice = alice
    bob = bob
    public = public
    s1 = s1
    n1 = n1
    n2 = n2
    n3 = n3
    zero = zero
    m1 = m1
    empty = empty
    Streams = {s1}
    Users = {alice, bob}
    Public = public
    Nodes = {n1}
    Metadata = {m1}
    NoMetadata = empty
    GrantTypes = {"Publish"}
    MaxTime = 2
    MaxVersion = 2
    MaxChanges = 2
    NodeAccounts = {n1, n2, n3}
    ZeroAddress = zero
SPECIFICATION RegistriesSpec
INVARIANTS PermissionsAreGiven StreamsShown StorageNodesShown NodesAreListed
SYMMETRY Symmetry
