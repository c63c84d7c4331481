CONSTANTS
    alice = alice
    bob = bob
    public = public
    s1 = s1
    n1 = n1
    m1 = m1
    empty = empty
    nobody = nobody
    Streams = {s1}
    Users = {alice, bob}
    Public = public
    Nodes = {}
    Metadata = {m1}
    NoMetadata = empty
    NoOwner = nobody
    GrantTypes = {"Publish"}
    MaxTime = 1
    MaxVersion = 2
    MaxChanges = 0
    MaxRequests = 3
    MaxCrashes = 2
    MaxTransfers = 1
SPECIFICATION Spec
PROPERTIES  RequestsAreHandled
CHECK_DEADLOCK FALSE
