SPECIFICATION Spec
CONSTANTS
    g1 = g1
    g2 = g2
    c1 = c1
    c2 = c2
    curl = curl
    api = api
    cdn = cdn
    Goroutine = {g1, g2}
    Command = {c1, c2}
    Key = {curl}
    Host = {api, cdn}
    Found <- MCFound
    MaxJobs = 3
    None = None
SYMMETRY MCSymmetry
INVARIANTS
    LiveIsDurable
    ReviewKeepsHosts
PROPERTIES
    AtomicStores
CHECK_DEADLOCK FALSE
