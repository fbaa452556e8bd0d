SPECIFICATION Spec
CONSTANTS
    k1 = k1
    k2 = k2
    p1 = p1
    p2 = p2
    m1 = m1
    m2 = m2
    None = None
    Unparsable = Unparsable
    KeyIds = {k1, k2}
    PolicyIds = {p1, p2}
    Materials = {m1, m2}
    Contents <- MCContents
    Malformed <- MCMalformed
    TrustFiles <- MCTrustFiles
    PolicyFiles <- MCPolicyFiles
    KeyChanges <- MCKeyChanges
    PolicyChanges <- MCPolicyChanges
    Modes <- MCModes
    MaxRecords = 3
    MaxMishaps = 1
INVARIANTS WholeLogIsIssuedLog AcceptedWasSigned IntactLogPasses
PROPERTIES AcceptsByVerifiedRole
CHECK_DEADLOCK FALSE
