SPECIFICATION VerifiersSpec
CONSTANTS
    k1 = k1
    k2 = k2
    k3 = k3
    legal = legal
    tech = tech
    this = this
    that = that
    Kids <- MCKids
    Roles <- MCRoles
    Contents = {this, that}
    None = None
    Nobody = Nobody
    Receipts <- MCReceipts
    Registries <- MCRegistries
    Workflows <- MCWorkflows
    Paths <- MCPaths
    Committed <- MCCommitted
    MaxChanges = 3
    GoLogs <- MCGoLogs
    Genesis = Genesis
    CallRequests <- MCCallRequests
    Printed <- MCPrinted
    MaxCalls = 2
    Waiting = Waiting
    Raised = Raised
INVARIANTS VerdictIsAccepted QuorumIsDistinct
           FailClosed AcceptsHouseStyle
           EvidenceIsOfTheCommit
           FirstFaultIsFirstBreak PassedOverIsNoLink
PROPERTIES ImplementsDigestSigner
CHECK_DEADLOCK FALSE
