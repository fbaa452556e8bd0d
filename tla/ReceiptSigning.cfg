SPECIFICATION Spec
CONSTANTS
    k1 = k1
    k2 = k2
    legal = legal
    tech = tech
    this = this
    that = that
    j1 = j1
    j2 = j2
    j3 = j3
    Kids <- MCKids
    Roles <- MCRoles
    Contents = {this, that}
    None = None
    Nobody = Nobody
    Jobs = {j1, j2, j3}
    KeyOf <- TwiceKeyOf
    RoleOf <- TwiceRoleOf
    Drafts <- TwoDrafts
    TrustRegistry <- MCRegistry
    Mishaps <- AllMishaps
SYMMETRY Symmetry
INVARIANTS TypeOK NoKeyTwice VerifiedIsApproved SignedEnoughPasses
PROPERTIES SigningBindsCurrent
CHECK_DEADLOCK FALSE
