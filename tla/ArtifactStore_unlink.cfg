SPECIFICATION Spec
CONSTANTS
    c1 = c1
    c2 = c2
    c3 = c3
    n1 = n1
    Calls = {c1, c2}
    Names = {n1}
    NameOf <- PairNames
    Wants <- PairWants
    Earlier = Earlier
    Nobody = Nobody
    Faults <- UnlinkFails
INVARIANT OneArtifactSet
CHECK_DEADLOCK FALSE
