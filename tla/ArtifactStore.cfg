SPECIFICATION Spec
CONSTANTS
    c1 = c1
    c2 = c2
    c3 = c3
    n1 = n1
    Calls = {c1, c2, c3}
    Names = {n1}
    NameOf <- RivalNames
    Wants <- RivalWants
    Earlier = Earlier
    Nobody = Nobody
    Faults <- AllFaults
INVARIANTS ManifestVouches AllOrNothing NoTempLeft SomeCallWins
PROPERTIES NoClobber
CHECK_DEADLOCK FALSE
