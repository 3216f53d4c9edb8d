SPECIFICATION Spec
CHECK_DEADLOCK FALSE
CONSTANTS
    Requests <- AllRoutes
    Received = {1, 2, 7}
    Held = 3
INVARIANTS
    TypeOK
    BuiltRoutesAccepted
    LegsArriveAsBuilt
    FeeMintFound
