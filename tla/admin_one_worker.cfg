CONSTANTS
    Requests = {r1, r2}
    Workers = {w1}
    Bodies <- MCBodies
    Value <- MCValue
    Unset = Unset
SPECIFICATION Spec
CHECK_DEADLOCK FALSE
INVARIANTS
    DocTypeOK
    ErrorChangesNothing
PROPERTIES
    EditsAreAtomic
    SameEditAsTestStore
    UpdatedAtAdvances
