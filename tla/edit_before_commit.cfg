CONSTANTS
    Requests = {r1, r2}
    Workers = {w1}
    Bodies <- MCDocBodies
    Value <- MCValue
    Unset = Unset
SPECIFICATION Spec
CHECK_DEADLOCK FALSE
INVARIANTS
    EditObservable
