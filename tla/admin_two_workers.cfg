CONSTANTS
    Requests = {r1, r2}
    Workers = {w1, w2}
    Bodies <- MCCrossingBodies
    Value <- MCValue
    Unset = Unset
SPECIFICATION ApartSpec
CHECK_DEADLOCK FALSE
PROPERTIES
    EditsAreAtomic
    EveryPutAnswered
