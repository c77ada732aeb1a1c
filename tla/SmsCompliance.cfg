SPECIFICATION Spec

CONSTANTS
    v = v
    w = w
    Workers <- TwoWorkers
    Pairs = {circle, hub}
    MaxCalls = 4

INVARIANTS
    StopStands
    StartLifts

SYMMETRY Alike

CHECK_DEADLOCK FALSE
