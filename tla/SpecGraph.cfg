SPECIFICATION Spec

CONSTANTS
    Names = {a, b, c}
    Policies = {p}
    NumFiles <- ThreeAndOne
    MaxDeps = 2

SYMMETRY Symmetric

INVARIANTS
    StackBounded
    AnswerTrue

CHECK_DEADLOCK FALSE
