SPECIFICATION Spec

CONSTANTS
    Procs = {p1, p2}
    Runs = {r1}
    EmptyInputs = noInputs
    Inputs = {noInputs}
    Null = Null
    RequiredRole = 2
    AdapterRenders = TRUE
    ReadsMayFail = TRUE
    MaxLog = 8
    MaxPlans = 1
    MaxResults = 1
    MaxExceptions = 1

SYMMETRY ProcSymmetry

INVARIANTS
    TypeOK
    ApprovalGate
    OutcomeEvidence
    LogCoversStatus
    LogOrdered
    RecordHasNoGap
PROPERTIES
    ImplementsContract
