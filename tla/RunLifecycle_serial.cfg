SPECIFICATION Spec

CONSTANTS
    Procs = {p1}
    Runs = {r1}
    EmptyInputs = noInputs
    Inputs = {noInputs, someInputs}
    Null = Null
    RequiredRole = 1
    AdapterRenders = TRUE
    ReadsMayFail = TRUE
    MaxLog = 10
    MaxPlans = 2
    MaxResults = 3
    MaxExceptions = 2

INVARIANTS
    LogIsHistory
    OutcomeIsLatest
    ApprovalBindsInputs
    PlanCarriesApproval
    ExceptionNamesRole
PROPERTIES
    StatusForward
