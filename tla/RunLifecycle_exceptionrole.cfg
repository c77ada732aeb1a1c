SPECIFICATION Spec

CONSTANTS
    Procs = {p1}
    Runs = {r1}
    EmptyInputs = noInputs
    Inputs = {noInputs, someInputs}
    Null = Null
    RequiredRole = 1
    AdapterRenders = TRUE
    ReadsMayFail = TRUE
    MaxLog = 9
    MaxPlans = 1
    MaxResults = 1
    MaxExceptions = 1

INVARIANTS
    ExceptionOutranksApproval
