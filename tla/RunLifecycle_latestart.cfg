SPECIFICATION Spec

CONSTANTS
    Procs = {p1, p2}
    Runs = {r1}
    EmptyInputs = noInputs
    Inputs = {noInputs, someInputs}
    Null = Null
    RequiredRole = 1
    AdapterRenders = TRUE
    ReadsMayFail = FALSE
    MaxLog = 9
    MaxPlans = 1
    MaxResults = 1
    MaxExceptions = 1

SYMMETRY ProcSymmetry

PROPERTIES
    InputChangeInvalidates
