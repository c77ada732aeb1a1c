SPECIFICATION SpecSends

CONSTANTS
    Procs = {p1, p2}
    Channels = {"dm"}
    Guards <- Jittered
    DryRuns = {}
    DayLength = 9
    MaxTime = 6
    Lateness = 0
    MaxAdmissions = 3
    MaxSends = 3

INVARIANTS
    SafeSending

CHECK_DEADLOCK FALSE
