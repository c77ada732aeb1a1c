SPECIFICATION Spec

CONSTANTS
    Procs = {p1, p2}
    Channels = {"dm", "group", "direct"}
    Guards <- SharedGuards
    DryRuns = {"direct"}
    DayLength = 2
    MaxTime = 3
    Lateness = 3
    MaxAdmissions = 3

SYMMETRY ProcSymmetry

INVARIANTS
    TypeOK
    DailyQuota
    RecordSpacing
    RefusalJustified
