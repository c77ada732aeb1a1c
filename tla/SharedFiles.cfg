SPECIFICATION Spec

CONSTANTS
    p = p
    q = q
    r = r
    Processes <- ThreeProcesses
    Slots <- TwoSlots
    Addresses <- TwoAddresses
    Roles <- TwoRoles
    Inodes <- SomeInodes
    NoInode = 0
    MaxOps = 3

INVARIANTS
    TypeOK
    AuditComplete
    TargetsWhole
    
    RoleNeverRaised

SYMMETRY Alike

CHECK_DEADLOCK FALSE
