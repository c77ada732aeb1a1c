SPECIFICATION Spec

CONSTANTS
    file = file
    key = key
    foreign = foreign
    star = star
    x = x
    y = y
    Absent = Absent
    Disabled = x
    Inventories <- Flows
    Surfaces = {file, key, foreign, star}
    ConfigKeys = {key}
    Owned <- OwnedHere
    Ambiguous = {star}
    Contents = {x, y}
    ArtifactLists <- Lists
    MaxArtifacts = 3
    MaxPlans = 2
    MaxEdits = 1

INVARIANTS
    MatchingWasTrue
    NoFalseDrift

PROPERTIES
    OwnedWrites
