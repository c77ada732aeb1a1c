SPECIFICATION FairSpec

CONSTANTS
    Threads = {t1, t2, t3}
    NoThread = NoThread
    MaxSize = 1
    MaxCloses = 1

INVARIANTS
    TypeOK
    OneOpenPool
    PublishedHasSchema

PROPERTIES
    CallsEnd
