SPECIFICATION FairSpec

CONSTANTS
    MaxCalls = 2
    Threads = {t1, t2}
    k = k
    a = a
    b = b
    ref = ref
    Keys = {k, ref}
    Refs = {ref}
    Directory <- Found
    Addresses = {a, b}
    Groups = {a}
    Channels = {"whatsapp", "slack", "telegram"}
    Bound = {"slack.post", "dm.send_text", "whatsapp.send_gateway"}
    Unreadable = Unreadable
    Configs <- GoodOrBroken
    MaxEdits = 1

INVARIANTS
    TypeOK
    Authorised
    NoBypass
    NoCharge
    RaisedUnsent
    VerdictTrue

PROPERTIES
    SubmitAnswers

CHECK_DEADLOCK FALSE
