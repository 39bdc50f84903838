SPECIFICATION FairSpec
CONSTANTS
    Sids = {s1}
    Insts = {i1}
    Callers = {c1, c2}
    Users = {u1}
    Dev = dev
    MaxSessions = 2
    MaxPerUser = 2
    MaxSubs = 2
    Ops = {"create", "submit", "shutdown"}
    StoreFails = FALSE
    NoSid = NoSid
    NoInst = NoInst
    NoUser = NoUser
    Free = Free
PROPERTY LockIsReleased
CHECK_DEADLOCK FALSE
