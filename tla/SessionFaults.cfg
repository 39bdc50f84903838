SPECIFICATION Spec
CONSTANTS
    Sids = {s1}
    Insts = {i1, i2}
    Callers = {c1, c2}
    Users = {u1}
    Dev = dev
    MaxSessions = 2
    MaxPerUser = 2
    MaxSubs = 1
    Ops = {"create", "ensure", "submit", "interrupt", "cleanup", "delete"}
    StoreFails = TRUE
    NoSid = NoSid
    NoInst = NoInst
    NoUser = NoUser
    Free = Free
SYMMETRY Symmetry
INVARIANT TypeOK
INVARIANT NoZombie
PROPERTY DeletedStaysDeleted
PROPERTY ImplementsLife
CHECK_DEADLOCK FALSE
