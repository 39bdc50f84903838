SPECIFICATION Spec
CONSTANTS
    Sids = {s1}
    Insts = {i1, i2}
    Callers = {c1, c2}
    Users = {u1}
    Dev = dev
    MaxSessions = 2
    MaxPerUser = 2
    MaxSubs = 1
    Ops = {"create", "ensure", "submit", "touch", "shutdown", "cleanup", "delete"}
    StoreFails = FALSE
    NoSid = NoSid
    NoInst = NoInst
    NoUser = NoUser
    Free = Free
SYMMETRY Symmetry
INVARIANT NoOrphan
CHECK_DEADLOCK FALSE
