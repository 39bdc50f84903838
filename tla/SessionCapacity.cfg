SPECIFICATION Spec
CONSTANTS
    Sids = {s1, s2, s3}
    Insts = {i1, i2, i3}
    Callers = {c1, c2}
    Users = {u1, dev}
    Dev = dev
    MaxSessions = 1
    MaxPerUser = 1
    MaxSubs = 0
    Ops = {"create", "cleanup"}
    StoreFails = FALSE
    NoSid = NoSid
    NoInst = NoInst
    NoUser = NoUser
    Free = Free
SYMMETRY Symmetry
INVARIANT CapacityOvershootBounded
CHECK_DEADLOCK FALSE
