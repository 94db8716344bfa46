CONSTANTS
    Macs = {"AA", "aa"}
    Nodes = {"n1"}
    NodeIdOf <- MCNodeIdOf
    Provisioned = {"aa"}
    Users = {"u1"}
    NoUser = "none"
    Workers = {w1, w2}
    ClaimIds = {i1, i2}
    Serials = {s1, s2, s3}
    MaxAttempts = 1
SPECIFICATION Spec
INVARIANTS CertBacked SequentialSingleUse
PROPERTIES VerifiedIsFinal BurntStaysBurnt ExpiredStaysUnclaimed
CHECK_DEADLOCK FALSE
