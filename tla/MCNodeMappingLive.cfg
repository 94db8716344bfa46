CONSTANTS
    Users = {u1}
    Nodes = {n1}
    Secrets = {s1}
    NoSecret = "none"
    Workers = {w1}
    Ingestors = {g1, g2}
    Ids = {i1, i2}
SPECIFICATION CalmSpec
PROPERTIES QueuedIsMatched
CHECK_DEADLOCK FALSE
