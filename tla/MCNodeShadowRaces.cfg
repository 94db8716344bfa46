CONSTANTS
    Nodes = {n1, n2}
    Payloads <- TwoPayloads
    Configs <- OneConfig
    Ingestors = {g1, g2}
    Workers = {w1}
    MaxReports = 3
    MaxReconnects = 1
SYMMETRY Symmetry
SPECIFICATION Spec
INVARIANTS ShadowReported
CHECK_DEADLOCK FALSE
