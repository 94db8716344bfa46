CONSTANTS
    Nodes = {n1, n2, n3}
    Registered = {n1, n2}
    Images = {i1}
    MaxJobs = 2
    Workers = {w1, w2}
    MaxReboots = 1
    Transports = {"https", "mqtt"}
    Outcomes = {"success"}
    Patient = FALSE
SYMMETRY Symmetry
SPECIFICATION Spec
INVARIANTS InstallsItsOwn
PROPERTIES DoneForGood
CHECK_DEADLOCK FALSE
