CONSTANTS
    Users = {u1, u2}
    n1 = n1
    n2 = n2
    x = x
    Nodes = {n1, n2, x}
    Registered = {n1, n2}
    Lists <- ThreeLists
    GroupIds = {g1, g2, g3}
    NoParent = NoParent
    Workers = {w1, w2}
    AutoIds = {a1}
    Columns = {"enabled", "actions"}
    Values = {0, 1}
    On = 1
SYMMETRY Symmetry
SPECIFICATION Spec
INVARIANTS NoOrphans ListedWhole
PROPERTIES OwnHandsOnly PatchesStand
CHECK_DEADLOCK FALSE
