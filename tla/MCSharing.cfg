CONSTANTS
    Ann = Ann
    Bob = Bob
    BobAgain = BobAgain
    Users = {Ann, Bob, BobAgain}
    Names = {"ann", "bob"}
    Invitees = {"bob"}
    NameOf <- TwoNames
    Nodes = {n1}
    Workers = {w1, w2}
    Ids = {i1, i2}
SYMMETRY Symmetry
SPECIFICATION Spec
INVARIANTS ShareJustified
PROPERTIES AccessOnlyByConsent LateNeverGrants ResolvedIsFinal
CHECK_DEADLOCK FALSE
