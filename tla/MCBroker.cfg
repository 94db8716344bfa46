SPECIFICATION Spec
CONSTANTS
    Ids <- MCIds
    Internal <- MCInternal
    NodeLevel <- MCNodeLevel
    Plus <- MCPlus
    Hash <- MCHash
    Empty <- MCEmpty
    Topics <- MCTopics
    Filters <- MCFilters
    Handlers = {h1, h2}
    MaxEvents = 1
SYMMETRY Symmetry
INVARIANTS
    PresenceSettles
    
    
CHECK_DEADLOCK FALSE
