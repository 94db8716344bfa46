CONSTANTS
    Level = Level
    Switch = Switch
    Series = {Level, Switch}
    NoSeries = NoSeries
    Times = {1, 2, 3}
    NoTime = NoTime
    Numbers = {0, 2, 3, 4, 6}
    Word = Word
    None = None
    Types = {"int", "number", "bool"}
    Batches <- ThreeBatches
    MaxMessages = 2
    MaxDeliveries = 2
    Ingestors = {g1, g2}
    Readers = {r1}
    Windows <- OneWindow
    Widths <- TwoWidths
    Limits = {2}
SPECIFICATION TsSpec
INVARIANTS WholeEntries HandledIsRead TypedAnswer 
PROPERTIES StoredOrLost
CHECK_DEADLOCK FALSE
