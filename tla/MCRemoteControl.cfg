CONSTANTS
    Nodes = {n1}
    Payloads <- ThreePayloads
    Configs <- TwoConfigs
    Ingestors = {g1}
    Workers = {}
    MaxReports = 3
    MaxReconnects = 1
    Phones = {f1}
    Commands <- MixedCommand
    MaxCommands = 1
SPECIFICATION RemoteSpec
INVARIANTS ParamsConverge  AppSeesDevice
PROPERTIES ReportArrives
CHECK_DEADLOCK FALSE
