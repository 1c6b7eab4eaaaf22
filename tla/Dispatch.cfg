SPECIFICATION DispatchSpec
CONSTANTS
    m1 = m1
    m2 = m2
    Requests = {11, 12, 21}
    Submissions = {1, 2}
    SubtasksOf <- MCSubtasksOf
    NumberOf <- MCNumberOf
    OutputDir <- MCOutputDir
    NoTask = 0
    Miners = {m1, m2}
    Reliable = {m1}
    Urls <- MCUrls
    MinerOf <- MCMinerOf
    NoRequest = 0
    PoolSize = 1
    EagerTasks = TRUE
INVARIANTS GateExclusive WorkspaceOutlivesAgent OwnWorkspace
PROPERTIES EveryRequestAnswered EverySubmitAnswered
CHECK_DEADLOCK FALSE
