SPECIFICATION Spec
CONSTANTS
    Subtasks = {1, 2, 3}
    Graphs <- MCGraphs
    Modes = {"patch", "replace", "off"}
    Backends = {"sdk", "claude_code"}
    Full = 2
INVARIANTS TiersFollowDeps TestedOnLandedPeers CreditedIsInTree CreditedTestsPassed
PROPERTIES MergeEnds
CHECK_DEADLOCK FALSE
