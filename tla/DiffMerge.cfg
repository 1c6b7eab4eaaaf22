SPECIFICATION Spec
CONSTANTS
    Subtasks = {1, 2, 3}
    Graphs <- MCGraphs
    GateOf <- MCGateOf
    Holdbacks <- MCHoldbacks
    Gates = {own, common}
    own = own
    common = common
    old = old
    Existing = {old}
    Suite = Suite
INVARIANTS JudgedByCoordinator PenaltyOnlyForNew RegressionsCost
PROPERTIES DepsLandFirst
CHECK_DEADLOCK FALSE
