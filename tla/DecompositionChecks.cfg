CONSTANTS
    Ids = {"a", "b", "c", "x"}
    Plans <- MCPlans
SPECIFICATION Spec
INVARIANTS StructureDecides ContractsDecide StubTestsFail
CHECK_DEADLOCK FALSE
