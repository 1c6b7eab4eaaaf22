SPECIFICATION BackendsSpec
CONSTANTS
    Files = {"impl", "test_impl"}
    Allowed = {"impl"}
    TestFiles = {"test_impl"}
    Names = {"f"}
    Original <- MCOriginal
    TargetStub <- MCTargetStub
    Absent = Absent
    NoTarget = NoTarget
    Tests = {1, 2}
    Exceptions = {"TypeError"}
    Assert = "assert"
    MaxCalls = 2
    MaxBlocks = 2
    MaxIterations = 3
    MaxSame = 2
    MaxVariants = 2
INVARIANTS StopsForItsReason WritesKeepContract VerdictIsAboutPatch
PROPERTIES WipedOnlyIfThrashing AssignmentAnswered
CHECK_DEADLOCK FALSE
