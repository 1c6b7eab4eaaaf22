SPECIFICATION Spec
CONSTANTS
    Sources = {"stub"}
    Shared = {"shared"}
    Gates = {"gate1", "gate2"}
    DefaultGate = "gate1"
    Leftovers <- MCLeftovers
    Cached <- MCCached
    Originals <- MCOriginals
    MaxAttempts = 2
    Responses <- MCResponses
    Percents = {0, 30, 90}
INVARIANTS ValidatedBeforeUse ScaffoldIsAccepted  AttemptsDontMix FirstTestsStand
CHECK_DEADLOCK FALSE
