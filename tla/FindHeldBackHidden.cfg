SPECIFICATION Spec
CONSTANTS
    Sources = {"stub"}
    Shared = {"shared"}
    Gates = {"gate1", "gate2"}
    DefaultGate = "gate1"
    Leftovers <- MCLeftovers
    Cached <- MCCached
    Originals = {{"stub"}}
    MaxAttempts = 2
    Responses <- MCResponses
    Percents = {30}
INVARIANT HeldBackHidden
CHECK_DEADLOCK FALSE
