SPECIFICATION Spec
CONSTANTS
    Tasks = {1, 2}
    Named = {1}
    h1 = h1
    h2 = h2
    Hotkeys = {h1, h2}
    MaxCrashes = 2
    MaxLostWrites = 1
INVARIANTS InboxConsistent CreditedOnce DoneArtifactsWhole LedgerMatchesResult
PROPERTY ImplementsQueue
CHECK_DEADLOCK FALSE
