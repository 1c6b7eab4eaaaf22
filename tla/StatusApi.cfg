SPECIFICATION ApiSpec
CONSTANTS
    Tasks = {1, 2}
    Named = {1}
    h1 = h1
    Hotkeys = {h1}
    MaxCrashes = 1
    MaxLostWrites = 0
INVARIANT UnknownOnlyIfRequeued
PROPERTIES PollsMoveForward ResultsAreFinal
CHECK_DEADLOCK FALSE
