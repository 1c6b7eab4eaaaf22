CONSTANTS
    h1 = h1  h2 = h2  h3 = h3
    Hotkeys = {h1, h2, h3}
    Uids = {0, 1}
    Window = 2
    Top = 1
    Num = 3  Den = 10
    Tempo = 1
    Corrupt = Corrupt  NoObject = NoObject
    FirstFiles <- MCFirstFiles
    FirstOwner <- MCFirstOwner
    Outcomes <- MCOutcomes
    MaxCrashes = 1  MaxLost = 1  MaxMoves = 1
SPECIFICATION Spec
INVARIANT SavedButTheLast
PROPERTIES DampedSwing WeightsKeepComing
CHECK_DEADLOCK FALSE
