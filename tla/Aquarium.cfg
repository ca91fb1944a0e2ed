SPECIFICATION ASpec
CONSTANTS
    Long = {"long"}
    Inspector = TRUE
    MaxEdits = 1
    MaxResets = 1
    MaxFaults = 1
    QueueSize = 2
    Budget = 3
    Debounce = 1
    Stable = 1
    Cooldown = 2
    MaxMoves = 3
    MaxFails = 4
INVARIANT OldIsMoved
PROPERTIES SettingsSettle SensorsFollow AlertsTold
CHECK_DEADLOCK FALSE
