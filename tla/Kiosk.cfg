SPECIFICATION KSpec
CONSTANTS
    MaxBottles = 3
    MaxResets = 1
    MaxShort = 1
    PersistEvery = 2
    RingSize = 2
    BatchSize = 2
    CompactAt = 2
    Nets = {1, 2}
    MaxMoves = 2
    MaxPlays = 1
    Debounce = 4
    PirGuard = 2
    PirWindow = 3
    UsPolls = 2
    Promote = 2
    Demote = 2
    PirGates = FALSE
    PirAlone = TRUE
INVARIANTS BottlesExact
PROPERTIES ObjectCountsOnce LinkLives
CHECK_DEADLOCK FALSE
