SPECIFICATION FairSpec
CONSTANTS
    AquaLevels = {0, 1, 2, 3}
    LimFlood = 2
    AqThreshold = 2
    TankLevels = {1, 3, 4}
    TankLow = 3
    TankOk = 3
    TankRecover = 2
    MaxRetries = 2
    Duration = 3
    Anomaly = 3
    RecoveryDebounce = 0
    SleepTicks = 2
    ClockMod = 6
    MaxManual = 0
PROPERTIES LocksAreReleased
