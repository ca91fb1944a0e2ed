SPECIFICATION DSpec
CONSTANTS
    Acts = {heater}
    Delay = 1
    WebTimeout = 1
    WsTimeout = 1
    Window = 1
    Retries = 2
    MaxVisits = 2
    MinDelta = 3
    Apply = 2
    Hmac = 5
    TrustAge = 2
    Far = 6
    MaxChains = 3
    MaxSessions = 2
    MaxOutages = 2
    Restarts = 1
PROPERTIES SleepServes  PageFresh
CHECK_DEADLOCK FALSE
