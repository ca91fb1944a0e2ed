SPECIFICATION NSpec
CONSTANTS
    Payloads = {p1, p2}
    NoPayload = none
    Requested = 7
    Tasks = {auto}
    MaxVer = 3
    SafeAfter = 2
    MaxResets = 1
    Envs = {"test"}
    Models = {"wroom"}
    Names = {"a", "b", "c", "d"}
    Max = 2
    MaxCalls = 5
    MaxCuts = 2
    MaxEvents = 1
 
PROPERTIES FifoSpec ImageProven LinkServes
CHECK_DEADLOCK FALSE
