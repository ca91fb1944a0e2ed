SPECIFICATION FairSpec
CONSTANTS
    PoolSize = 6
    Tasks = {auto, web}
    RpcTask = auto
    NoTask = noTask
    MaxRequests = 3
    FeatureOta = TRUE
    OtaTaskCreated = FALSE
INVARIANTS NoSlotLeak SingleOwner FreshSuccess PostsHandedOnce
PROPERTIES PostsLeaveQueue
