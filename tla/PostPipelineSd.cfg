SPECIFICATION FairSpec
CONSTANTS
    BoardS3 = TRUE
    MaxPosts = 2
    LongPosts = {1, 2}
    RamMax = 1
    NetMax = 1
    SenderMax = 1
    NvsMax = 1
    MaxResets = 1
 
PROPERTIES SdDelivers
