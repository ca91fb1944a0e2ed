SPECIFICATION Spec
CONSTANTS
    BoardS3 = FALSE
    MaxPosts = 3
    LongPosts = {}
    RamMax = 1
    NetMax = 1
    SenderMax = 1
    NvsMax = 2
    MaxResets = 1
INVARIANTS NothingVanishes
