SPECIFICATION BSpec
CONSTANTS
    COOLDOWN = 2
    Dose = 1
    Hours = 2
    MailBudget = 2
    ReportEvery = 2
    Capacity = 3
    Fit = 2
    MaxEvents = 6
    Interval = 2
    Threshold = 2
    Tries = 2
    MaxResets = 1
    MaxPhotos = 2
    MaxFaults = 1
    PerWake = 1
    Rejects = 2
    Top = 8
    StepDeg = 2
    Limit = 2
    MaxSteps = 5
    Suns = {1, 7}
    Versions = 3
    Mute = {2}
    Chunks = 2
    MaxDrops = 2
    MaxOrders = 1
    SafeAfter = 3
INVARIANTS DosesAsMeant  
PROPERTIES PhotosServed UpdatesAsked PanelServes ImageServes
CHECK_DEADLOCK FALSE
