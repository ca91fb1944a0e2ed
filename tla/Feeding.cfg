SPECIFICATION Spec
CONSTANTS
    HoursPerDay = 4
    Morning = 0
    Noon = 1
    Evening = 2
    Meals = {3}
    MaxMeal = 2
    MaxDaily = 5
    MaxCatchup = 1
    MaxDays = 1
    MaxIssued = 2
    MaxResets = 1
INVARIANTS MealOncePerSlot DailyDose DoneMeansFed CommandAtMostOnce OutageBounded CommandNotLost
