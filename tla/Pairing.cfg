SPECIFICATION FairSpec

CONSTANTS
    Phones = {p1, p2}
    MaxWindow = 2
    MaxAttempt = 3
    MaxCommand = 2
    MaxFault = 3
    Wifi = TRUE

INVARIANTS PhoneStoresAfterHost SavedMeansCompared
PROPERTIES SavedMeansApproved BothPaired
CHECK_DEADLOCK FALSE
