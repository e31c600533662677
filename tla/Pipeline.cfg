SPECIFICATION FairSpec
CONSTANTS
    e1 = e1
    e2 = e2
    e3 = e3
    r1 = r1
    r2 = r2
    i1 = i1
    i2 = i2
    Instance = {i1}
    Event <- MCEvent
    Request <- MCRequest
    EventsOf <- MCEventsOf
    Unparkable = {e2}
    EventBuffer = 3
    FlushEvents = 2
    DrainLimit = 2
    AttemptLimit = 3
    MaxRows = 3
    MaxFaults = 3
    MaxCrashes = 1
    LostReplies = TRUE
INVARIANTS TypeOK NoSilentLoss MeteredOnlyIfLanded MeteredAtMostOnce QuarantineIsEarned
PROPERTIES InsertedAgainOnlyFromQueue FatalClearedBySuccess ImplementsEventDelivery EverythingSettles DepthCatchesUp
CHECK_DEADLOCK FALSE
