SPECIFICATION Spec
CONSTANTS
    e1 = e1
    e2 = e2
    e3 = e3
    r1 = r1
    r2 = r2
    i1 = i1
    i2 = i2
    Instance = {i1, i2}
    Event <- MCOneEvent
    Request <- MCOneRequest
    EventsOf <- MCOneEventsOf
    Unparkable = {}
    EventBuffer = 3
    FlushEvents = 1
    DrainLimit = 1
    AttemptLimit = 3
    MaxRows = 1
    MaxFaults = 1
    MaxCrashes = 0
    LostReplies = FALSE
INVARIANT MeteredAtMostOnce
CHECK_DEADLOCK FALSE
