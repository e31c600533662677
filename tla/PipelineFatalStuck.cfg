SPECIFICATION RetryingSpec
CONSTANTS
    e1 = e1
    e2 = e2
    e3 = e3
    r1 = r1
    r2 = r2
    i1 = i1
    i2 = i2
    Instance = {i1}
    Event <- MCEvent
    Request <- MCRequest
    EventsOf <- MCEventsOf
    Unparkable = {e3}
    EventBuffer = 3
    FlushEvents = 2
    DrainLimit = 1
    AttemptLimit = 3
    MaxRows = 3
    MaxFaults = 1
    MaxCrashes = 0
    LostReplies = FALSE
PROPERTY FatalClears
CHECK_DEADLOCK FALSE
