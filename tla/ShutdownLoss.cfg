SPECIFICATION Spec
CONSTANTS
    e1 = e1
    e2 = e2
    e3 = e3
    r1 = r1
    r2 = r2
    Event <- MCEvent
    Request <- MCRequest
    EventsOf <- MCEventsOf
    Unparkable = {}
    FlushEvents = 2
    MaxFaults = 0
INVARIANT SigtermDropsNothing
CHECK_DEADLOCK FALSE
