SPECIFICATION FairSpec
CONSTANTS
    e1 = e1
    e2 = e2
    e3 = e3
    e4 = e4
    e5 = e5
    r1 = r1
    r2 = r2
    r3 = r3
    r4 = r4
    Event <- MCEvent
    Request <- MCRequest
    EventsOf <- MCEventsOf
    EventBuffer = 4
    FlushEvents = 3
    MinChanCap = 1
INVARIANTS TypeOK PendingExact FateMatchesAnswer
PROPERTIES ImplementsBoundedBuffer SlotsComeBack SubmitReturns
CHECK_DEADLOCK FALSE
