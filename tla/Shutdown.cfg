SPECIFICATION FairSpec
CONSTANTS
    e1 = e1
    e2 = e2
    e3 = e3
    r1 = r1
    r2 = r2
    Event <- MCEvent
    Request <- MCRequest
    EventsOf <- MCEventsOf
    Unparkable <- MCUnparkable
    FlushEvents = 2
    MaxFaults = 3
INVARIANTS TypeOK OneOwner ClosedOnlyWhenQuiet ServesOnlyReady ExitAccountsForAll
PROPERTY SigtermEnds
CHECK_DEADLOCK FALSE
