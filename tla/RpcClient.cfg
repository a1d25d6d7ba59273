\* Two callers share a client, two retries, no new Call once it has sent three
\* requests (callers may stop calling, so the last state is no deadlock).
SPECIFICATION FairSpec
CONSTANTS
    Client = {c1}
    Caller = {p1, p2}
    MaxRetries = 2
    RequestBound = 3
INVARIANTS TypeOK CountersExact CancelStops GivesUpHonestly
PROPERTIES CallsReturn
CHECK_DEADLOCK FALSE
