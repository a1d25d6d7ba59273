\* Two chains, one retry, probes until a chain has been sent three requests
\* (nobody need ask for another probe, so the last state is no deadlock).
SPECIFICATION FairSpecAll
CONSTANTS
    c1 = c1
    c2 = c2
    w1 = w1
    w2 = w2
    Client = {c1, c2}
    Caller = {w1, w2}
    MaxRetries = 1
    RequestBound = 3
    Worker <- MCWorker
INVARIANTS TypeOKAll ReadyHonest NoStragglers
PROPERTIES ReadyAnswers
CHECK_DEADLOCK FALSE
