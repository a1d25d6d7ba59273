\* Three requests, with the read timeout of the example configuration, under
\* every configuration of two chains.  The process ends, so the last state is
\* no deadlock.
SPECIFICATION FairSpec
CONSTANTS
    n1 = n1
    n2 = n2
    Name <- MCName
    Config <- MCConfig
    Req = {q1, q2, q3}
    ReadTimeout = 60
INVARIANTS TypeOK ServesConfigured DrainedStays SavesHaveGrace
PROPERTIES ExitsInTime
CHECK_DEADLOCK FALSE
