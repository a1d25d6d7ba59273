\* One Get, one Set and the sweep, without crash or failure.
SPECIFICATION Spec
CONSTANTS
    small = small
    big = big
    Key = {k1, k2}
    Value <- MCValue
    Len <- MCLen
    MaxLen = 3
    MaxSize = 2
    Ttl = 1
    Reader = {r1}
    Writer = {w1}
    Admin = {}
    Janitor = Janitor
    NoFile = NoFile
    Torn = Torn
    NoProc = NoProc
    NoKey = NoKey
    SizeBound = 4
    ItemBound = 3
    CanCrash = FALSE
    CanFail = FALSE
INVARIANT StatsExact
