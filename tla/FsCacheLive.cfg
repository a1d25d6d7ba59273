\* One goroutine of each kind, with writes that fail: does everything end?
SPECIFICATION FairSpec
CONSTANTS
    small = small
    big = big
    Key = {k1}
    Value = {small}
    Len <- MCLenOne
    MaxLen = 1
    MaxSize = 1
    Ttl = 0
    Reader = {r1}
    Writer = {w1}
    Admin = {a1}
    Janitor = Janitor
    NoFile = NoFile
    Torn = Torn
    NoProc = NoProc
    NoKey = NoKey
    SizeBound = 2
    ItemBound = 2
    CanCrash = FALSE
    CanFail = TRUE
PROPERTIES CallsReturn ExpiredGoes CloseReturns
