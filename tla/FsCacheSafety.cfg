\* One Get and one Set at a time beside an administrator and the cleanup
\* goroutine, with crashes at any step.
SPECIFICATION Spec
CONSTANTS
    small = small
    big = big
    Key = {k1, k2}
    Value <- MCValue
    Len <- MCLen
    MaxLen = 3
    MaxSize = 2
    Ttl = 0
    Reader = {r1}
    Writer = {w1}
    Admin = {a1}
    Janitor = Janitor
    NoFile = NoFile
    Torn = Torn
    NoProc = NoProc
    NoKey = NoKey
    SizeBound = 4
    ItemBound = 2
    CanCrash = TRUE
    CanFail = FALSE
INVARIANTS TypeOK GaugesCoverDisk DiskWithinLimit
