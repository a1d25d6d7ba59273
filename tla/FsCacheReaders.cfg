\* Two Gets on the files that share the lock, beside a Set and the sweep; one caller of each
\* kind on Redis, one attempt more, one connection, one command on its way.
SPECIFICATION FairBackendSpec
CONSTANTS
    small = small
    big = big
    Key = {k1, k2}
    Value <- MCValue
    Len <- MCLen
    MaxLen = 3
    MaxSize = 2
    Ttl = 1
    Reader = {r1, r2}
    Writer = {w1}
    Admin = {}
    Janitor = Janitor
    NoFile = NoFile
    Torn = Torn
    NoProc = NoProc
    NoKey = NoKey
    SizeBound = 4
    ItemBound = 3
    RedisKey = {k1}
    RedisValue = {small}
    RedisReader = {r1}
    RedisWriter = {w1}
    RedisAdmin = {a1}
    Garbage = Garbage
    Nobody = Nobody
    Given = {0}
    DefaultTtl = 24
    MaxRetries = 1
    PoolSize = 1
    StrayBound = 1
    CanCrash = FALSE
    CanFail = FALSE
INVARIANTS HitPaired NoOrphanMeta
PROPERTIES GetRemovesOnlyExpired DriftStays KeepsPromise RedisKeepsPromise RedisCallsReturn
