---------------------------- MODULE CacheBackend ----------------------------
(***************************************************************************)
(* The cache of a process: initializeCache of cmd/gateway/main.go opens    *)
(* the filesystem cache or the Redis cache, once, and the file service     *)
(* works with whichever it is through the interface of Cache.tla.          *)
(***************************************************************************)
EXTENDS FsCache

CONSTANTS
    RedisKey, RedisValue, RedisReader, RedisWriter, RedisAdmin,     \* as in RedisCache
    Garbage, Nobody, Given, DefaultTtl, MaxRetries, PoolSize, StrayBound

VARIABLES
    type,                               \* cfg.Cache.Type
    db, call, at, tries, reply, stray   \* see RedisCache

R == INSTANCE RedisCache WITH
    Key <- RedisKey, Value <- RedisValue,
    Reader <- RedisReader, Writer <- RedisWriter, Admin <- RedisAdmin

ASSUME BackendAssumption == R!Assumption

redisVars == <<db, call, at, tries, reply, stray>>
backendVars == <<vars, type, redisVars>>

initializeCache ==
    /\ type \in {"filesystem", "redis"}
    /\ Init
    /\ R!Init

BackendNext ==
    \/ type = "filesystem" /\ Next /\ UNCHANGED <<redisVars, type>>
    \/ type = "redis" /\ R!Next /\ UNCHANGED <<vars, type>>

BackendSpec == initializeCache /\ [][BackendNext]_backendVars

\* Liveness is asked of Redis alone here: of the other see FsCache.
FairBackendSpec == BackendSpec /\ (type = "redis" => R!Fairness)

-----------------------------------------------------------------------------
(* Properties *)

\* Redis keeps the promise of Cache.tla whatever the network loses, repeats or
\* delays: a Get answers with a file that the server held under that key during
\* the call, or with nothing (redis.go:81-156).
RedisKeepsPromise == R!KeepsPromise

\* Every call of the Redis cache returns, whether or not the server ever answers
\* (the timeouts and max_retries of redis.go:36-68).
RedisCallsReturn == R!CallsReturn
=============================================================================
