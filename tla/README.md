# A TLA+ model of verus-gateway

verus-gateway serves files that are stored, encrypted, on Verus chains: a client
names a chain, a transaction and a viewing key, the gateway asks the daemon of the
chain to decrypt the data, unpacks it, detects its type, caches it and answers.
This directory holds the models of its parts, the TLC configurations that check
them and the proofs that TLAPS checks. `PROJECT.json` lists every definition with
the lines it models, every run, every hazard and every theorem.

Run one check with `tlc -config RpcClient.cfg RpcClient.tla`, one proof with
`tlapm RpcClientProofs.tla`.

## 1. The system

### Components, their state and operations

| Part | Code | State | Operations |
|---|---|---|---|
| Filesystem cache | `internal/cache/filesystem.go` | `.bin` and `.meta` file of each key, size and item gauges, RWMutex, `stopCleanup`, WaitGroup | Get, Set, Delete, Clear, Stats, Close, evictOldest, cleanupLoop, NewFilesystemCache (recount) |
| Redis cache | `internal/cache/redis.go` | none of its own (the server's database, the connections of go-redis, hit counters) | Get, Set, Delete, Clear, Stats, Close |
| File service | `internal/service/file_service.go` | none; one goroutine for each background Set | GetFile, GetMetadata, cache administration |
| File and admin handlers | `internal/http/handler` | the request | GET and HEAD file, GET meta; health, ready, chains, cache stats, clear, delete |
| Request and file types, decryptor, decompressor, detector | `internal/domain`, `internal/crypto`, `internal/storage` | none | Validate, CacheKey, DecryptData, Decompress, DetectType |
| RPC client | `pkg/verusrpc/client.go` | request, error and latency counters | Call (attempts, pauses), Stats |
| Chain manager | `internal/chain/manager.go` | map of clients, fixed after the start, under a RWMutex | lookups, HealthCheckAll, Close |
| Rate limiter | `internal/http/middleware/ratelimit.go` | map of visitors under a mutex | allow, cleanupVisitors |
| Start and shutdown | `cmd/gateway/main.go`, `internal/http/server/server.go` | configuration, cache, manager, listener, signal context, shutdown context | initializeCache, initializeChainManager, start, select, Shutdown, wait, deferred closes |
| Other middleware | `internal/http/middleware` | none | request id, real IP, logging, metrics, timeout, headers, CORS, API keys, audit, size limit |
| Configuration | `internal/config/config.go` | none after the start | Load, Validate |
| Logger, metrics | `internal/observability` | counters nobody reads back | output |

### How they interact

    main --- starts, signals, Shutdown, Close ---> server, manager, cache
    request -> middleware (timeout) -> handler -> file service -+-> cache.Get
                                                                +-> manager -> RPC client -> daemon
                                                                +-> goroutine: cache.Set (5 s)
    GET /ready -> manager.HealthCheckAll -> one goroutine per chain -> RPC client
    ticker -> cache clean-up goroutine ; ticker -> rate limiter clean-up goroutine

Shared state: the two files and two gauges of the cache under one RWMutex (and Get
*removes* files while it holds it shared); the `File` object that a miss hands both
to the answer and to the background Set; the counters of an RPC client; the result
map of a health check; the map of visitors.

### What is hard about it, and what makes each part correct

* **Filesystem cache.** Content and metadata are two files, replaced in place one
  after the other, in steps that a crash may separate; eviction decides on gauges
  that are only ever adjusted by deltas; a Get expires files beside other Gets.
  Correct: a hit is a whole content with its own metadata or none; the gauges never
  stand below the disk, so the disk keeps to the limit; only expired files are
  removed by a Get; no metadata file is left alone; every call returns, also when a
  write fails; but for metadata that a hit may have lost, it behaves like an atomic cache.
* **Redis cache.** Each operation is one command, but go-redis sends it again after a
  time-out, and the server may execute what nobody waits for any more: a SET that
  failed may still land, after a Delete or over a later Set. Correct: it is an atomic
  cache all the same, in which a Set that has returned may still land; bytes that
  cannot be parsed are a miss; every call returns.
* **Request path.** Handlers, background Sets and administrators interleave over
  the cache; contexts end anywhere; a Set outlives its request. Correct: nobody gets
  the file of another transaction, chain or, without a key, any file; nothing is
  cached that was not decrypted; data is unpacked whole or served packed, and the
  metadata is that of the bytes or, of a hit, missing altogether; every request is answered and every Set carried out.
* **RPC client and /ready.** Retries, pauses and the end of a context race; many
  goroutines count. Correct: the counters add up, an ended context ends the loop,
  giving up means that all retries were made, a probe speaks for all chains, leaves
  no goroutine behind and always answers.
* **Rate limiter.** Window and clean-up are two clocks. Correct: forgetting a visitor
  gives it nothing; bursts are bounded; nobody is refused too early.
* **Start.** Three places judge the configuration by rules of their own (`Validate`,
  `initializeCache`, `NewManager`), and they differ. Correct: what serves is what was
  configured, with a cache, with the enabled chains and with the default among them.
* **Shutdown.** A signal may come before the listener has run; nothing joins the
  background Sets; the closes are deferred. Correct: work is cut only after the
  deadline; the process ends.

`PROJECT.json` gives under "hazards" the line where each of these bites and the
properties that watch it.

## 2. The modules

| Module | What it is | Proofs |
|---|---|---|
| `Cache` | what `domain.Cache` promises: an atomic store that may forget and may refuse, that may lose the metadata of a hit, and in which a Set may land late | |
| `FsCache` (`MCFsCache`) | the filesystem cache step by step, with crash and restart; implements `Cache` | `FsCacheProofs`, `CacheBackendProofs` |
| `RedisCache` | the Redis cache over a model of go-redis and of the server; implements `Cache` | `RedisCacheProofs` |
| `CacheBackend` (`MCCacheBackend`) | the one of the two that `initializeCache` opens | `CacheBackendProofs` |
| `Decompressor` | the decompressor as operators: io.Copy over limitedWriter | in `GatewayProofs` |
| `Gateway` (`MCGateway`) | the request path over an instance of `Cache` and over `Decompressor` | `GatewayProofs` |
| `RpcClient` | `Call`, with retries and counters | `RpcClientProofs` |
| `ChainManager` (`MCChainManager`) | HealthCheckAll and /ready, composed with `RpcClient` | `ChainManagerProofs` |
| `FixedWindow` | what a limiter promises that never forgets anyone | |
| `RateLimiter` | `allow` and its sweep; implements `FixedWindow` | `RateLimiterProofs` |
| `Startup` | Validate, initializeCache and NewManager as operators on a configuration | |
| `Lifecycle` (`MCLifecycle`) | start, signal, drain, wait, deferred closes | `LifecycleProofs` |

Composition is by contract. `Gateway` uses the cache through `Cache`, and both
`FsCache` and `RedisCache` are shown to implement `Cache`; the requests of `Gateway` see the daemon as "answers
or fails", and `RpcClient` shows that a Call always comes back as one of the two.
`ChainManager` extends `RpcClient` and drives its actions.

### State and actions against the code

**Cache.** `store` is the file of each key; `asked` and `answer` are the Get of each reader,
`putting` the Set of each writer, `late` what Sets that have returned may still store. An
answer names two files: `val`, whose content it has, and `meta`, whose metadata. `GetHit` makes
them the same; `GetLoses` takes the metadata away, because `Get` reads it after the content and
goes on without it (`filesystem.go:123-129`). So an implementation that paired the content of
one file with the metadata of another, or with a part of its own, would not implement `Cache`.

**FsCache.** `content` and `meta` are the `.bin` and `.meta` file of each key (the
SHA-256 name is the key itself). A content carries the file it is from, how many of
its bytes have been written and its age in ticks. `size` and `items` are the gauges,
`writer` and `readers` the RWMutex. Get is `GetRLock`, `GetStat`, then
`GetExpireContent`, `GetExpireMeta` or `GetReadContent`, `GetReadMeta`, then
`GetReturn`: one action for each system call, since another Get may come between.
Set is `SetLock`, the loop of `EvictContent` and `EvictMeta`, `SetTruncate`,
`SetWrite` (in one write or several), `SetMetaTruncate`, `SetMetaWrite`, `SetCount`:
one action for each state of the disk that a crash can leave. `SetWriteFails` and
`SetMetaFails` are its error paths. `Delete...`, `Clear...`, `Cleanup...`,
`CloseStart`/`CloseReturn` are the other operations; `Restart` kills the process at
any moment, keeps the disk and recounts it as `NewFilesystemCache` does. `Answers` shows an answer to
`Cache`: the content if it was whole (`Torn` if it was cut), and the metadata that the Get
has read. While it is still to be read (`readMeta`) the answer has it; if it is gone by
then, the step that finds it gone is `GetLoses`.

**RedisCache.** `db` is the server's database, a value and a time to live for each key.
`call`, `at`, `tries` and `reply` are a caller's command, how far it has come
(`waiting` for a connection, `sent`, `replied`), how often it has been sent and what came
back. `stray` holds the commands on connections that go-redis has closed: the server may
execute each of them at any later time, or never (`ExecutesStray`). `Sends`,
`TimesOut`, `LosesReply` and `GivesUp` are the pool, the attempts and the error that the caller gets;
`Evicts` is expiry or eviction in the server, `Intrudes` another program on the same
database. `Outcome` is what Get makes of the reply. go-redis, the network and the server
are external: they are modelled from the options of `NewRedisCache` and from how each
operation uses the client.

**CacheBackend.** `type` is `cfg.Cache.Type`; the steps are those of the one or the other.

**Decompressor.** Sizes stand for bytes. Data is what the daemon decrypted: its size, whether
it begins with the two bytes of gzip, whether the header is good, which pieces the reader yields,
whether they begin with these two bytes again (`inner`) and whether
it ends well. `Copy` folds `Write` over the pieces, as `io.Copy` does over `limitedWriter`;
`AllOrNothing` is the definition that it is checked against, and never mentions the writer.

**Gateway.** `pc`, `req`, `ctx`, `file` and `reply` are the walk of a handler, `job` the
goroutine of the background Set with the key and the *shared* File it got; `store`,
`asked`, `answer` and `putting` belong to `Cache`. Files carry where their bytes come
from (chain, transaction, viewing key), what they are (packed or not, their size, whether they
begin like gzip) and, apart from that, what their metadata says (name, size, Compressed), so that a wrong
answer can be told from a right one. `DetectType` looks at the bytes it is given, as the detector
does: unpacked data that is gzip again is flagged. `Found` puts a hit together from the
content and the metadata of the cache's answer, with the zero value for metadata that
`CacheLosesMetadata` has taken; `Named` then gives it the name in the request.
`Cancel` ends a context at any moment.

**RpcClient.** `pc` goes `send -> wire -> judge -> backoff` as in `Call`; `attempt`, `err`
are its locals, `requests` and `errors` the atomic counters. `served`, `waited` and
`late` are history that only the properties read.

**ChainManager.** `todo`, `running`, `calling` are the goroutines that
HealthCheckAll has still to start, has started, and that are in `getinfo`; `wg` is
the WaitGroup; `deadline` the context of 30 s of /ready.

**RateLimiter.** `visitors` maps an address to its record or to `Absent`; `now` is the
clock; `log` is history.

**Startup, Lifecycle.** `conf` is the configuration as viper hands it over, `manager` the clients
and the default of the chain manager. `main` is the place main has come to (`loading`, `caching`,
`chaining` before it serves, `failed` if it never does; `serving`, `draining` in Shutdown,
`waiting` at `<-shutdownCtx.Done()`, `closing` in the deferred calls), `listener` and
`serverErr` the goroutine of the server, `timer` the shutdown context, `req` and `save`
the requests and background Sets.

## 3. The runs

| Run | States | Asks | Outcome |
|---|---|---|---|
| `fscache_safety` | 1,274,076 | with crashes anywhere, do the gauges cover the disk and does the disk keep to maxSize? | holds |
| `fscache_readers` | 154,941 | whichever cache is opened: on files, two Gets expire and read beside a Set and the sweep: are hits whole, with their own metadata or none, is nothing orphaned? On Redis, commands and replies are lost, repeated and late: does every call return? Do both implement `Cache`? | holds |
| `fscache_live` | 22,428 | with failing writes, does every call, every sweep and Close come to an end? | holds |
| `fscache_torn` | | `AtomicWrites`, as `docs/architecture.md:703` has it | **violated** |
| `fscache_stats` | | `StatsExact`, as `internal/domain/interfaces.go:37` has it | **violated** |
| `gateway` | 73,691 | two handlers, two Sets, deletions, cancellations, Sets that land late, hits that lose their metadata: does every answer belong to its request, whole, and described as it is or not at all? | holds |
| `gateway_keys` | | `KeyHonoured`, as `docs/architecture.md:682` has it | **violated** |
| `rpc_client` | 14,899 | two callers of one client | holds |
| `chain_manager` | 46,212 | /ready over two chains | holds |
| `rate_limiter` | 658,155 | two addresses over three windows, sweeps at any tick | holds |
| `lifecycle` | 85,376 | every configuration of two chains; three requests while the gateway starts, fails, is signalled | holds |
| `read_timeout` | | `TimeGranted`, as `internal/http/server/server.go:94` has it | **violated** |

### What the violated properties say

1. *Torn writes.* Set writes with `os.WriteFile` in place. A crash after the truncation
   leaves a partial `.bin`; after the restart it is a hit and is served as the file,
   until it expires. The documentation promises a temporary file and a rename.
2. *Drifting gauges.* Storing a key again counts the file twice, and a Get that removes
   an expired file does not count it out. The gauges only ever err upwards
   (`GaugesCoverDisk`, proved), and the excess stays until Clear or a restart
   (`DriftStays`): Stats reports too much and eviction starts early.
3. *One cache entry for all viewing keys.* The cache key ends in the constant
   `:encrypted` instead of a hash of the viewing key, so the second key of a
   transaction is answered with what the first one decrypted.
4. *The read timeout is scaled twice.* `ReadTimeout` is a Duration and is multiplied by
   `time.Second`. The default of 10 s overflows to a negative Duration: the context of
   a request has ended before it begins and no file is served. 60 s (the example
   configuration) becomes about 148 years. The product is computed in limbs of
   16 bits, because TLC's integers have 32. The run `lifecycle` takes 60 s; the theorems
   hold for every value up to an hour.

### Divergences without a run

* **A viewing key is optional in every text and required by the code.** `README.md:171`
  ("optional query parameter"), its example without one (lines 179-180), its table (line 285, "No"),
  `docs/openapi.yaml:404-407` (`required: false`), `docs/architecture.md:208` ("Decryption (if EVK
  provided)") with lines 399-401 ("Else: GetRawTransaction()") and `internal/domain/file.go:59`
  ("(optional)") all offer the file of a transaction without a key. `FileRequest.Validate` lets such a
  request through, and then `ValidateEVK` in the decryptor refuses the empty key with an error 400:
  no request without a key is ever answered with a file. `KeylessRefused`, which the run checks and
  `KeyRequired` proves, says what the code does (nothing decrypted leaks to a client without a
  key), not what these texts say.
* **A hit may come without its metadata, with no crash and no failing write.** One Get finds a file
  that has not expired; it expires; another Get removes `.bin` and `.meta` under the same
  shared lock. The first one has read the content, or still reads it from a file it has open, and finds no
  metadata (`filesystem.go:123-129` says "Metadata is optional, ignore errors"). The answer has size
  0, no Content-Length, `application/octet-stream`, the name in the request and `Compressed`
  false, beside packed bytes too. `MetaDescribesContent` therefore promises this much: size and flag
  are those of the bytes, or the answer is a hit and all of the metadata is missing; never a
  part of it and never another file's. `HitPaired` says the same of the cache.

Each of the others is visible in a model but would be a property that restates one line:

* `main.go:151` waits for a context whose cancel is deferred: it always waits for the
  whole shutdown timeout, and "Server stopped gracefully" (line 156) is never
  logged, although line 150 says "Wait for shutdown to complete or timeout".
  (`Reports`; `PhaseInv`, proved, says so. It is also what gives the Sets their time.)
* After a listener failure the process exits with status 0, which systemd's
  `Restart=on-failure` (`deployments/systemd/verus-gateway.service:16`) takes for success.
* HTTP statuses of 4xx are retried, against the comment of `client.go:131`; the pauses
  grow linearly (line 115), against "exponential backoff" in `docs/architecture.md:290`;
  `MaxRetries: 0` means 3 (line 48), against the test `client_test.go:137`.
* `docs/architecture.md:700` says that eviction is by access time; it is by
  modification time (`Oldest`).
* A viewing key with capitals passes `domain/file.go:77` and is refused by
  `crypto/decrypt.go:15`, but only if the file is not cached (`LowerEvk`).
* The ETag of a hit is empty, since the caches do not keep the transaction id (`Stored`).
* Redis keeps every file for the 24 h that the file service passes, whatever `cache.ttl`
  says; the filesystem cache ignores the argument. A negative `cache.ttl`, which nothing
  validates, would make Redis keep a file for ever if a Set passed 0.
* Clear of the Redis cache is FLUSHDB: it also removes what other programs keep there.
* `Config.Validate` accepts the cache types memcached and multi, which
  `initializeCache` refuses, and refuses `none`, which `initializeCache` accepts: the
  gateway never serves without a cache (`ServesConfigured`), and the nil cache that the
  file service allows for is met in tests only.
* A disabled chain may be the default for `Validate` (`config.go:255`), and is refused by
  `NewManager`. viper writes the chains' names in lower case and leaves `default` as it is.
* `shutdown_timeout` and `cleanup_interval` are not validated, `idle_timeout` is read by nobody.
* Output of exactly the limit counts as too large (`decompressor.go:112`); the packed bytes
  are served (`Write`, `AllOrNothing`).
* The detector's table has `text/plain` and `audio/wav`, which `http.DetectContentType` never
  returns in this form.
* `Recoverer` logs no request id, and a handler that panics is not counted by `Metrics`.
* `RealIP` says "Take the first IP in the list" and takes the whole header.
* The rate limiter, the API keys, the audit log and the size limit are not wired into
  the server, whatever the configuration enables.

### Bounds, and why they are enough

* FsCache: two keys, so that one can be evicted, expired or deleted for another; a file
  that fits twice and one larger than the cache, so that eviction frees too little,
  enough or all; one byte, so that a write may be cut in between. `SizeBound` and
  `ItemBound` stop Sets that would push the (drifting) gauges further: eviction with
  gauges above and at the truth both happen below them. Ages beyond `Ttl` are not told
  apart, so eviction may pick any expired file: a superset of what the code does.
  Crash and failing writes are switched by `CanCrash` and `CanFail`; a failing write is
  outside `fscache_safety` because a partial file that is left uncounted breaks
  `GaugesCoverDisk` (the theorem has the same assumption). `fscache_readers` has no Delete and
  no Clear, which take the mutex as Set does; for them `NoOrphanMeta` and `DriftStays` rest on
  the theorems `NoOrphans` and `DriftStaysCorrect`.
* Redis: one key and one file, so that old and new values differ by presence only in TLC; the
  theorem has any number. One caller of each kind, one repeat, one connection and one stray
  command: enough for a SET that is executed twice, once after its caller has turned away and
  a Delete has been answered. `StrayBound` stops a time-out from leaving more commands behind.
  `Intrudes` writes bytes that do not parse. An object that another program stores under a key of
  the gateway, `{}` say, would be a hit with nil metadata (`redis.go:102-113`), which the
  handlers do not expect; the gateway never stores such a value, and the model has none.
* Decompressor: a limit of a few bytes, output below, at and above it, in one piece and in
  several, and good, cut and headless gzip.
* Gateway: two chains, one of them not enabled any more but with a file left in the cache; two
  transactions, so that the file of one could be answered for the other, and only one of them
  can be decrypted; data that unpacks, to gzip data again, and data that does not; requests that are
  rejected at each of the places where one can be (a malformed id, no client for the chain, a
  key with capitals or none, a daemon that cannot). The theorem `Isolation` has any number of
  chains and transactions. A request is taken on only while a saver is free for its Set: it
  bounds the goroutines, not what they do. No Set is lost for it.
* RpcClient, ChainManager: `RequestBound` stops new Calls and new probes, not the
  attempts of those under way. Two retries make the pauses grow.
* RateLimiter: six ticks of windows of two see three windows, a burst across two, and a
  sweep (due after five) with requests before and after it.
* Lifecycle: two chains, each absent, disabled, broken or sound, every default and three types of
  cache (that work, that only Validate knows, that only initializeCache knows). Three requests are enough for one that is answered, one cut and one whose
  Set is lost in one behaviour.

`CHECK_DEADLOCK FALSE` stands where the system may stop: callers that call no more, a
process that has ended. The other runs check deadlock.

### Fairness

Weak fairness of the steps of a goroutine that has started (the Go scheduler), of timers
and tickers, and of an attempt on the wire (the HTTP client has a timeout). Strong
fairness only for taking the RWMutex, which starves nobody (a waiting Lock keeps new
RLocks out, and Unlock lets waiting readers in), and for `CleanupStop`, where `select`
chooses at random among its ready cases. Never fair: that a client asks, goes away or
stays, that an administrator deletes, that a daemon answers well, that a signal comes,
that a write fails. For Redis: the steps of go-redis (a timeout or a reply ends each attempt,
the attempts are counted), and no step of the server or of the network.

## 4. What is proved

Every theorem holds for all values of the constants, under the named assumptions of the
modules (finiteness, ranges the configuration enforces, distinct sentinels), which TLC
evaluates too.

* **FsCacheProofs.** `ControlInv` (mutual exclusion, arguments, the file that a Set is
  writing belongs to it, a sweep's list is on disk, an expiring Get sees an expired
  file or none) is inductive with crashes and failures: `TypeCorrect`,
  `ExpiryCorrect`. `GaugesCoverDisk` alone is not inductive: `RoomInv` adds, for each
  place of Set, the room it has made or will have made. The bytes on disk are counted
  as the cardinality of the set of pairs (key, offset), which turns sums into finite
  sets without recursion: `GaugesCorrect`, `LimitHolds`. Both assume that no write
  fails, which the invariant needs: a failed write leaves bytes that no gauge counts.
  Three results need no such assumption. `KeysApart` is what is left of the cache's promise
  through crashes and failing writes: a hit may be torn (`fscache_torn`), but its content and
  its metadata were stored under the key that was asked for (`OwnerInv`). It assumes that callers store
  each file under its own key (`StoresUnder`), which `CacheUse` proves of the gateway.
  `ResetCorrect`: Clear and a restart make both gauges exact. `HoldsEnd`: whoever holds the
  mutex exclusively has at most `Rank` steps left, each takes at least one off, and nobody else
  adds any.
* **CacheBackendProofs.** Of the filesystem cache first: `PairInv` beside `ControlInv`: but for the file that a Set is
  storing, every content is whole and beside its own metadata or none (`WholeInv`); a Get
  that has read a content still finds its metadata, or none (`HitInv`); the metadata that
  is alone is the next to go (`NoOrphanMeta`, `VictimInv`). It is inductive as long as no write fails
  and the process lives: a crash or a failed write leaves a torn file (`fscache_torn`). From it `HitsPaired`, `NoOrphans`
  and the refinement `FsImplements`: Spec => KeepsPromise, in which a Get is decided when it
  reads the content or gives up, loses its metadata if it finds none (`HitInv` leaves only that
  or its own), a Set takes effect with its last byte, and truncation,
  eviction, expiry and removal are `Forget`. `DriftStaysCorrect` needs `ControlInv` alone: each action
  takes from the gauge no more bytes than from the disk; it holds through crashes, not through failed writes.
  Then of the process: `RP`, an instance of `RedisCacheProofs` on the variables of
  `CacheBackend`, brings its theorems here. `BackendRedis` and
  `BackendImplements`: whichever of the two `initializeCache` opens, the file service has the cache
  of `Cache.tla`; the other's variables stand still and so satisfy theirs.
* **RedisCacheProofs.** `RedisInv`: types, what each role may send, and that a stray command
  which still has a caller is the one its caller is busy with. Then
  `RedisImplements`: Spec => KeepsPromise, step by step; a Set that is given up while a copy
  of it is under way becomes, in `Cache`, one that may land late. The hypothesis `Assumption`
  (distinct sentinels and roles, a finite set of callers) is part of the theorem, and TLC
  evaluates it in `CacheBackend`. `RedisCallsEnd`: a call has at most three steps for each attempt
  and a few around them.
* **GatewayProofs.** `PathInv`: wherever a file travels (store, an answer of the cache, a
  Set under way, a job, a handler, a reply) it is one that a daemon decrypted and under the key of
  its own chain and transaction (`AnswerFor`), and its metadata describes its content (`Genuine`)
  but for a hit that has lost all of it (`BareHit`). In the cache there are only
  whole files (`StoredFor`): metadata is lost on the way out. A handler's place says what it holds; a File shared with a Set
  already has the name its handler would give it. From it `Isolation`, `KeyRequired`,
  `CacheGenuine`, `MetadataCorrect`, `NoSharedWrite`, `TypeCorrect`.
  `Unpacking`: Decompress is all or nothing for output of any size in any pieces. The folds
  of `Total` and `Copy` are recursive functions on the pieces; each equals the last element of the one
  sequence of partial results there is (`SumsUnique`, `CopiesUnique`), and the two run beside each
  other: the writer after i pieces is the writer after one piece as long as all of them
  (`CopyIsTotal`). Induction over Nat is `SetInduction`, a statement about subsets of Nat that is proved from finite
  cardinalities and so needs no operator parameter. `Decrypted`, the data that a daemon may
  decrypt, is any set of such data in the theorem and a small one in TLC. From it `WholeServed`.
  `CacheUse`: every step on the cache is one that `Cache` has, under the file's own key.
  `SaveInv` ties a Set under way to the File it shares with its handler: `SavesFaithful`,
  `SavesKept`. `LookupInv` says whose answer the cache holds, and `RequestsEnd` counts the
  steps to the answer, five at most unless the cache looks again.
* **RpcClientProofs.** `CallInv`: requests = errors + successes + callers on the wire (a
  cardinality), pauses made = 1 + 2 + ... (without division), and where a caller stands
  when its context has ended: `Counting`, `Cancellation`, `Persistence`, `CallTypes`.
  `CallsEnd`: a Call has at most four steps for each attempt.
* **ChainManagerProofs.** `ProbeInv` adds that the WaitGroup is the number of running
  goroutines and that a chain is waiting for its goroutine, has one or has a result:
  `Honesty`, `Tidiness`, `ProbeTypes`. `Waiting`: `/ready` never waits for nobody.
* **RateLimiterProofs.** `LimitInv`: the tokens that are gone are the requests logged since
  the refill, and the window before it holds at most `Rate`; `Bursts` and `Refusals` follow by
  splitting the last window at the refill. `Refinement`: under `LimitInv` every step of
  the limiter is one of `FixedWindow` or a stutter (a sweep; a tick with no window open).
* **LifecycleProofs.** `PhaseInv`: what Validate has let through is what the cache and the manager
  are built from (`StartInv`, from the lemmas `CacheBuilt` and `ManagerServes`); the port is open only while main serves, work is cut only
  by the end of the process, and by then the timer has expired: `Configured`,
  `Drain`, `Grace`, `PhaseTypes`. `OpenInv` adds where the deferred closes stand: `Closing`.
  `Shutdown`: main never goes back.

Every invariant and every action property of the passing runs is proved. Only model-checked: the
liveness properties, for which the prover has neither fairness nor ENABLED. Their safety
core is proved where it is a number that falls (`HoldsEnd`, `RedisCallsEnd`,
`RequestsEnd`, `CallsEnd`, `Shutdown`) or a wait that is never for nobody (`Waiting`,
`SavesKept`): what each theorem leaves to TLC is that a step which can be taken is taken in the
end, and that one can be. The formulas that only the theorems use stand in the proof modules.

## 5. What is left out

* Failures of `os.Remove` and of `os.MkdirAll`, hit and miss counters, the names of the files.
* Wording, JSON, headers, MIME tables, durations, log lines, metrics.
* A restart of the Redis server from an older snapshot, Stats of the Redis cache.
* `MustDecompress`, which nothing calls.
* In Gateway the content of a hit is whole, and its metadata whole or missing. With a crash inside a
  Set neither need be (`fscache_torn`).
* An error of closing the listener, which `http.Server.Shutdown` returns when all connections are
  done: main only logs it, and `Lifecycle` counts it as nil.
* How viper merges file, environment and defaults; stateless middleware, logger, metrics: see
  "components" in `PROJECT.json`.
* One chain's client is not shared between requests and probes in one run: `RpcClient` is
  checked with callers of any kind, `ChainManager` with those of a probe.

## 6. Plan

Done, in this order: `Cache` and `FsCache` with proofs, the refinement included; `Gateway`; `RpcClient`;
`ChainManager`; `FixedWindow` and `RateLimiter`; `Lifecycle`; `RedisCache` with the proof that
it implements `Cache`; `CacheBackend`; `Decompressor` under `Gateway`; `Startup` under `Lifecycle`;
the proofs of unpacking, of the composed backend, of what survives crashes, and of the falling
numbers behind the liveness properties.

Next:

1. FsCache: failing `os.Remove`; a proof that the item gauge drifts one way, as the size gauge does.
2. ChainManager: a number that falls for the whole probe (a sum over the chains).
3. The snapshot of `Stats` of the RPC client; API keys and middleware order, if they are wired in.
4. Runs for the divergences of section 3 that deserve one (graceful stop, exit status, 4xx), by
   merging small runs.
