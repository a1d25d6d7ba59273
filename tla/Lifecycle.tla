------------------------------ MODULE Lifecycle ------------------------------
(***************************************************************************)
(* cmd/gateway/main.go and the HTTP server: from the configuration through *)
(* a signal or a server error to the end of the process, with the requests *)
(* and the background Sets that are under way meanwhile.                   *)
(*    loading -> caching -> chaining                                       *)
(*       -> serving -> draining -> waiting -> closing -> exited            *)
(* or, from one of the first three, -> failed                              *)
(***************************************************************************)
EXTENDS Integers, Startup

CONSTANTS
    Req,          \* requests
    ReadTimeout   \* server.read_timeout, in seconds

ASSUME ConstantsAssumption == ReadTimeout \in 0 .. 3600

VARIABLES
    conf,       \* the configuration
    main,       \* where main is
    manager,    \* the chain manager's clients and default
    listener,   \* "new", "open", "closed" or "failed"
    serverErr,  \* has ListenAndServe put its error into the channel?
    signalled,  \* has a signal ended ctx?
    timer,      \* shutdownCtx: "off", "running" or "expired"
    drained,    \* what Shutdown returned: "none", "nil" or "deadline"
    said,       \* the last word of main
    chains,     \* is the chain manager "none" yet, "open" or "closed"?
    cache,      \* is the cache?
    req,        \* the state of each request
    inTime,     \* is its context live when the request arrives?
    save        \* the state of its background Set

startVars == <<conf, manager>>
mainVars == <<main, timer, drained, said, chains, cache, startVars>>
serverVars == <<listener, serverErr>>
requestVars == <<req, inTime, save>>
vars == <<mainVars, serverVars, signalled, requestVars>>

\* server.go multiplies the Duration, nanoseconds already, by time.Second: for
\* n seconds the int64 holds n * 10^18 mod 2^64.  Limbs of 16 bits, the least
\* first; the sign is the top bit.
Limb == [i \in 0 .. 3 |-> CASE i = 0 -> 0 [] i = 1 -> 42852 [] i = 2 -> 46771 [] i = 3 -> 3552]

Upto[n \in 0 .. 3600, i \in 0 .. 3] ==
    n * Limb[i] + (IF i = 0 THEN 0 ELSE Upto[n, i - 1] \div 65536)

\* The Duration the code computes for n seconds is more than nothing.
ScaledPositive(n) ==
    /\ Upto[n, 3] % 65536 < 32768
    /\ n # 0

Init ==
    /\ conf \in Config
    /\ main = "loading"
    /\ manager = [clients |-> {}, default |-> NoName]
    /\ listener = "new"
    /\ serverErr = FALSE
    /\ signalled = FALSE
    /\ timer = "off"
    /\ drained = "none"
    /\ said = "nothing"
    /\ chains = "none"
    /\ cache = "none"
    /\ req = [r \in Req |-> "none"]
    /\ inTime = [r \in Req |-> TRUE]
    /\ save = [r \in Req |-> "none"]

Starting == main \in {"loading", "caching", "chaining"}
Running == ~Starting /\ main \notin {"exited", "failed"}
ShuttingDown == main \in {"draining", "waiting", "closing"}

-----------------------------------------------------------------------------
(* The start.  log.Fatal ends the process without the deferred calls.      *)

LoadsConfig ==
    /\ main = "loading"
    /\ main' = IF Validate(conf) THEN "caching" ELSE "failed"
    /\ UNCHANGED <<startVars, timer, drained, said, chains, cache, serverVars, signalled, requestVars>>

InitializesCache ==
    /\ main = "caching"
    /\ IF CacheOf(conf) = {}
       THEN main' = "failed" /\ UNCHANGED cache
       ELSE main' = "chaining" /\ cache' \in CacheOf(conf)
    /\ UNCHANGED <<startVars, timer, drained, said, chains, serverVars, signalled, requestVars>>

InitializesChains ==
    /\ main = "chaining"
    /\ IF NewManager(conf) = {}
       THEN main' = "failed" /\ UNCHANGED <<manager, chains>>
       ELSE main' = "serving" /\ manager' \in NewManager(conf) /\ chains' = "open"
    /\ UNCHANGED <<conf, timer, drained, said, cache, serverVars, signalled, requestVars>>

\* The file cannot be read, the log not be opened, the cache's directory not be
\* made or Redis not be reached; or a signal comes, which nothing catches yet.
StartFails ==
    /\ Starting
    /\ main' = "failed"
    /\ UNCHANGED <<startVars, timer, drained, said, chains, cache, serverVars, signalled, requestVars>>

Start == LoadsConfig \/ InitializesCache \/ InitializesChains

-----------------------------------------------------------------------------
(* The goroutine of the listener.  net/http: ListenAndServe refuses to open *)
(* the port after Shutdown, and fails when Shutdown closes it.             *)

\* Wrong variant: Shutdown leaves no mark on the server.
ListenRegardless ==
    /\ Running /\ listener = "new"
    /\ listener' = "open"
    /\ UNCHANGED <<mainVars, serverErr, signalled, requestVars>>

Listen ==
    /\ main = "serving" /\ listener = "new"
    /\ listener' = "open"
    /\ UNCHANGED <<mainVars, serverErr, signalled, requestVars>>

\* The port is taken, or Accept fails for good.
ListenFails ==
    /\ main = "serving" /\ listener \in {"new", "open"}
    /\ listener' = "failed"
    /\ UNCHANGED <<mainVars, serverErr, signalled, requestVars>>

RefusesToListen ==
    /\ ShuttingDown /\ listener = "new"
    /\ listener' = "closed"
    /\ UNCHANGED <<mainVars, serverErr, signalled, requestVars>>

\* The error, ErrServerClosed as well, goes into a channel with room for one.
StartReturns ==
    /\ Running /\ listener \in {"closed", "failed"} /\ ~serverErr
    /\ serverErr' = TRUE
    /\ UNCHANGED <<mainVars, listener, signalled, requestVars>>

-----------------------------------------------------------------------------
(* Requests *)

Accept(r) ==
    /\ Running /\ listener = "open" /\ req[r] = "none"
    /\ req' = [req EXCEPT ![r] = "active"]
    /\ inTime' = [inTime EXCEPT ![r] = ScaledPositive(ReadTimeout)]
    /\ UNCHANGED <<mainVars, serverVars, signalled, save>>

\* A request whose context has ended gets nothing from cache or daemon.
AnswerError(r) ==
    /\ Running /\ req[r] = "active"
    /\ req' = [req EXCEPT ![r] = "answered"]
    /\ UNCHANGED <<mainVars, serverVars, signalled, inTime, save>>

\* A file, from the cache or from the daemon; the latter is also saved.
AnswerFile(r, miss) ==
    /\ Running /\ req[r] = "active" /\ inTime[r]
    /\ req' = [req EXCEPT ![r] = "answered"]
    /\ save' = [save EXCEPT ![r] = IF miss THEN "running" ELSE @]
    /\ UNCHANGED <<mainVars, serverVars, signalled, inTime>>

\* The Set succeeds or fails, or its 5 seconds are over.
SaveEnds(r) ==
    /\ Running /\ save[r] = "running"
    /\ save' = [save EXCEPT ![r] = "done"]
    /\ UNCHANGED <<mainVars, serverVars, signalled, req, inTime>>

-----------------------------------------------------------------------------
(* main *)

\* NotifyContext keeps the signals of a process that is shutting down as well.
Signal ==
    /\ Running /\ ~signalled
    /\ signalled' = TRUE
    /\ UNCHANGED <<mainVars, serverVars, requestVars>>

Active == {r \in Req : req[r] = "active"}

\* Wrong variant: a server that fails ends nothing.
BeginShutdownOnSignal ==
    /\ main = "serving" /\ signalled
    /\ main' = "draining"
    /\ timer' = "running"
    /\ listener' = IF listener = "open" THEN "closed" ELSE listener
    /\ UNCHANGED <<startVars, drained, said, chains, cache, serverErr, signalled, requestVars>>

\* select, WithTimeout, Shutdown: the listener is closed before all else.
BeginShutdown ==
    /\ main = "serving" /\ (signalled \/ serverErr)
    /\ main' = "draining"
    /\ timer' = "running"
    /\ listener' = IF listener = "open" THEN "closed" ELSE listener
    /\ UNCHANGED <<startVars, drained, said, chains, cache, serverErr, signalled, requestVars>>

TimerExpires ==
    /\ Running /\ timer = "running"
    /\ timer' = "expired"
    /\ UNCHANGED <<startVars, main, drained, said, chains, cache, serverVars, signalled, requestVars>>

\* Wrong variant: a server that has failed is not shut down.
ShutdownSkipped ==
    /\ main = "draining"
    /\ \/ Active = {} /\ drained' = "nil"
       \/ timer = "expired" /\ drained' = "deadline"
       \/ serverErr /\ drained' = drained
    /\ main' = "waiting"
    /\ UNCHANGED <<startVars, timer, said, chains, cache, serverVars, signalled, requestVars>>

\* Shutdown waits for the connections, or for the deadline.  An error of closing the
\* listener, which main only logs, counts as nil here.
ShutdownReturns ==
    /\ main = "draining"
    /\ \/ Active = {} /\ drained' = "nil"
       \/ timer = "expired" /\ drained' = "deadline"
    /\ main' = "waiting"
    /\ UNCHANGED <<startVars, timer, said, chains, cache, serverVars, signalled, requestVars>>

\* Wrong variant: main goes on as soon as Shutdown has returned.
ReportsAtOnce ==
    /\ main = "waiting"
    /\ said' = IF timer = "expired" THEN "timeout" ELSE "gracefully"
    /\ main' = "closing"
    /\ UNCHANGED <<startVars, timer, drained, chains, cache, serverVars, signalled, requestVars>>

\* <-shutdownCtx.Done(): the cancel is deferred, so only the deadline ends it.
Reports ==
    /\ main = "waiting" /\ timer = "expired"
    /\ said' = "timeout"
    /\ main' = "closing"
    /\ UNCHANGED <<startVars, timer, drained, chains, cache, serverVars, signalled, requestVars>>

\* The deferred calls, the last one first.
ClosesChains ==
    /\ main = "closing" /\ chains = "open"
    /\ chains' = "closed"
    /\ UNCHANGED <<startVars, main, timer, drained, said, cache, serverVars, signalled, requestVars>>

ClosesCache ==
    /\ main = "closing" /\ chains = "closed" /\ cache = "open"
    /\ cache' = "closed"
    /\ UNCHANGED <<startVars, main, timer, drained, said, chains, serverVars, signalled, requestVars>>

\* The process ends, whoever is still at work, and its status is 0.
Exits ==
    /\ main = "closing" /\ chains = "closed" /\ cache # "open"
    /\ main' = "exited"
    /\ req' = [r \in Req |-> IF req[r] = "active" THEN "cut" ELSE req[r]]
    /\ save' = [r \in Req |-> IF save[r] = "running" THEN "lost" ELSE save[r]]
    /\ UNCHANGED <<startVars, timer, drained, said, chains, cache, serverVars, signalled, inTime>>

Main == Start \/ BeginShutdown \/ ShutdownReturns \/ Reports \/ ClosesChains \/ ClosesCache \/ Exits

Next ==
    \/ Listen \/ ListenFails \/ RefusesToListen \/ StartReturns
    \/ Signal \/ TimerExpires \/ StartFails \/ Main
    \/ \E r \in Req :
          \/ Accept(r) \/ AnswerError(r) \/ SaveEnds(r)
          \/ \E miss \in BOOLEAN : AnswerFile(r, miss)

Spec == Init /\ [][Next]_vars

\* Goroutines run and time passes.  No start need fail, no signal come, no listener fail, and
\* no request be answered before the deadline.
Fairness == WF_vars(Main) /\ WF_vars(TimerExpires) /\ WF_vars(StartReturns)

FairSpec == Spec /\ Fairness

-----------------------------------------------------------------------------
(* Properties *)

\* The type of every variable, and the order of the phases: the timer is
\* started with the shutdown, and main waits when Shutdown has returned.
TypeOK ==
    /\ conf \in Config
    /\ main \in {"loading", "caching", "chaining", "failed"} \cup
                {"serving", "draining", "waiting", "closing", "exited"}
    /\ manager \in [clients : SUBSET Name, default : Name \cup {NoName}]
    /\ listener \in {"new", "open", "closed", "failed"}
    /\ serverErr \in BOOLEAN /\ signalled \in BOOLEAN
    /\ timer \in {"off", "running", "expired"} 
    /\ timer = "off" <=> Starting \/ main \in {"failed", "serving"}
    /\ drained \in {"none", "nil", "deadline"}
    /\ drained = "none" <=> Starting \/ main \in {"failed", "serving", "draining"}
    /\ said \in {"nothing", "gracefully", "timeout"}
    /\ chains \in {"none", "open", "closed"} /\ cache \in {"none", "open", "closed"}
    /\ req \in [Req -> {"none", "active", "answered", "cut"}]
    /\ inTime \in [Req -> BOOLEAN]
    /\ save \in [Req -> {"none", "running", "done", "lost"}]

\* Three parts of the program judge the configuration, each by its own rules: a
\* process that has come to serve has a cache, a client for exactly the chains
\* that are enabled, each with sound settings, and the configured default, if
\* any, among them.
ServesConfigured ==
    ~Starting /\ main # "failed" =>
        /\ cache # "none"
        /\ manager.clients = {n \in Name : conf.chains[n] = "sound"}
        /\ manager.default \in manager.clients
        /\ conf.default \in {NoName, manager.default}

\* Once Shutdown has returned without an error no request is under way, none
\* is begun any more and none is cut: chains and cache are closed under a
\* request only when the deadline had passed.  A signal may come before the
\* goroutine of the listener has run at all.
DrainedStays == drained = "nil" => \A r \in Req : req[r] \notin {"active", "cut"}

\* Nothing joins the background Sets.  One is lost only after main has waited
\* for the whole of the shutdown timeout.
SavesHaveGrace == \A r \in Req : save[r] = "lost" => said = "timeout" /\ timer = "expired"

\* After a signal or a failure of the server the process ends, whatever the
\* requests do.
ExitsInTime == signalled \/ listener = "failed" ~> main = "exited"

\* "Timeout - add request timeout": a request has time left when it arrives.
TimeGranted == \A r \in Req : inTime[r]

-----------------------------------------------------------------------------
(* Why *)

\* Work is cut off by the end of the process alone.
CutInv == \A r \in Req : req[r] = "cut" \/ save[r] = "lost" => main = "exited"

\* What each step of the start leaves for the next.
StartInv ==
    /\ main # "loading" /\ main # "failed" => Validate(conf)
    /\ main = "chaining" => cache # "none"
    /\ Starting => listener = "new"
    /\ Starting => chains = "none"
    /\ ServesConfigured

\* The port is open only while main serves, and nobody is at work behind a
\* Shutdown that returned nil.
PhaseInv ==
    /\ TypeOK
    /\ StartInv
    /\ listener = "open" => main = "serving"
    /\ DrainedStays
    /\ main \in {"closing", "exited"} => said = "timeout" /\ timer = "expired"
    /\ CutInv
=============================================================================
