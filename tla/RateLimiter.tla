----------------------------- MODULE RateLimiter -----------------------------
(***************************************************************************)
(* internal/http/middleware/ratelimit.go: a map of visitors under a mutex, *)
(* and a goroutine that removes those not seen for two windows.            *)
(***************************************************************************)
EXTENDS Integers, FiniteSets

CONSTANTS
    IP,       \* what getClientIP returns
    Rate,     \* requests per window
    Window,   \* in ticks
    Horizon   \* bound: the clock stops here

ASSUME ConstantsAssumption ==
    /\ Rate \in Nat \ {0}
    /\ Window \in Nat \ {0}
    /\ Horizon \in Nat

VARIABLES
    now,
    visitors,  \* the map: a visitor or Absent for each IP
    answer,    \* the last answer to each IP
    log        \* history: the requests of each IP that were let through

vars == <<now, visitors, answer, log>>

Absent == [tokens |-> -1, lastSeen |-> -1, lastRefill |-> -1]
Visitor == [tokens : 0 .. Rate, lastSeen : Nat, lastRefill : Nat]

Present(ip) == visitors[ip] # Absent

Init ==
    /\ now = 0
    /\ visitors = [ip \in IP |-> Absent]
    /\ answer = [ip \in IP |-> "none"]
    /\ log = [ip \in IP |-> {}]

\* Wrong variant: the refill adds to what is left.
RefilledMore(v) ==
    IF now - v.lastRefill >= Window
       THEN [tokens |-> v.tokens + Rate, lastSeen |-> now, lastRefill |-> now]
       ELSE [v EXCEPT !.lastSeen = now]

\* Wrong variant: the refill is due one tick early.
RefilledEarly(v) ==
    IF now - v.lastRefill >= Window - 1
       THEN [tokens |-> Rate, lastSeen |-> now, lastRefill |-> now]
       ELSE [v EXCEPT !.lastSeen = now]

\* Wrong variant: the refill counts from the last request.
RefilledSinceSeen(v) ==
    IF now - v.lastSeen >= Window
       THEN [tokens |-> Rate, lastSeen |-> now, lastRefill |-> now]
       ELSE [v EXCEPT !.lastSeen = now]

\* The visitor with its last request, and its tokens if the window has passed.
Refilled(v) ==
    IF now - v.lastRefill >= Window
       THEN [tokens |-> Rate, lastSeen |-> now, lastRefill |-> now]
       ELSE [v EXCEPT !.lastSeen = now]

Answer(ip, a) ==
    /\ answer' = [answer EXCEPT ![ip] = a]
    /\ log' = IF a = "granted" THEN [log EXCEPT ![ip] = @ \cup {<<now, Cardinality(@)>>}] ELSE log
    /\ UNCHANGED now

NewVisitor(ip) ==
    /\ ~Present(ip)
    /\ visitors' = [visitors EXCEPT ![ip] =
                      [tokens |-> Rate - 1, lastSeen |-> now, lastRefill |-> now]]
    /\ Answer(ip, "granted")

Allow(ip) ==
    /\ Present(ip)
    /\ Refilled(visitors[ip]).tokens > 0
    /\ visitors' = [visitors EXCEPT ![ip] =
                      [Refilled(@) EXCEPT !.tokens = Refilled(visitors[ip]).tokens - 1]]
    /\ Answer(ip, "granted")

Refuse(ip) ==
    /\ Present(ip)
    /\ Refilled(visitors[ip]).tokens = 0
    /\ visitors' = [visitors EXCEPT ![ip] = Refilled(@)]
    /\ Answer(ip, "refused")

\* Wrong variant: every visitor goes.
CleanupAll ==
    /\ visitors' = [ip \in IP |-> Absent]
    /\ UNCHANGED <<now, answer, log>>

\* The ticker of cleanupVisitors: one sweep under the lock.
Cleanup ==
    /\ visitors' = [ip \in IP |->
          IF Present(ip) /\ now - visitors[ip].lastSeen > 2 * Window THEN Absent ELSE visitors[ip]]
    /\ UNCHANGED <<now, answer, log>>

Tick ==
    /\ now < Horizon
    /\ now' = now + 1
    /\ UNCHANGED <<visitors, answer, log>>

Next == Tick \/ Cleanup \/ \E ip \in IP : NewVisitor(ip) \/ Allow(ip) \/ Refuse(ip)

Spec == Init /\ [][Next]_vars

-----------------------------------------------------------------------------
(* Properties *)

TypeOK ==
    /\ now \in 0 .. Horizon
    /\ visitors \in [IP -> Visitor \cup {Absent}]
    /\ answer \in [IP -> {"none", "granted", "refused"}]
    /\ log \in [IP -> SUBSET (Nat \X Nat)]

\* The requests of an IP let through in the time from (not with) t on.
Since(ip, t) == {g \in log[ip] : g[1] > t}

\* The price of a window that begins with a request: in any stretch of time as
\* long as a window at most twice the rate is let through, clean-up or not.
BurstBound == \A ip \in IP : Cardinality(Since(ip, now - Window)) <= 2 * Rate

\* Nobody is refused who has not used up the rate within the last window, so
\* the Retry-After of a refusal (one window) is always enough.
NoFalseRefusal ==
    [][\A ip \in IP : Refuse(ip) => Cardinality(Since(ip, now - Window)) >= Rate]_vars

\* The clean-up is invisible: every IP is treated as a limiter treats it that
\* never forgets anyone.
Age(ip) == now - visitors[ip].lastRefill
WindowOpen(ip) == Present(ip) /\ Age(ip) < Window

Promise == INSTANCE FixedWindow WITH
    left <- [ip \in IP |-> IF WindowOpen(ip) THEN visitors[ip].tokens ELSE Rate],
    reset <- [ip \in IP |-> IF WindowOpen(ip) THEN Window - Age(ip) ELSE 0]

KeepsPromise == Promise!Spec

-----------------------------------------------------------------------------
(* Why *)

\* What was let through since the last refill, and in the window before it.
Current(v, L) == {g \in L : g[1] >= v.lastRefill}
Former(v, L) == {g \in L : v.lastRefill - Window < g[1] /\ g[1] < v.lastRefill}

Numbered(L) ==
    /\ IsFiniteSet(L)
    /\ \A g \in L : g[1] <= now /\ g[2] < Cardinality(L)

\* The tokens that are gone went to requests, and no request is seen in a
\* window that is over without a refill.
Balanced(v, L) ==
    /\ Cardinality(Current(v, L)) = Rate - v.tokens
    /\ Cardinality(Former(v, L)) <= Rate
    /\ v.lastRefill <= v.lastSeen /\ v.lastSeen <= now
    /\ v.lastSeen - v.lastRefill < Window
    /\ \A g \in L : g[1] <= v.lastSeen

LimitInv ==
    /\ TypeOK
    /\ \A ip \in IP :
          /\ Numbered(log[ip])
          /\ Present(ip) => Balanced(visitors[ip], log[ip])
          /\ ~Present(ip) => \A g \in log[ip] : g[1] <= now - Window
=============================================================================
