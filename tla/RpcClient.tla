------------------------------ MODULE RpcClient ------------------------------
(***************************************************************************)
(* pkg/verusrpc: the JSON-RPC client of a chain, called by many goroutines *)
(* at once.  Call repeats a single attempt (call) with a growing pause     *)
(* until one succeeds, one fails for good, the retries are used up or the  *)
(* caller's context ends.                                                  *)
(*    Call -> send -> wire -> judge -> (backoff -> send ...) -> idle       *)
(***************************************************************************)
EXTENDS Integers, FiniteSets

CONSTANTS
    Client,       \* one client for each chain
    Caller,       \* goroutines
    MaxRetries,   \* the configured number of retries
    RequestBound  \* bound: no new Call on a client that has sent this many

ASSUME ConstantsAssumption ==
    /\ MaxRetries \in 0 .. 10      \* ChainConfig.Validate
    /\ RequestBound \in Nat
    /\ Client # {}
    /\ IsFiniteSet(Caller)

\* NewClient takes 0 for "not set".
Retries == IF MaxRetries = 0 THEN 3 ELSE MaxRetries

VARIABLES
    pc,         \* where each caller is
    target,     \* the client it calls
    ctx,        \* is its context still live?
    attempt,    \* the number of the attempt
    err,        \* how the last attempt ended: "none" is success
    result,     \* what the last Call returned
    requests,   \* requestCount of each client
    errors,     \* errorCount of each client
    \* History, read by the properties alone:
    served,     \* the attempts of each client that succeeded
    waited,     \* pauses of the Call so far, in units of retryDelay
    late        \* attempts of the Call sent after its context had ended

countVars == <<requests, errors, served>>
vars == <<pc, target, ctx, attempt, err, result, requests, errors, served, waited, late>>

\* An RPC error with a code of -32099 .. -32000 is final; a network error, a
\* status other than 200 (4xx too), a body that is not JSON and any other RPC
\* error are worth another attempt.
Failure == {"again", "final"}

Init ==
    /\ pc = [p \in Caller |-> "idle"]
    /\ target = [p \in Caller |-> CHOOSE c \in Client : TRUE]
    /\ ctx = [p \in Caller |-> "done"]
    /\ attempt = [p \in Caller |-> 0]
    /\ err = [p \in Caller |-> "none"]
    /\ result = [p \in Caller |-> "none"]
    /\ requests = [c \in Client |-> 0]
    /\ errors = [c \in Client |-> 0]
    /\ served = [c \in Client |-> 0]
    /\ waited = [p \in Caller |-> 0]
    /\ late = [p \in Caller |-> 0]

Goto(p, l) == pc' = [pc EXCEPT ![p] = l]

\* The locals of Call are gone; what the properties ask of a Call stays.
Return(p, r) ==
    /\ result' = [result EXCEPT ![p] = r]
    /\ Goto(p, "idle")
    /\ ctx' = [ctx EXCEPT ![p] = "done"]
    /\ err' = [err EXCEPT ![p] = "none"]
    /\ target' = [target EXCEPT ![p] = CHOOSE c \in Client : TRUE]
    /\ IF r = "gaveUp"
          THEN UNCHANGED <<attempt, waited>>
          ELSE attempt' = [attempt EXCEPT ![p] = 0] /\ waited' = [waited EXCEPT ![p] = 0]
    /\ UNCHANGED <<late, countVars>>

\* The context of the caller may have ended before the Call begins.
Call(p, c, live) ==
    /\ pc[p] = "idle"
    /\ Goto(p, "send")
    /\ target' = [target EXCEPT ![p] = c]
    /\ ctx' = [ctx EXCEPT ![p] = live]
    /\ attempt' = [attempt EXCEPT ![p] = 0]
    /\ err' = [err EXCEPT ![p] = "none"]
    /\ result' = [result EXCEPT ![p] = "none"]
    /\ waited' = [waited EXCEPT ![p] = 0]
    /\ late' = [late EXCEPT ![p] = 0]
    /\ UNCHANGED countVars

\* call counts the request before it is made.
Send(p) ==
    /\ pc[p] = "send"
    /\ requests' = [requests EXCEPT ![target[p]] = @ + 1]
    /\ late' = [late EXCEPT ![p] = IF ctx[p] = "live" THEN @ ELSE @ + 1]
    /\ Goto(p, "wire")
    /\ UNCHANGED <<target, ctx, attempt, err, result, errors, served, waited>>

\* An answer may still arrive after the context has ended, but nothing is sent
\* under one that had ended before.
Succeeds(p) ==
    /\ pc[p] = "wire"
    /\ late[p] = 0
    /\ err' = [err EXCEPT ![p] = "none"]
    /\ served' = [served EXCEPT ![target[p]] = @ + 1]
    /\ Goto(p, "judge")
    /\ UNCHANGED <<target, ctx, attempt, result, requests, errors, waited, late>>

\* Wrong variant: recordMetrics, given the error, counts it once more.
FailsTwice(p, e) ==
    /\ pc[p] = "wire"
    /\ late[p] > 0 => e = "again"
    /\ err' = [err EXCEPT ![p] = e]
    /\ errors' = [errors EXCEPT ![target[p]] = @ + 2]
    /\ Goto(p, "judge")
    /\ UNCHANGED <<target, ctx, attempt, result, requests, served, waited, late>>

Fails(p, e) ==
    /\ pc[p] = "wire"
    /\ late[p] > 0 => e = "again"
    /\ err' = [err EXCEPT ![p] = e]
    /\ errors' = [errors EXCEPT ![target[p]] = @ + 1]
    /\ Goto(p, "judge")
    /\ UNCHANGED <<target, ctx, attempt, result, requests, served, waited, late>>

ReturnsResult(p) ==
    /\ pc[p] = "judge" /\ err[p] = "none"
    /\ Return(p, "ok")

ReturnsContextError(p) ==
    /\ \/ pc[p] = "judge" /\ err[p] # "none"
       \/ pc[p] = "backoff"
    /\ ctx[p] = "done"
    /\ Return(p, "context")

ReturnsFinal(p) ==
    /\ pc[p] = "judge" /\ ctx[p] = "live" /\ err[p] = "final"
    /\ Return(p, "final")

\* Wrong variant: the loop ends one attempt early.
GivesUpEarly(p) ==
    /\ pc[p] = "judge" /\ ctx[p] = "live" /\ err[p] = "again"
    /\ attempt[p] >= Retries - 1
    /\ Return(p, "gaveUp")

GivesUp(p) ==
    /\ pc[p] = "judge" /\ ctx[p] = "live" /\ err[p] = "again"
    /\ attempt[p] = Retries
    /\ Return(p, "gaveUp")

\* Wrong variant: a context that has ended does not end the loop.
RetriesRegardless(p) ==
    /\ pc[p] = "judge" /\ err[p] = "again"
    /\ attempt[p] < Retries
    /\ attempt' = [attempt EXCEPT ![p] = @ + 1]
    /\ Goto(p, "backoff")
    /\ UNCHANGED <<target, ctx, err, result, waited, late, countVars>>

\* Wrong variant: the loop ends one attempt late.
RetriesOnceMore(p) ==
    /\ pc[p] = "judge" /\ ctx[p] = "live" /\ err[p] = "again"
    /\ attempt[p] <= Retries
    /\ attempt' = [attempt EXCEPT ![p] = @ + 1]
    /\ Goto(p, "backoff")
    /\ UNCHANGED <<target, ctx, err, result, waited, late, countVars>>

Retry(p) ==
    /\ pc[p] = "judge" /\ ctx[p] = "live" /\ err[p] = "again"
    /\ attempt[p] < Retries
    /\ attempt' = [attempt EXCEPT ![p] = @ + 1]
    /\ Goto(p, "backoff")
    /\ UNCHANGED <<target, ctx, err, result, waited, late, countVars>>

\* Wrong variant: the pause waits for the context alone.
PauseEndsWithContext(p) ==
    /\ pc[p] = "backoff" /\ ctx[p] = "done"
    /\ waited' = [waited EXCEPT ![p] = @ + attempt[p]]
    /\ Goto(p, "send")
    /\ UNCHANGED <<target, ctx, attempt, err, result, late, countVars>>

\* The timer fires; when the context has ended too, select takes either.
PauseEnds(p) ==
    /\ pc[p] = "backoff"
    /\ waited' = [waited EXCEPT ![p] = @ + attempt[p]]
    /\ Goto(p, "send")
    /\ UNCHANGED <<target, ctx, attempt, err, result, late, countVars>>

Cancel(p) ==
    /\ pc[p] # "idle" /\ ctx[p] = "live"
    /\ ctx' = [ctx EXCEPT ![p] = "done"]
    /\ UNCHANGED <<pc, target, attempt, err, result, waited, late, countVars>>

Work(p) ==
    \/ Send(p) \/ Succeeds(p) \/ \E e \in Failure : Fails(p, e)
    \/ ReturnsResult(p) \/ ReturnsContextError(p) \/ ReturnsFinal(p)
    \/ GivesUp(p) \/ Retry(p) \/ PauseEnds(p)

Next ==
    \E p \in Caller :
        \/ Work(p)
        \/ Cancel(p)
        \/ \E c \in Client, l \in {"live", "done"} :
              requests[c] < RequestBound /\ Call(p, c, l)

Spec == Init /\ [][Next]_vars

\* Goroutines run, timers fire, and the HTTP target's timeout ends an attempt.
Fairness == \A p \in Caller : WF_vars(Work(p))

FairSpec == Spec /\ Fairness

-----------------------------------------------------------------------------
(* Properties *)

TypeOK ==
    /\ pc \in [Caller -> {"idle", "send", "wire", "judge", "backoff"}]
    /\ target \in [Caller -> Client]
    /\ ctx \in [Caller -> {"live", "done"}]
    /\ attempt \in [Caller -> 0 .. Retries]
    /\ err \in [Caller -> {"none"} \cup Failure]
    /\ result \in [Caller -> {"none", "ok", "context", "final", "gaveUp"}]
    /\ requests \in [Client -> Nat]
    /\ errors \in [Client -> Nat]
    /\ served \in [Client -> Nat]
    /\ waited \in [Caller -> Nat]
    /\ late \in [Caller -> 0 .. 1]

OnWire(c) == {p \in Caller : pc[p] = "wire" /\ target[p] = c}

\* However many goroutines share a client, its counters are those of the
\* attempts made: each is a success, one error, or still on its way.
CountersExact ==
    \A c \in Client : requests[c] = errors[c] + served[c] + Cardinality(OnWire(c))

\* Once the context of a Call has ended at most one more attempt is begun (the
\* select may prefer the timer), and it is never one that succeeds.
CancelStops ==
    \A p \in Caller : late[p] <= 1 /\ (late[p] = 1 => result[p] \in {"none", "context"})

\* "failed after n attempts" is the truth: all retries were made, each after
\* its own, longer pause.
GivesUpHonestly ==
    \A p \in Caller : result[p] = "gaveUp" =>
        /\ attempt[p] = Retries
        /\ 2 * waited[p] = Retries * (Retries + 1)

\* Every Call returns, whatever the daemon does and if no context ever ends.
CallsReturn == \A p \in Caller : pc[p] # "idle" ~> pc[p] = "idle"

-----------------------------------------------------------------------------
(* Why *)

\* The pauses made are those of the attempts begun: 1 + 2 + ... .
PausesInv ==
    \A p \in Caller :
        2 * waited[p] = attempt[p] * (IF pc[p] = "backoff" THEN attempt[p] - 1 ELSE attempt[p] + 1)

\* Where a caller stands says what it has and has not got.
ControlInv ==
    \A p \in Caller :
        /\ result[p] # "none" => pc[p] = "idle"
        /\ result[p] = "gaveUp" => attempt[p] = Retries
        /\ late[p] > 0 =>
              /\ ctx[p] = "done"
              /\ pc[p] \in {"wire", "judge", "idle"}
              /\ pc[p] = "judge" => err[p] # "none"
              /\ pc[p] = "idle" => result[p] = "context"

CallInv == TypeOK /\ PausesInv /\ ControlInv /\ CountersExact
=============================================================================
