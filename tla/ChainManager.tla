----------------------------- MODULE ChainManager -----------------------------
(***************************************************************************)
(* internal/chain and GET /ready: HealthCheckAll starts one goroutine for  *)
(* each enabled chain, each makes a getinfo Call on the chain's client,    *)
(* and a WaitGroup brings them together.  The clients are those of         *)
(* RpcClient; the callers are the goroutines of one probe.                 *)
(***************************************************************************)
EXTENDS RpcClient

CONSTANT Worker   \* the goroutine that checks each chain

ASSUME WorkerAssumption ==
    /\ IsFiniteSet(Client)
    /\ Worker \in [Client -> Caller]
    /\ \A c, d \in Client : Worker[c] = Worker[d] => c = d
    /\ Caller = {Worker[c] : c \in Client}

VARIABLES
    probe,      \* the handler of /ready: "idle", "spawn" or "wait"
    deadline,   \* is the probe's own 30 s context still live?
    todo,       \* chains without a goroutine yet
    running,    \* chains whose goroutine has started ...
    calling,    \* ... and has called getinfo
    wg,         \* the counter of the WaitGroup
    results,    \* what each goroutine has found
    answer      \* the last answer of /ready

probeVars == <<probe, deadline, todo, running, calling, wg, results, answer>>
allVars == <<vars, probeVars>>

InitAll ==
    /\ Init
    /\ probe = "idle"
    /\ deadline = "done"
    /\ todo = {} /\ running = {} /\ calling = {}
    /\ wg = 0
    /\ results = [c \in Client |-> "none"]
    /\ answer = "none"

\* Bound: no probe of a client that has sent RequestBound requests.
Ready ==
    /\ probe = "idle"
    /\ \A c \in Client : requests[c] < RequestBound
    /\ probe' = "spawn"
    /\ deadline' = "live"
    /\ todo' = Client
    /\ results' = [c \in Client |-> "none"]
    /\ answer' = "none"
    /\ UNCHANGED <<vars, running, calling, wg>>

\* Wrong variant: the goroutine itself adds to the WaitGroup.
SpawnUncounted(c) ==
    /\ probe = "spawn" /\ c \in todo
    /\ todo' = todo \ {c}
    /\ running' = running \cup {c}
    /\ probe' = IF todo = {c} THEN "wait" ELSE "spawn"
    /\ UNCHANGED <<vars, deadline, calling, wg, results, answer>>

Spawn(c) ==
    /\ probe = "spawn" /\ c \in todo
    /\ wg' = wg + 1
    /\ todo' = todo \ {c}
    /\ running' = running \cup {c}
    /\ probe' = IF todo = {c} THEN "wait" ELSE "spawn"
    /\ UNCHANGED <<vars, deadline, calling, results, answer>>

\* HealthCheck: getinfo under the context of the probe.
Check(c) ==
    /\ c \in running \ calling
    /\ Call(Worker[c], c, deadline)
    /\ calling' = calling \cup {c}
    /\ UNCHANGED <<probe, deadline, todo, running, wg, results, answer>>

\* Wrong variant: a failed check leaves without Done.
RecordOnlyOk(c) ==
    /\ c \in calling /\ pc[Worker[c]] = "idle"
    /\ results' = [results EXCEPT ![c] = IF result[Worker[c]] = "ok" THEN "ok" ELSE "error"]
    /\ running' = running \ {c}
    /\ calling' = calling \ {c}
    /\ wg' = IF result[Worker[c]] = "ok" THEN wg - 1 ELSE wg
    /\ UNCHANGED <<vars, probe, deadline, todo, answer>>

\* Wrong variant: Done is called and deferred as well.
RecordTwice(c) ==
    /\ c \in calling /\ pc[Worker[c]] = "idle"
    /\ results' = [results EXCEPT ![c] = "error"]
    /\ running' = running \ {c}
    /\ calling' = calling \ {c}
    /\ wg' = wg - 2
    /\ UNCHANGED <<vars, probe, deadline, todo, answer>>

\* The result is written under a mutex, then the deferred Done.  A reply that
\* is no chain information is an error as well.
Record(c) ==
    /\ c \in calling /\ pc[Worker[c]] = "idle"
    /\ \E r \in {"ok", "error"} :
          /\ r = "ok" => result[Worker[c]] = "ok"
          /\ results' = [results EXCEPT ![c] = r]
    /\ running' = running \ {c}
    /\ calling' = calling \ {c}
    /\ wg' = wg - 1
    /\ UNCHANGED <<vars, probe, deadline, todo, answer>>

\* One healthy chain is enough.
Answer ==
    /\ probe = "wait"
    /\ wg = 0
    /\ answer' = IF \E c \in Client : results[c] = "ok" THEN "ready" ELSE "unhealthy"
    /\ probe' = "idle"
    /\ deadline' = "done"
    /\ UNCHANGED <<vars, todo, running, calling, wg, results>>

\* The 30 seconds are over: every goroutine of the probe sees it.
DeadlinePasses ==
    /\ probe # "idle" /\ deadline = "live"
    /\ deadline' = "done"
    /\ ctx' = [p \in Caller |-> IF pc[p] # "idle" THEN "done" ELSE ctx[p]]
    /\ UNCHANGED <<pc, target, attempt, err, result, waited, late, countVars>>
    /\ UNCHANGED <<probe, todo, running, calling, wg, results, answer>>

Probes(p) == Work(p) /\ UNCHANGED probeVars

NextAll ==
    \/ Ready \/ Answer \/ DeadlinePasses
    \/ \E c \in Client : Spawn(c) \/ Check(c) \/ Record(c)
    \/ \E p \in Caller : Probes(p)

SpecAll == InitAll /\ [][NextAll]_allVars

\* Goroutines run, timers fire, an attempt ends; nobody need ask.
FairnessAll ==
    /\ WF_allVars(Answer)
    /\ \A c \in Client : WF_allVars(Spawn(c)) /\ WF_allVars(Check(c)) /\ WF_allVars(Record(c))
    /\ \A p \in Caller : WF_allVars(Probes(p))

FairSpecAll == SpecAll /\ FairnessAll

-----------------------------------------------------------------------------
(* Properties *)

TypeOKAll ==
    /\ TypeOK
    /\ probe \in {"idle", "spawn", "wait"}
    /\ deadline \in {"live", "done"}
    /\ todo \subseteq Client /\ running \subseteq Client /\ calling \subseteq running
    /\ wg \in Nat
    /\ results \in [Client -> {"none", "ok", "error"}]
    /\ answer \in {"none", "ready", "unhealthy"}

\* /ready speaks for every chain: it answers when each chain has been asked,
\* "ready" only if one of them is healthy, "unhealthy" only if none is.
ReadyHonest ==
    /\ answer # "none" => \A c \in Client : results[c] # "none"
    /\ answer = "ready" => \E c \in Client : results[c] = "ok"
    /\ answer = "unhealthy" => \A c \in Client : results[c] = "error"

\* No goroutine of a probe outlives the answer.
NoStragglers == probe = "idle" => running = {} /\ \A p \in Caller : pc[p] = "idle"

\* /ready answers, whatever the daemons do.
ReadyAnswers == probe # "idle" ~> probe = "idle"

-----------------------------------------------------------------------------
(* Why *)

\* The WaitGroup counts the goroutines, and a chain without one has either
\* not had its turn or has left a result.
RoundInv ==
    /\ wg = Cardinality(running)
    /\ todo \cap running = {}
    /\ probe # "spawn" => todo = {}
    /\ probe = "idle" => running = {}
    /\ \A c \in Client :
          probe # "idle" /\ c \notin todo \cup running => results[c] # "none"

WorkerInv == \A c \in Client : c \notin calling => pc[Worker[c]] = "idle"

AnswerInv == answer # "none" => probe = "idle" /\ ReadyHonest

ProbeInv == CallInv /\ TypeOKAll /\ RoundInv /\ WorkerInv /\ AnswerInv
=============================================================================
