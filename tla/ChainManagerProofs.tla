-------------------------- MODULE ChainManagerProofs --------------------------
(***************************************************************************)
(* Theorems about ChainManager for any number of chains, any number of     *)
(* retries and probes one after the other.                                 *)
(***************************************************************************)
EXTENDS ChainManager, RpcClientProofs

LEMMA RunningFinite ==
    ASSUME TypeOKAll
    PROVE  IsFiniteSet(running) /\ Cardinality(running) \in Nat
BY WorkerAssumption, FS_Subset, FS_CardinalityType DEF TypeOKAll

LEMMA InitProbe == InitAll => ProbeInv
<1> SUFFICES ASSUME InitAll PROVE ProbeInv
  OBVIOUS
<1>1. CallInv
  BY InitCall DEF InitAll
<1>2. TypeOKAll
  BY <1>1 DEF InitAll, TypeOKAll, CallInv
<1>3. RoundInv
  BY FS_EmptySet DEF InitAll, RoundInv
<1>4. WorkerInv
  BY WorkerAssumption DEF InitAll, Init, WorkerInv
<1> QED
  BY <1>1, <1>2, <1>3, <1>4 DEF InitAll, AnswerInv, ProbeInv

\* What leaves the variables of RpcClient alone keeps its invariant.
LEMMA CallsKept ==
    ASSUME ProbeInv, UNCHANGED vars
    PROVE  CallInv' /\ TypeOK' /\ pc' = pc
BY StepIdle DEF ProbeInv, CallInv, vars

LEMMA StepReady ==
    ASSUME ProbeInv, Ready
    PROVE  ProbeInv'
<1>1. CallInv' /\ TypeOK' /\ pc' = pc
  BY CallsKept DEF Ready
<1>2. TypeOKAll'
  BY <1>1 DEF ProbeInv, TypeOKAll, Ready
<1>3. RoundInv'
  BY DEF ProbeInv, RoundInv, TypeOKAll, Ready
<1>4. WorkerInv' /\ AnswerInv'
  BY <1>1 DEF ProbeInv, WorkerInv, AnswerInv, Ready
<1> QED
  BY <1>1, <1>2, <1>3, <1>4 DEF ProbeInv

LEMMA StepSpawn ==
    ASSUME ProbeInv, NEW c \in Client, Spawn(c)
    PROVE  ProbeInv'
<1>1. CallInv' /\ TypeOK' /\ pc' = pc
  BY CallsKept DEF Spawn
<1>2. TypeOKAll'
  BY <1>1 DEF ProbeInv, TypeOKAll, Spawn
<1>3. RoundInv'
  <2>1. c \notin running
    BY DEF ProbeInv, RoundInv, Spawn
  <2>2. Cardinality(running \cup {c}) = Cardinality(running) + 1
    BY <2>1, RunningFinite, FS_AddElement DEF ProbeInv
  <2>3. wg' = Cardinality(running')
    BY <2>2 DEF ProbeInv, RoundInv, Spawn
  <2> QED
    BY <2>3 DEF ProbeInv, RoundInv, TypeOKAll, Spawn
<1>4. WorkerInv' /\ AnswerInv'
  BY <1>1 DEF ProbeInv, WorkerInv, AnswerInv, Spawn
<1> QED
  BY <1>1, <1>2, <1>3, <1>4 DEF ProbeInv

LEMMA StepCheck ==
    ASSUME ProbeInv, NEW c \in Client, Check(c)
    PROVE  ProbeInv'
<1>0. Worker[c] \in Caller /\ deadline \in {"live", "done"}
  BY WorkerAssumption DEF ProbeInv, TypeOKAll
<1>1. CallInv' /\ TypeOK'
  BY <1>0, StepCall DEF ProbeInv, CallInv, Check
<1>2. TypeOKAll'
  BY <1>1 DEF ProbeInv, TypeOKAll, Check
<1>3. RoundInv' /\ AnswerInv'
  BY DEF ProbeInv, RoundInv, AnswerInv, ReadyHonest, Check
<1>4. WorkerInv'
  BY <1>0, WorkerAssumption DEF ProbeInv, WorkerInv, TypeOKAll, TypeOK, Check, Call, Goto
<1> QED
  BY <1>1, <1>2, <1>3, <1>4 DEF ProbeInv

LEMMA StepRecord ==
    ASSUME ProbeInv, NEW c \in Client, Record(c)
    PROVE  ProbeInv'
<1>1. CallInv' /\ TypeOK' /\ pc' = pc
  BY CallsKept DEF Record
<1>2. c \in running /\ running' = running \ {c} /\ probe # "idle"
  BY DEF ProbeInv, TypeOKAll, RoundInv, Record
<1>3. Cardinality(running') = Cardinality(running) - 1 /\ Cardinality(running') \in Nat
  <2>1. IsFiniteSet(running')
    BY <1>2, RunningFinite, FS_RemoveElement DEF ProbeInv
  <2> QED
    BY <2>1, <1>2, RunningFinite, FS_RemoveElement, FS_CardinalityType DEF ProbeInv
<1>4. wg' = Cardinality(running')
  BY <1>3 DEF ProbeInv, RoundInv, Record
<1>5. TypeOKAll'
  BY <1>1, <1>3, <1>4 DEF ProbeInv, TypeOKAll, Record
<1>6. RoundInv'
  BY <1>2, <1>4 DEF ProbeInv, RoundInv, TypeOKAll, Record
<1>7. WorkerInv' /\ AnswerInv'
  BY <1>1, <1>2 DEF ProbeInv, WorkerInv, AnswerInv, Record
<1> QED
  BY <1>1, <1>5, <1>6, <1>7 DEF ProbeInv

LEMMA StepAnswer ==
    ASSUME ProbeInv, Answer
    PROVE  ProbeInv'
<1>1. CallInv' /\ TypeOK' /\ pc' = pc
  BY CallsKept DEF Answer
<1>2. running = {} /\ todo = {}
  BY RunningFinite, FS_EmptySet DEF ProbeInv, RoundInv, Answer
<1>3. \A c \in Client : results[c] # "none"
  BY <1>2 DEF ProbeInv, RoundInv, Answer
<1>4. TypeOKAll'
  BY <1>1 DEF ProbeInv, TypeOKAll, Answer
<1>5. RoundInv'
  BY <1>2, FS_EmptySet DEF ProbeInv, RoundInv, Answer
<1>6. WorkerInv'
  BY <1>1 DEF ProbeInv, WorkerInv, Answer
<1>7. AnswerInv'
  BY <1>3 DEF ProbeInv, TypeOKAll, AnswerInv, ReadyHonest, Answer
<1> QED
  BY <1>1, <1>4, <1>5, <1>6, <1>7 DEF ProbeInv

LEMMA StepDeadline ==
    ASSUME ProbeInv, DeadlinePasses
    PROVE  ProbeInv'
<1>1. CallInv' /\ TypeOK'
  <2>1. /\ ctx' \in [Caller -> {"live", "done"}]
        /\ \A p \in Caller : ctx'[p] # ctx[p] => ctx'[p] = "done"
    BY DEF ProbeInv, CallInv, TypeOK, DeadlinePasses
  <2> QED
    BY <2>1, ContextsEnd DEF ProbeInv, CallInv, DeadlinePasses
<1> QED
  BY <1>1 DEF ProbeInv, TypeOKAll, RoundInv, WorkerInv, AnswerInv, ReadyHonest, DeadlinePasses

\* A goroutine of the probe that works in its Call is a calling one.
LEMMA StepProbes ==
    ASSUME ProbeInv, NEW p \in Caller, Probes(p)
    PROVE  ProbeInv'
<1>1. CallInv' /\ TypeOK'
  BY StepWork DEF ProbeInv, CallInv, Probes
<1>2. pc[p] # "idle" /\ \A q \in Caller \ {p} : pc'[q] = pc[q]
  BY DEF ProbeInv, CallInv, TypeOK, Probes, Work, Send, Succeeds, Fails, ReturnsResult,
         ReturnsContextError, ReturnsFinal, GivesUp, Retry, PauseEnds, Return, Goto
<1>3. WorkerInv'
  BY <1>2, WorkerAssumption DEF ProbeInv, WorkerInv, Probes, probeVars
<1> QED
  BY <1>1, <1>3
     DEF ProbeInv, TypeOKAll, RoundInv, AnswerInv, ReadyHonest, Probes, probeVars

LEMMA StepNothing == ProbeInv /\ UNCHANGED allVars => ProbeInv'
<1> SUFFICES ASSUME ProbeInv, UNCHANGED allVars PROVE ProbeInv'
  OBVIOUS
<1>1. CallInv' /\ TypeOK' /\ pc' = pc
  BY CallsKept DEF allVars
<1> QED
  BY <1>1 DEF ProbeInv, TypeOKAll, RoundInv, WorkerInv, AnswerInv, ReadyHonest, allVars, probeVars

\* The invariant of the probe.
THEOREM ProbesCorrect == SpecAll => []ProbeInv
<1>1. ProbeInv /\ [NextAll]_allVars => ProbeInv'
  BY StepReady, StepSpawn, StepCheck, StepRecord, StepAnswer, StepDeadline, StepProbes,
     StepNothing DEF NextAll
<1> QED
  BY InitProbe, <1>1, PTL DEF SpecAll

-----------------------------------------------------------------------------
(* The properties *)

\* Every variable has its type; the WaitGroup is never counted below zero.
THEOREM ProbeTypes == SpecAll => []TypeOKAll
<1>1. ProbeInv => TypeOKAll
  BY DEF ProbeInv
<1> QED
  BY <1>1, ProbesCorrect, PTL

\* /ready speaks for all chains, and truly.
THEOREM Honesty == SpecAll => []ReadyHonest
<1>1. ProbeInv => ReadyHonest
  BY DEF ProbeInv, AnswerInv, ReadyHonest
<1> QED
  BY <1>1, ProbesCorrect, PTL

\* No goroutine of a probe outlives its answer.
THEOREM Tidiness == SpecAll => []NoStragglers
<1>1. ProbeInv => NoStragglers
  BY WorkerAssumption DEF ProbeInv, TypeOKAll, RoundInv, WorkerInv, NoStragglers
<1> QED
  BY <1>1, ProbesCorrect, PTL

\* /ready never waits for nobody: while its loop runs a chain is left to be
\* asked, and while it waits the WaitGroup is above zero only for goroutines
\* that can go on: begin their check, carry on a Call, or record its result
\* (manager.go:142-169).
WaitJustified ==
    /\ probe = "spawn" => todo # {}
    /\ probe = "wait" /\ wg # 0 =>
          \E c \in running :
             \/ c \notin calling /\ pc[Worker[c]] = "idle"
             \/ c \in calling
    /\ probe = "idle" => wg = 0

\* /ready waits for somebody who can go on.
THEOREM Waiting == SpecAll => []WaitJustified
<1> DEFINE SpawnInv == probe = "spawn" => todo # {}
<1>1. InitAll => SpawnInv
  BY DEF InitAll
<1>2. SpawnInv /\ [NextAll]_allVars => SpawnInv'
  BY ConstantsAssumption DEF NextAll, Ready, Answer, DeadlinePasses, Spawn, Check, Record, Probes,
     allVars, probeVars
<1>3. ProbeInv /\ SpawnInv => WaitJustified
  <2> SUFFICES ASSUME ProbeInv, SpawnInv PROVE WaitJustified
    OBVIOUS
  <2>1. probe = "idle" => wg = 0
    BY FS_EmptySet DEF ProbeInv, RoundInv
  <2>2. wg # 0 => running # {}
    BY FS_EmptySet DEF ProbeInv, RoundInv
  <2>3. \A c \in running : c \in calling \/ pc[Worker[c]] = "idle"
    BY DEF ProbeInv, TypeOKAll, WorkerInv
  <2> QED
    BY <2>1, <2>2, <2>3 DEF WaitJustified
<1> QED
  BY <1>1, <1>2, <1>3, ProbesCorrect, PTL DEF SpecAll
=============================================================================
