--------------------------- MODULE RpcClientProofs ---------------------------
(***************************************************************************)
(* Theorems about RpcClient for any number of clients and callers and any  *)
(* number of retries the configuration allows.                             *)
(***************************************************************************)
EXTENDS RpcClient, FiniteSetTheorems, TLAPS

LEMMA RetriesType == Retries \in Nat \ {0} /\ Retries \in 1 .. 10
BY ConstantsAssumption DEF Retries

LEMMA WireFinite ==
    \A c \in Client : IsFiniteSet(OnWire(c)) /\ Cardinality(OnWire(c)) \in Nat
<1> TAKE c \in Client
<1>1. OnWire(c) \in SUBSET Caller
  BY DEF OnWire
<1> QED
  BY <1>1, ConstantsAssumption, FS_Subset, FS_CardinalityType

LEMMA InitCall == Init => CallInv
<1> SUFFICES ASSUME Init PROVE CallInv
  OBVIOUS
<1>1. TypeOK
  BY ConstantsAssumption, RetriesType DEF Init, TypeOK
<1>2. PausesInv /\ ControlInv
  BY RetriesType DEF Init, PausesInv, ControlInv
<1>3. CountersExact
  <2> SUFFICES ASSUME NEW c \in Client
               PROVE  requests[c] = errors[c] + served[c] + Cardinality(OnWire(c))
    BY DEF CountersExact
  <2>1. OnWire(c) = {}
    BY DEF Init, OnWire
  <2> QED
    BY <2>1, FS_EmptySet DEF Init
<1> QED
  BY <1>1, <1>2, <1>3 DEF CallInv

-----------------------------------------------------------------------------
(* The counters.  Three kinds of step touch them or the set on the wire. *)

\* A step that neither enters nor leaves the wire and counts nothing.
LEMMA OffTheWire ==
    ASSUME CountersExact, NEW p \in Caller, TypeOK,
           pc[p] # "wire", pc'[p] # "wire",
           \A q \in Caller \ {p} : pc'[q] = pc[q] /\ target'[q] = target[q],
           UNCHANGED countVars
    PROVE  CountersExact'
<1>1. \A c \in Client : OnWire(c)' = OnWire(c)
  BY DEF OnWire
<1> QED
  BY <1>1 DEF CountersExact, countVars

\* An attempt goes onto the wire and is counted as a request.
LEMMA OntoTheWire ==
    ASSUME CountersExact, NEW p \in Caller, TypeOK, Send(p)
    PROVE  CountersExact'
<1> SUFFICES ASSUME NEW c \in Client
             PROVE  (requests[c] = errors[c] + served[c] + Cardinality(OnWire(c)))'
  BY DEF CountersExact
<1>0. requests[c] = errors[c] + served[c] + Cardinality(OnWire(c))
  BY DEF CountersExact
<1>1. CASE target[p] = c
  <2>1. OnWire(c)' = OnWire(c) \cup {p} /\ p \notin OnWire(c)
    BY <1>1 DEF OnWire, Send, Goto, TypeOK
  <2>2. Cardinality(OnWire(c)') = Cardinality(OnWire(c)) + 1
    BY <2>1, WireFinite, FS_AddElement
  <2>3. requests'[c] = requests[c] + 1 /\ errors'[c] = errors[c] /\ served'[c] = served[c]
    BY <1>1 DEF Send, TypeOK
  <2> QED
    BY <1>0, <2>2, <2>3, WireFinite DEF TypeOK
<1>2. CASE target[p] # c
  <2>1. OnWire(c)' = OnWire(c)
    BY <1>2 DEF OnWire, Send, Goto, TypeOK
  <2>2. requests'[c] = requests[c] /\ errors'[c] = errors[c] /\ served'[c] = served[c]
    BY <1>2 DEF Send, TypeOK
  <2> QED
    BY <1>0, <2>1, <2>2
<1> QED
  BY <1>1, <1>2

\* An attempt leaves the wire: one success or one error more.
LEMMA OffAgain ==
    ASSUME CountersExact, NEW p \in Caller, TypeOK,
           Succeeds(p) \/ \E e \in Failure : Fails(p, e)
    PROVE  CountersExact'
<1> SUFFICES ASSUME NEW c \in Client
             PROVE  (requests[c] = errors[c] + served[c] + Cardinality(OnWire(c)))'
  BY DEF CountersExact
<1>0. requests[c] = errors[c] + served[c] + Cardinality(OnWire(c))
  BY DEF CountersExact
<1>1. CASE target[p] = c
  <2>1. OnWire(c)' = OnWire(c) \ {p} /\ p \in OnWire(c)
    BY <1>1 DEF OnWire, Succeeds, Fails, Goto, TypeOK
  <2>2. Cardinality(OnWire(c)') = Cardinality(OnWire(c)) - 1
    BY <2>1, WireFinite, FS_RemoveElement
  <2>3. /\ requests'[c] = requests[c]
        /\ \/ errors'[c] = errors[c] + 1 /\ served'[c] = served[c]
           \/ errors'[c] = errors[c] /\ served'[c] = served[c] + 1
    BY <1>1 DEF Succeeds, Fails, TypeOK
  <2> QED
    BY <1>0, <2>2, <2>3, WireFinite DEF TypeOK
<1>2. CASE target[p] # c
  <2>1. OnWire(c)' = OnWire(c)
    BY <1>2 DEF OnWire, Succeeds, Fails, Goto, TypeOK
  <2>2. requests'[c] = requests[c] /\ errors'[c] = errors[c] /\ served'[c] = served[c]
    BY <1>2 DEF Succeeds, Fails, TypeOK
  <2> QED
    BY <1>0, <2>1, <2>2
<1> QED
  BY <1>1, <1>2

-----------------------------------------------------------------------------
(* One lemma for each action of a caller. *)

LEMMA StepCall ==
    ASSUME CallInv, NEW p \in Caller, NEW c \in Client, NEW l \in {"live", "done"}, Call(p, c, l)
    PROVE  CallInv'
<1> USE DEF CallInv
<1>1. TypeOK'
  BY RetriesType DEF TypeOK, Call, Goto, countVars
<1>2. PausesInv'
  BY DEF TypeOK, PausesInv, Call, Goto
<1>3. ControlInv'
  BY DEF TypeOK, ControlInv, Call, Goto
<1>4. CountersExact'
  BY OffTheWire DEF TypeOK, Call, Goto
<1> QED
  BY <1>1, <1>2, <1>3, <1>4

LEMMA StepSend ==
    ASSUME CallInv, NEW p \in Caller, Send(p)
    PROVE  CallInv'
<1> USE DEF CallInv
<1>1. late[p] = 0
  BY DEF TypeOK, ControlInv, Send
<1>2. TypeOK'
  BY <1>1 DEF TypeOK, Send, Goto
<1>3. PausesInv'
  BY DEF TypeOK, PausesInv, Send, Goto
<1>4. ControlInv'
  BY <1>1 DEF TypeOK, ControlInv, Send, Goto
<1> QED
  BY <1>2, <1>3, <1>4, OntoTheWire

LEMMA StepAnswered ==
    ASSUME CallInv, NEW p \in Caller, Succeeds(p) \/ \E e \in Failure : Fails(p, e)
    PROVE  CallInv'
<1> USE DEF CallInv
<1>1. TypeOK'
  BY DEF TypeOK, Succeeds, Fails, Goto
<1>2. PausesInv'
  BY DEF TypeOK, PausesInv, Succeeds, Fails, Goto
<1>3. ControlInv'
  BY DEF TypeOK, ControlInv, Succeeds, Fails, Goto, Failure
<1> QED
  BY <1>1, <1>2, <1>3, OffAgain

LEMMA StepReturn ==
    ASSUME CallInv, NEW p \in Caller,
           ReturnsResult(p) \/ ReturnsContextError(p) \/ ReturnsFinal(p) \/ GivesUp(p)
    PROVE  CallInv'
<1> USE DEF CallInv
<1> DEFINE r == result'[p]
<1>1. /\ Return(p, r)
      /\ r \in {"ok", "context", "final", "gaveUp"}
      /\ pc[p] \in {"judge", "backoff"}
      /\ r = "gaveUp" => pc[p] = "judge" /\ attempt[p] = Retries
      /\ late[p] > 0 => r = "context"
  BY DEF TypeOK, ControlInv, ReturnsResult, ReturnsContextError, ReturnsFinal, GivesUp, Return
<1>2. TypeOK'
  BY <1>1, RetriesType, ConstantsAssumption DEF TypeOK, Return, Goto, countVars
<1>3. PausesInv'
  BY <1>1 DEF TypeOK, PausesInv, Return, Goto
<1>4. ControlInv'
  BY <1>1 DEF TypeOK, ControlInv, Return, Goto
<1>5. CountersExact'
  BY <1>1, OffTheWire DEF TypeOK, Return, Goto
<1> QED
  BY <1>2, <1>3, <1>4, <1>5

LEMMA StepRetry ==
    ASSUME CallInv, NEW p \in Caller, Retry(p)
    PROVE  CallInv'
<1> USE DEF CallInv
<1>1. TypeOK'
  BY RetriesType DEF TypeOK, Retry, Goto, countVars
<1>2. PausesInv'
  <2> SUFFICES ASSUME NEW q \in Caller
               PROVE  2 * waited'[q] = attempt'[q] *
                        (IF pc'[q] = "backoff" THEN attempt'[q] - 1 ELSE attempt'[q] + 1)
    BY DEF PausesInv
  <2>1. CASE q = p
    <3>1. 2 * waited[p] = attempt[p] * (attempt[p] + 1)
      BY DEF PausesInv, Retry
    <3>2. waited'[p] = waited[p] /\ attempt'[p] = attempt[p] + 1 /\ pc'[p] = "backoff"
      BY DEF TypeOK, Retry, Goto
    <3>3. \A a \in Nat : a * (a + 1) = (a + 1) * ((a + 1) - 1)
      BY SMT
    <3> QED
      BY <2>1, <3>1, <3>2, <3>3 DEF TypeOK
  <2>2. CASE q # p
    BY <2>2 DEF TypeOK, PausesInv, Retry, Goto
  <2> QED
    BY <2>1, <2>2
<1>3. ControlInv'
  BY DEF TypeOK, ControlInv, Retry, Goto
<1>4. CountersExact'
  BY OffTheWire DEF TypeOK, Retry, Goto
<1> QED
  BY <1>1, <1>2, <1>3, <1>4

LEMMA StepPauseEnds ==
    ASSUME CallInv, NEW p \in Caller, PauseEnds(p)
    PROVE  CallInv'
<1> USE DEF CallInv
<1>1. TypeOK'
  BY DEF TypeOK, PauseEnds, Goto, countVars
<1>2. PausesInv'
  <2> SUFFICES ASSUME NEW q \in Caller
               PROVE  2 * waited'[q] = attempt'[q] *
                        (IF pc'[q] = "backoff" THEN attempt'[q] - 1 ELSE attempt'[q] + 1)
    BY DEF PausesInv
  <2>1. CASE q = p
    <3>1. 2 * waited[p] = attempt[p] * (attempt[p] - 1)
      BY DEF PausesInv, PauseEnds
    <3>2. waited'[p] = waited[p] + attempt[p] /\ attempt'[p] = attempt[p] /\ pc'[p] = "send"
      BY DEF TypeOK, PauseEnds, Goto
    <3>3. \A a, w \in Nat : 2 * w = a * (a - 1) => 2 * (w + a) = a * (a + 1)
      BY SMT
    <3> QED
      BY <2>1, <3>1, <3>2, <3>3 DEF TypeOK
  <2>2. CASE q # p
    BY <2>2 DEF TypeOK, PausesInv, PauseEnds, Goto
  <2> QED
    BY <2>1, <2>2
<1>3. ControlInv'
  BY DEF TypeOK, ControlInv, PauseEnds, Goto
<1>4. CountersExact'
  BY OffTheWire DEF TypeOK, PauseEnds, Goto
<1> QED
  BY <1>1, <1>2, <1>3, <1>4

\* A context, or several of them, ends; nothing else changes.
LEMMA ContextsEnd ==
    ASSUME CallInv, ctx' \in [Caller -> {"live", "done"}],
           \A p \in Caller : ctx'[p] # ctx[p] => ctx'[p] = "done",
           UNCHANGED <<pc, target, attempt, err, result, waited, late, countVars>>
    PROVE  CallInv'
<1> USE DEF CallInv
<1>1. TypeOK'
  BY DEF TypeOK, countVars
<1>2. PausesInv' /\ ControlInv'
  BY DEF TypeOK, PausesInv, ControlInv
<1>3. CountersExact'
  <2>1. \A c \in Client : OnWire(c)' = OnWire(c)
    BY DEF OnWire
  <2> QED
    BY <2>1 DEF CountersExact, countVars
<1> QED
  BY <1>1, <1>2, <1>3

LEMMA StepCancel ==
    ASSUME CallInv, NEW p \in Caller, Cancel(p)
    PROVE  CallInv'
<1>1. /\ ctx' \in [Caller -> {"live", "done"}]
      /\ \A q \in Caller : ctx'[q] # ctx[q] => ctx'[q] = "done"
  BY DEF CallInv, TypeOK, Cancel
<1> QED
  BY <1>1, ContextsEnd DEF Cancel

LEMMA StepWork ==
    ASSUME CallInv, NEW p \in Caller, Work(p)
    PROVE  CallInv'
BY StepSend, StepAnswered, StepReturn, StepRetry, StepPauseEnds DEF Work

LEMMA StepIdle == CallInv /\ UNCHANGED vars => CallInv'
<1> SUFFICES ASSUME CallInv, UNCHANGED vars PROVE CallInv'
  OBVIOUS
<1>1. \A p \in Caller : ctx'[p] = ctx[p]
  BY DEF vars
<1> QED
  BY <1>1, ContextsEnd DEF CallInv, TypeOK, vars, countVars

\* What the Calls rest on holds of every reachable state.
THEOREM CallsCorrect == Spec => []CallInv
<1>1. CallInv /\ [Next]_vars => CallInv'
  BY StepCall, StepCancel, StepWork, StepIdle DEF Next
<1> QED
  BY InitCall, <1>1, PTL DEF Spec

-----------------------------------------------------------------------------
(* The properties *)

\* Every variable has its type; no loop runs past the configured retries.
THEOREM CallTypes == Spec => []TypeOK
<1>1. CallInv => TypeOK
  BY DEF CallInv
<1> QED
  BY <1>1, CallsCorrect, PTL

\* requestCount and errorCount are those of the attempts made.
THEOREM Counting == Spec => []CountersExact
<1>1. CallInv => CountersExact
  BY DEF CallInv
<1> QED
  BY <1>1, CallsCorrect, PTL

\* An ended context stops the loop after at most one more attempt, whose Call
\* returns the error of the context.
THEOREM Cancellation == Spec => []CancelStops
<1>1. CallInv => CancelStops
  BY DEF CallInv, TypeOK, ControlInv, CancelStops
<1> QED
  BY <1>1, CallsCorrect, PTL

\* A Call gives up only after all of its retries and all of their pauses.
THEOREM Persistence == Spec => []GivesUpHonestly
<1>1. CallInv => GivesUpHonestly
  BY RetriesType DEF CallInv, TypeOK, PausesInv, ControlInv, GivesUpHonestly
<1> QED
  BY <1>1, CallsCorrect, PTL

-----------------------------------------------------------------------------
(* What a Call has left to do *)

\* At least as many steps as a Call can still take: four for each attempt to come.
StepsLeft(p) ==
    CASE pc[p] = "idle"    -> 0
      [] pc[p] = "judge"   -> 4 * (Retries - attempt[p]) + 1
      [] pc[p] = "wire"    -> 4 * (Retries - attempt[p]) + 2
      [] pc[p] = "send"    -> 4 * (Retries - attempt[p]) + 3
      [] pc[p] = "backoff" -> 4 * (Retries - attempt[p]) + 4

\* Each step of a Call brings it nearer to its return, whatever the daemon has
\* answered, and neither other Calls nor the end of its context add anything to
\* what it has left (client.go:106-143).
CallProgresses ==
    [][\A p \in Caller : pc[p] # "idle" =>
          /\ StepsLeft(p) \in 1 .. 4 * (Retries + 1)
          /\ IF Work(p) THEN StepsLeft(p)' < StepsLeft(p) ELSE StepsLeft(p)' = StepsLeft(p)]_vars

LEMMA LeftType ==
    ASSUME TypeOK, NEW p \in Caller, pc[p] # "idle"
    PROVE  StepsLeft(p) \in 1 .. 4 * (Retries + 1)
<1>1. Retries \in Nat /\ attempt[p] \in Nat /\ attempt[p] <= Retries
  BY RetriesType DEF TypeOK
<1>2. pc[p] \in {"send", "wire", "judge", "backoff"}
  BY DEF TypeOK
<1> QED
  BY <1>1, <1>2 DEF StepsLeft

\* A step of a caller's own Call is one step fewer to come.
LEMMA WorkFalls ==
    ASSUME TypeOK, NEW p \in Caller, Work(p)
    PROVE  pc'[p] # pc[p] /\ StepsLeft(p)' < StepsLeft(p)
<1>1. Retries \in Nat /\ attempt[p] \in Nat /\ attempt[p] <= Retries
  BY RetriesType DEF TypeOK
<1>2. CASE Send(p)
  BY <1>1, <1>2 DEF Send, Goto, TypeOK, StepsLeft
<1>3. CASE Succeeds(p) \/ \E e \in Failure : Fails(p, e)
  BY <1>1, <1>3 DEF Succeeds, Fails, Goto, TypeOK, StepsLeft
<1>4. ASSUME ReturnsResult(p) \/ ReturnsContextError(p) \/ ReturnsFinal(p) \/ GivesUp(p)
      PROVE  pc'[p] # pc[p] /\ StepsLeft(p)' < StepsLeft(p)
  <2>1. pc[p] \in {"judge", "backoff"} /\ pc'[p] = "idle"
    BY <1>4 DEF ReturnsResult, ReturnsContextError, ReturnsFinal, GivesUp, Return, Goto, TypeOK
  <2>2. StepsLeft(p)' = 0
    BY <2>1 DEF StepsLeft
  <2>3. StepsLeft(p) \in 1 .. 4 * (Retries + 1)
    BY <2>1, LeftType
  <2> QED
    BY <2>1, <2>2, <2>3
<1>5. CASE Retry(p)
  <2>1. pc'[p] = "backoff" /\ attempt'[p] = attempt[p] + 1 /\ pc[p] = "judge"
    BY <1>5 DEF Retry, Goto, TypeOK
  <2>2. StepsLeft(p)' = 4 * (Retries - (attempt[p] + 1)) + 4
    BY <2>1 DEF StepsLeft, Retries
  <2>3. StepsLeft(p) = 4 * (Retries - attempt[p]) + 1
    BY <2>1 DEF StepsLeft
  <2> QED
    BY <1>1, <2>1, <2>2, <2>3
<1>6. CASE PauseEnds(p)
  BY <1>1, <1>6 DEF PauseEnds, Goto, TypeOK, StepsLeft
<1> QED
  BY <1>2, <1>3, <1>4, <1>5, <1>6 DEF Work

\* No Call goes on for ever: it takes at most four steps for each of its attempts.
THEOREM CallsEnd == Spec => CallProgresses
<1> DEFINE Progress ==
        \A p \in Caller : pc[p] # "idle" =>
          /\ StepsLeft(p) \in 1 .. 4 * (Retries + 1)
          /\ IF Work(p) THEN StepsLeft(p)' < StepsLeft(p) ELSE StepsLeft(p)' = StepsLeft(p)
<1>1. CallInv /\ [Next]_vars => [Progress]_vars
  <2> SUFFICES ASSUME CallInv, Next, NEW p \in Caller, pc[p] # "idle"
               PROVE  /\ StepsLeft(p) \in 1 .. 4 * (Retries + 1)
                      /\ Work(p) => StepsLeft(p)' < StepsLeft(p)
                      /\ ~Work(p) => StepsLeft(p)' = StepsLeft(p)
    BY DEF vars
  <2>1. TypeOK
    BY DEF CallInv
  <2>2. ASSUME ~Work(p) PROVE pc'[p] = pc[p] /\ attempt'[p] = attempt[p]
    <3>1. PICK q \in Caller :
             Work(q) \/ Cancel(q) \/ \E c \in Client, l \in {"live", "done"} : Call(q, c, l)
      BY DEF Next
    <3>2. ASSUME q # p, Work(q) PROVE pc'[p] = pc[p] /\ attempt'[p] = attempt[p]
      BY <2>1, <3>2 DEF TypeOK, Work, Send, Succeeds, Fails, ReturnsResult, ReturnsContextError,
         ReturnsFinal, GivesUp, Return, Retry, PauseEnds, Goto
    <3>3. ASSUME Cancel(q) PROVE pc'[p] = pc[p] /\ attempt'[p] = attempt[p]
      BY <3>3 DEF Cancel
    <3>4. ASSUME NEW c \in Client, NEW l \in {"live", "done"}, Call(q, c, l)
          PROVE  pc'[p] = pc[p] /\ attempt'[p] = attempt[p]
      BY <2>1, <3>4 DEF TypeOK, Call, Goto
    <3> QED
      BY <2>2, <3>1, <3>2, <3>3, <3>4
  <2>3. ~Work(p) => StepsLeft(p)' = StepsLeft(p)
    BY <2>2 DEF StepsLeft
  <2> QED
    BY <2>1, <2>3, LeftType, WorkFalls
<1> QED
  BY <1>1, CallsCorrect, PTL DEF Spec, CallProgresses
=============================================================================
