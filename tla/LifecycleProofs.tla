--------------------------- MODULE LifecycleProofs ---------------------------
(***************************************************************************)
(* Theorems about Lifecycle for any number of requests and chains, every   *)
(* configuration and every read timeout.                                   *)
(***************************************************************************)
EXTENDS Lifecycle, TLAPS

LEMMA InitPhase ==
    ASSUME Init
    PROVE  PhaseInv
<1>1. manager \in [clients : SUBSET Name, default : Name \cup {NoName}]
  BY DEF Init
<1>2. TypeOK
  BY <1>1 DEF Init, TypeOK, Starting
<1> QED
  BY <1>2 DEF Init, PhaseInv, CutInv, DrainedStays, StartInv, ServesConfigured, Starting

\* A manager has a client for each enabled chain, and its default among them.
LEMMA ManagerServes ==
    ASSUME NEW c \in Conf, Validate(c), NEW m \in NewManager(c)
    PROVE  /\ m \in [clients : SUBSET Name, default : Name \cup {NoName}]
           /\ m.clients = {n \in Name : c.chains[n] = "sound"}
           /\ m.default \in m.clients
           /\ c.default \in {NoName, m.default}
<1>1. Enabled(c) = {n \in Name : c.chains[n] = "sound"}
  BY DEF Validate, Enabled
<1>2. Enabled(c) \subseteq Name
  BY DEF Enabled
<1> QED
  BY <1>1, <1>2 DEF NewManager, Managers

\* Validate lets through only two types that initializeCache knows, and both
\* give a cache.
LEMMA CacheBuilt ==
    ASSUME NEW c \in Conf, Validate(c)
    PROVE  CacheOf(c) \subseteq {"open"}
BY DEF Validate, CacheOf

\* Each step of the start leaves what the next one relies on.
LEMMA StepStart ==
    ASSUME PhaseInv, StartFails \/ Start
    PROVE  PhaseInv'
<1> USE DEF PhaseInv, CutInv, TypeOK, DrainedStays, StartInv, ServesConfigured, Starting,
            startVars, serverVars, requestVars
<1>0. conf \in Conf
  BY ConfigAssumption
<1>1. CASE StartFails
  BY <1>1 DEF StartFails
<1>2. CASE LoadsConfig
  BY <1>2 DEF LoadsConfig
<1>3. CASE InitializesCache
  <2>1. main = "caching" /\ Validate(conf)
    BY <1>3 DEF InitializesCache
  <2>2. \/ main' = "failed" /\ cache' = cache
        \/ main' = "chaining" /\ cache' = "open"
    BY <1>0, <1>3, <2>1, CacheBuilt DEF InitializesCache
  <2> QED
    BY <1>3, <2>1, <2>2 DEF InitializesCache
<1>4. CASE InitializesChains
  <2>1. main = "chaining" /\ Validate(conf) /\ cache # "none"
    BY <1>4 DEF InitializesChains
  <2>2. CASE NewManager(conf) = {}
    BY <1>4, <2>1, <2>2 DEF InitializesChains
  <2>3. CASE NewManager(conf) # {}
    <3>1. manager' \in NewManager(conf) /\ main' = "serving" /\ chains' = "open"
      BY <1>4, <2>3 DEF InitializesChains
    <3>2. /\ manager' \in [clients : SUBSET Name, default : Name \cup {NoName}]
          /\ manager'.clients = {n \in Name : conf.chains[n] = "sound"}
          /\ manager'.default \in manager'.clients
          /\ conf.default \in {NoName, manager'.default}
      BY <1>0, <2>1, <3>1, ManagerServes
    <3> QED
      BY <1>4, <2>1, <3>1, <3>2 DEF InitializesChains
  <2> QED
    BY <2>2, <2>3
<1> QED
  BY <1>1, <1>2, <1>3, <1>4 DEF Start

\* What the steps of the listener and the clock have in common.
LEMMA StepServer ==
    ASSUME PhaseInv,
           \/ Listen \/ ListenFails \/ RefusesToListen \/ StartReturns
           \/ Signal \/ TimerExpires
    PROVE  PhaseInv'
<1> USE DEF PhaseInv, CutInv, TypeOK, DrainedStays, Running, ShuttingDown,
            mainVars, serverVars, requestVars, StartInv, ServesConfigured, Starting, startVars
<1>1. CASE Listen
  BY <1>1 DEF Listen
<1>2. CASE ListenFails
  BY <1>2 DEF ListenFails
<1>3. CASE RefusesToListen
  BY <1>3 DEF RefusesToListen
<1>4. CASE StartReturns
  BY <1>4 DEF StartReturns
<1>5. CASE Signal
  BY <1>5 DEF Signal
<1>6. CASE TimerExpires
  BY <1>6 DEF TimerExpires
<1> QED
  BY <1>1, <1>2, <1>3, <1>4, <1>5, <1>6

\* Requests begin only while main serves.
LEMMA StepRequest ==
    ASSUME PhaseInv, NEW r \in Req,
           \/ Accept(r) \/ AnswerError(r) \/ SaveEnds(r)
           \/ \E miss \in BOOLEAN : AnswerFile(r, miss)
    PROVE  PhaseInv'
<1>1. CASE Accept(r)
  <2>1. main = "serving" /\ drained = "none"
    BY <1>1 DEF PhaseInv, CutInv, TypeOK, StartInv, Starting, Accept
  <2>2. ScaledPositive(ReadTimeout) \in BOOLEAN
    BY DEF ScaledPositive
  <2> QED
    BY <1>1, <2>1, <2>2 DEF PhaseInv, CutInv, TypeOK, DrainedStays, StartInv, ServesConfigured, Starting, startVars,
           Accept, mainVars, serverVars
<1>2. CASE AnswerError(r)
  BY <1>2 DEF PhaseInv, CutInv, TypeOK, DrainedStays, StartInv, ServesConfigured, Starting, startVars,
           AnswerError, Running, mainVars, serverVars
<1>3. CASE SaveEnds(r)
  BY <1>3 DEF PhaseInv, CutInv, TypeOK, DrainedStays, StartInv, ServesConfigured, Starting, startVars,
           SaveEnds, Running, mainVars, serverVars
<1>4. CASE \E miss \in BOOLEAN : AnswerFile(r, miss)
  BY <1>4 DEF PhaseInv, CutInv, TypeOK, DrainedStays, StartInv, ServesConfigured, Starting, startVars,
           AnswerFile, Running, mainVars, serverVars
<1> QED
  BY <1>1, <1>2, <1>3, <1>4

LEMMA StepMain ==
    ASSUME PhaseInv, Main
    PROVE  PhaseInv'
<1>1. CASE BeginShutdown
  BY <1>1 DEF PhaseInv, CutInv, TypeOK, DrainedStays, StartInv, ServesConfigured, Starting, startVars,
           BeginShutdown, requestVars
<1>2. CASE ShutdownReturns
  <2>1. drained' = "nil" => \A r \in Req : req[r] # "active"
    BY <1>2 DEF ShutdownReturns, Active
  <2>2. \A r \in Req : req[r] # "cut"
    BY <1>2 DEF PhaseInv, CutInv, ShutdownReturns
  <2> QED
    BY <1>2, <2>1, <2>2
       DEF PhaseInv, CutInv, TypeOK, DrainedStays, StartInv, ServesConfigured, Starting, startVars,
           ShutdownReturns, serverVars, requestVars
<1>3. CASE Reports
  BY <1>3 DEF PhaseInv, CutInv, TypeOK, DrainedStays, StartInv, ServesConfigured, Starting, startVars,
           Reports, serverVars, requestVars
<1>4. CASE ClosesChains \/ ClosesCache
  BY <1>4 DEF PhaseInv, CutInv, TypeOK, DrainedStays, StartInv, ServesConfigured, Starting, startVars,
           ClosesChains, ClosesCache, serverVars, requestVars
<1>5. CASE Exits
  BY <1>5 DEF PhaseInv, CutInv, TypeOK, DrainedStays, StartInv, ServesConfigured, Starting, startVars,
           Exits, serverVars
<1>6. CASE Start
  BY <1>6, StepStart
<1> QED
  BY <1>1, <1>2, <1>3, <1>4, <1>5, <1>6 DEF Main

LEMMA StepNone == PhaseInv /\ UNCHANGED vars => PhaseInv'
BY DEF PhaseInv, CutInv, TypeOK, DrainedStays, StartInv, ServesConfigured, Starting, startVars,
           vars, mainVars, serverVars, requestVars

\* The phases are passed in order, each with what it leaves behind.
THEOREM PhasesCorrect == Spec => []PhaseInv
<1>1. PhaseInv /\ [Next]_vars => PhaseInv'
  BY StepServer, StepStart, StepRequest, StepMain, StepNone DEF Next
<1> QED
  BY InitPhase, <1>1, PTL DEF Spec

-----------------------------------------------------------------------------
(* The properties *)

\* Every variable has its type, and the timer and the result of Shutdown go
\* with the phase of main.
THEOREM PhaseTypes == Spec => []TypeOK
<1>1. PhaseInv => TypeOK
  BY DEF PhaseInv
<1> QED
  BY <1>1, PhasesCorrect, PTL

\* A process that serves has a cache and exactly the chains of its configuration.
THEOREM Configured == Spec => []ServesConfigured
<1>1. PhaseInv => ServesConfigured
  BY DEF PhaseInv, StartInv
<1> QED
  BY <1>1, PhasesCorrect, PTL

\* No request is under way, begins or is cut after a drain that succeeded.
THEOREM Drain == Spec => []DrainedStays
<1>1. PhaseInv => DrainedStays
  BY DEF PhaseInv
<1> QED
  BY <1>1, PhasesCorrect, PTL

\* Background Sets have the whole shutdown timeout.
THEOREM Grace == Spec => []SavesHaveGrace
<1>1. PhaseInv => SavesHaveGrace
  BY DEF PhaseInv, CutInv, SavesHaveGrace
<1> QED
  BY <1>1, PhasesCorrect, PTL

-----------------------------------------------------------------------------
(* The end of the process *)

\* What the start opened stays open while main serves and drains; it is closed,
\* chains first, under a request only if the drain ran into its deadline, and never
\* before the shutdown timeout is over; and no process ends well without closing it
\* (main.go:88-107 and 137-159).
ClosedAfterUse ==
    /\ main \in {"serving", "draining", "waiting"} => chains = "open" /\ cache = "open"
    /\ chains = "closed" => timer = "expired" /\ \A r \in Req : req[r] = "active" => drained = "deadline"
    /\ cache = "closed" => chains = "closed"
    /\ main = "exited" => cache = "closed"

\* At least as many steps as main has left.
StepsLeft ==
    CASE main = "serving"  -> 6
      [] main = "draining" -> 5
      [] main = "waiting"  -> 4
      [] main = "closing"  -> 1 + (IF chains = "open" THEN 1 ELSE 0) + (IF cache = "open" THEN 1 ELSE 0)
      [] main = "exited"   -> 0

\* From serving on main only goes forward: no request, signal or error of the
\* listener, however often and whenever it comes, takes it back or starts anything again.
MainProgresses ==
    [][Running => IF Main THEN StepsLeft' < StepsLeft ELSE StepsLeft' = StepsLeft]_vars

\* Where the deferred calls stand, phase by phase.
OpenInv ==
    /\ chains \in {"none", "open", "closed"} /\ cache \in {"none", "open", "closed"}
    /\ main \in {"loading", "caching"} => cache = "none"
    /\ main = "chaining" => cache = "open"
    /\ main \in {"serving", "draining", "waiting"} => chains = "open" /\ cache = "open"
    /\ main = "closing" => chains \in {"open", "closed"} /\ cache \in {"open", "closed"}
    /\ chains = "closed" => main \in {"closing", "exited"}
    /\ cache = "closed" => chains = "closed"
    /\ main = "exited" => cache = "closed" /\ chains = "closed"

LEMMA OpenKept == PhaseInv /\ OpenInv /\ [Next]_vars => OpenInv'
<1> SUFFICES ASSUME PhaseInv, OpenInv, [Next]_vars PROVE OpenInv'
  OBVIOUS
<1>1. CASE Start
  <2>1. CASE LoadsConfig
    BY <2>1 DEF LoadsConfig, OpenInv
  <2>2. CASE InitializesCache
    <3>1. cache = "none" /\ chains = "none" /\ Validate(conf)
      BY <2>2 DEF InitializesCache, OpenInv, PhaseInv, StartInv, Starting
    <3>2. CacheOf(conf) \subseteq {"open"}
      BY <3>1 DEF Validate, CacheOf
    <3> QED
      BY <2>2, <3>1, <3>2 DEF InitializesCache, OpenInv
  <2>3. CASE InitializesChains
    <3>1. chains = "none" /\ cache = "open"
      BY <2>3 DEF InitializesChains, OpenInv, PhaseInv, StartInv, Starting
    <3> QED
      BY <2>3, <3>1 DEF InitializesChains, OpenInv
  <2> QED
    BY <1>1, <2>1, <2>2, <2>3 DEF Start
<1>2. CASE StartFails
  BY <1>2 DEF StartFails, Starting, OpenInv
<1>3. CASE BeginShutdown \/ ShutdownReturns \/ Reports
  BY <1>3 DEF BeginShutdown, ShutdownReturns, Reports, OpenInv
<1>4. CASE ClosesChains \/ ClosesCache \/ Exits
  BY <1>4 DEF ClosesChains, ClosesCache, Exits, OpenInv
<1>5. ASSUME UNCHANGED <<main, chains, cache>> PROVE OpenInv'
  BY <1>5 DEF OpenInv
<1>6. CASE UNCHANGED vars
  BY <1>5, <1>6 DEF vars, mainVars
<1>7. CASE Listen \/ ListenFails \/ RefusesToListen \/ StartReturns \/ Signal \/ TimerExpires
  BY <1>5, <1>7 DEF Listen, ListenFails, RefusesToListen, StartReturns, Signal, TimerExpires, mainVars
<1>8. ASSUME NEW r \in Req,
             Accept(r) \/ AnswerError(r) \/ SaveEnds(r) \/ \E miss \in BOOLEAN : AnswerFile(r, miss)
      PROVE  OpenInv'
  BY <1>5, <1>8 DEF Accept, AnswerError, SaveEnds, AnswerFile, mainVars
<1> QED
  BY <1>1, <1>2, <1>3, <1>4, <1>6, <1>7, <1>8 DEF Next, Main

\* Chains and cache are closed when they are no longer needed, and no later than
\* the process ends.
THEOREM Closing == Spec => []ClosedAfterUse
<1>1. Init => OpenInv
  BY DEF Init, OpenInv
<1>2. PhaseInv /\ OpenInv => ClosedAfterUse
  BY DEF PhaseInv, TypeOK, DrainedStays, OpenInv, ClosedAfterUse, Starting
<1> QED
  BY <1>1, <1>2, OpenKept, PhasesCorrect, PTL DEF Spec

\* main goes through its phases once, and never back.
THEOREM Shutdown == Spec => MainProgresses
<1>1. PhaseInv /\ [Next]_vars
        => [Running => IF Main THEN StepsLeft' < StepsLeft ELSE StepsLeft' = StepsLeft]_vars
  <2> SUFFICES ASSUME PhaseInv, Next, Running
               PROVE  /\ Main => StepsLeft' < StepsLeft
                      /\ ~Main => StepsLeft' = StepsLeft
    BY DEF vars
  <2>1. main \in {"serving", "draining", "waiting", "closing"}
    BY DEF PhaseInv, TypeOK, Running, Starting
  <2>2. ASSUME Main PROVE StepsLeft' < StepsLeft
    <3>1. CASE BeginShutdown \/ ShutdownReturns
      BY <3>1 DEF BeginShutdown, ShutdownReturns, StepsLeft
    <3>2. CASE Reports
      BY <3>2 DEF Reports, StepsLeft
    <3>3. CASE ClosesChains \/ ClosesCache
      BY <3>3 DEF ClosesChains, ClosesCache, StepsLeft
    <3>4. CASE Exits
      BY <3>4 DEF Exits, StepsLeft
    <3> QED
      BY <2>1, <2>2, <3>1, <3>2, <3>3, <3>4
         DEF Main, Start, LoadsConfig, InitializesCache, InitializesChains
  <2>3. ASSUME ~Main PROVE UNCHANGED <<main, chains, cache>>
    BY <2>1, <2>3 DEF Next, StartFails, Starting, Listen, ListenFails, RefusesToListen, StartReturns,
       Signal, TimerExpires, Accept, AnswerError, SaveEnds, AnswerFile, mainVars
  <2> QED
    BY <2>2, <2>3 DEF StepsLeft
<1> QED
  BY <1>1, PhasesCorrect, PTL DEF Spec, MainProgresses
=============================================================================
