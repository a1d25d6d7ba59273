-------------------------- MODULE RateLimiterProofs --------------------------
(***************************************************************************)
(* Theorems about RateLimiter for every rate, window, set of addresses and *)
(* however long the clock runs.                                            *)
(***************************************************************************)
EXTENDS RateLimiter, FiniteSetTheorems, TLAPS

Logs == SUBSET (Nat \X Nat)

LEMMA AbsentNoVisitor == Absent \notin Visitor
BY DEF Absent, Visitor

\* The sets that are counted are finite.
LEMMA PartsFinite ==
    ASSUME NEW v, NEW L \in Logs, Numbered(L)
    PROVE  /\ IsFiniteSet(Current(v, L)) /\ Cardinality(Current(v, L)) \in Nat
           /\ IsFiniteSet(Former(v, L)) /\ Cardinality(Former(v, L)) \in Nat
<1>1. Current(v, L) \in SUBSET L /\ Former(v, L) \in SUBSET L
  BY DEF Current, Former
<1> QED
  BY <1>1, FS_Subset, FS_CardinalityType DEF Numbered

\* A request that arrives, refill or not, leaves the visitor in balance.
LEMMA RefillBalanced ==
    ASSUME now \in Nat, NEW v \in Visitor, NEW L \in Logs, Numbered(L), Balanced(v, L)
    PROVE  /\ Refilled(v) \in Visitor
           /\ Balanced(Refilled(v), L)
           /\ Refilled(v).lastSeen = now
<1> USE ConstantsAssumption
<1>1. CASE now - v.lastRefill >= Window
  <2> DEFINE w == [tokens |-> Rate, lastSeen |-> now, lastRefill |-> now]
  <2>1. Refilled(v) = w /\ w \in Visitor
    BY <1>1 DEF Refilled, Visitor
  <2>2. \A g \in L : g[1] \in Nat /\ g[1] <= v.lastSeen /\ v.lastSeen < now
    BY <1>1 DEF Balanced, Logs, Visitor
  <2>3. Current(w, L) = {}
    BY <2>2 DEF Current, Visitor
  <2>4. Cardinality(Former(w, L)) <= Rate
    <3>1. Former(w, L) \in SUBSET Current(v, L)
      BY <1>1, <2>2 DEF Former, Current, Visitor
    <3>2. Cardinality(Former(w, L)) <= Cardinality(Current(v, L))
      BY <3>1, PartsFinite, FS_Subset
    <3>3. Cardinality(Current(v, L)) <= Rate
      BY DEF Balanced, Visitor
    <3> QED
      BY <3>2, <3>3, PartsFinite
  <2>5. Balanced(w, L)
    <3>1. Cardinality(Current(w, L)) = Rate - w.tokens
      BY <2>3, FS_EmptySet
    <3>2. \A g \in L : g[1] <= w.lastSeen
      BY DEF Numbered
    <3> QED
      BY <2>4, <3>1, <3>2 DEF Balanced
  <2> QED
    BY <2>1, <2>5
<1>2. CASE now - v.lastRefill < Window
  <2> DEFINE w == [v EXCEPT !.lastSeen = now]
  <2>1. Refilled(v) = w /\ w \in Visitor
    BY <1>2 DEF Refilled, Visitor
  <2>2. w.tokens = v.tokens /\ w.lastRefill = v.lastRefill /\ w.lastSeen = now
    BY DEF Visitor
  <2>3. Current(w, L) = Current(v, L) /\ Former(w, L) = Former(v, L)
    BY <2>2 DEF Current, Former
  <2>4. \A g \in L : g[1] <= now
    BY DEF Numbered
  <2>5. Balanced(w, L)
    BY <1>2, <2>2, <2>3, <2>4 DEF Balanced, Visitor
  <2> QED
    BY <2>1, <2>2, <2>5
<1> QED
  BY <1>1, <1>2 DEF Visitor

\* The next request to be let through: a new member of the log.
Next1(L) == <<now, Cardinality(L)>>

LEMMA NumberNext ==
    ASSUME now \in Nat, NEW L \in Logs, Numbered(L)
    PROVE  /\ Next1(L) \notin L
           /\ L \cup {Next1(L)} \in Logs
           /\ Numbered(L \cup {Next1(L)})
<1>1. Cardinality(L) \in Nat
  BY FS_CardinalityType DEF Numbered
<1>2. Next1(L) \in Nat \X Nat /\ Next1(L)[1] = now /\ Next1(L)[2] = Cardinality(L)
  BY <1>1 DEF Next1
<1>3. Next1(L) \notin L
  BY <1>1, <1>2 DEF Numbered
<1>4. IsFiniteSet(L \cup {Next1(L)}) /\ Cardinality(L \cup {Next1(L)}) = Cardinality(L) + 1
  BY <1>3, FS_AddElement DEF Numbered
<1>5. \A g \in L : g[1] <= now /\ g[2] \in Nat /\ g[2] < Cardinality(L)
  BY DEF Numbered, Logs
<1> QED
  BY <1>1, <1>2, <1>3, <1>4, <1>5 DEF Numbered, Logs

\* A token taken and a request let through balance each other.
LEMMA GrantBalanced ==
    ASSUME now \in Nat, NEW v \in Visitor, NEW L \in Logs, Numbered(L), Balanced(v, L),
           v.tokens > 0, v.lastSeen = now
    PROVE  /\ [v EXCEPT !.tokens = v.tokens - 1] \in Visitor
           /\ Balanced([v EXCEPT !.tokens = v.tokens - 1], L \cup {Next1(L)})
<1> USE ConstantsAssumption
<1> DEFINE w == [v EXCEPT !.tokens = v.tokens - 1]
           M == L \cup {Next1(L)}
<1>1. w \in Visitor
  BY DEF Visitor
<1>2. w.tokens = v.tokens - 1 /\ w.lastRefill = v.lastRefill /\ w.lastSeen = now
  BY DEF Visitor
<1>3. Next1(L)[1] = now /\ Next1(L) \notin L
  BY NumberNext DEF Next1
<1>4. v.lastRefill \in Nat /\ v.lastRefill <= now
  BY DEF Balanced, Visitor
<1>5. Current(w, M) = Current(v, L) \cup {Next1(L)} /\ Next1(L) \notin Current(v, L)
  BY <1>2, <1>3, <1>4 DEF Current
<1>6. Cardinality(Current(w, M)) = Cardinality(Current(v, L)) + 1
  BY <1>5, PartsFinite, FS_AddElement
<1>7. Former(w, M) = Former(v, L)
  BY <1>2, <1>3, <1>4 DEF Former
<1>8. Balanced(w, M)
  <2>1. Cardinality(Current(w, M)) = Rate - w.tokens
    BY <1>2, <1>6, PartsFinite DEF Balanced, Visitor
  <2>2. \A g \in M : g[1] <= now
    BY <1>3 DEF Numbered
  <2> QED
    BY <1>2, <1>7, <2>1, <2>2 DEF Balanced
<1> QED
  BY <1>1, <1>8

\* Somebody not seen for a window is as good as new.
LEMMA NewcomerBalanced ==
    ASSUME now \in Nat, NEW L \in Logs, Numbered(L), \A g \in L : g[1] <= now - Window
    PROVE  LET v == [tokens |-> Rate, lastSeen |-> now, lastRefill |-> now]
           IN  v \in Visitor /\ Balanced(v, L)
<1> USE ConstantsAssumption
<1> DEFINE v == [tokens |-> Rate, lastSeen |-> now, lastRefill |-> now]
<1>1. v \in Visitor
  BY DEF Visitor
<1>2. \A g \in L : g[1] \in Nat /\ g[1] <= now - Window
  BY DEF Logs
<1>3. Current(v, L) = {} /\ Former(v, L) = {}
  BY <1>2 DEF Current, Former
<1>4. Balanced(v, L)
  BY <1>2, <1>3, FS_EmptySet DEF Balanced
<1> QED
  BY <1>1, <1>4

-----------------------------------------------------------------------------
LEMMA InitLimit == Init => LimitInv
<1> SUFFICES ASSUME Init PROVE LimitInv
  OBVIOUS
<1>1. TypeOK
  BY ConstantsAssumption DEF Init, TypeOK
<1>2. \A ip \in IP : ~Present(ip) /\ log[ip] = {}
  BY DEF Init, Present
<1> QED
  BY <1>1, <1>2, FS_EmptySet DEF LimitInv, Numbered

\* What the invariant says of one address.
LEMMA OfAddress ==
    ASSUME LimitInv, NEW ip \in IP
    PROVE  /\ now \in Nat /\ log[ip] \in Logs /\ Numbered(log[ip])
           /\ Present(ip) => visitors[ip] \in Visitor /\ Balanced(visitors[ip], log[ip])
           /\ ~Present(ip) => \A g \in log[ip] : g[1] <= now - Window
BY ConstantsAssumption DEF LimitInv, TypeOK, Present, Logs

\* A request touches its own address; it is enough to look at that one.
LEMMA OneAddress ==
    ASSUME LimitInv, NEW ip \in IP, NEW v \in Visitor, NEW L \in Logs,
           NEW a \in {"granted", "refused"},
           Numbered(L), Balanced(v, L),
           now' = now,
           visitors' = [visitors EXCEPT ![ip] = v],
           answer' = [answer EXCEPT ![ip] = a],
           log' = [log EXCEPT ![ip] = L]
    PROVE  LimitInv'
<1>1. TypeOK'
  BY DEF LimitInv, TypeOK, Logs
<1>2. \A S : Numbered(S) => Numbered(S)'
  BY DEF Numbered
<1>3. \A w, S : Balanced(w, S) => Balanced(w, S)'
  BY DEF Balanced, Current, Former
<1>4. ASSUME NEW q \in IP
      PROVE  /\ Numbered(log[q])'
             /\ Present(q)' => Balanced(visitors[q], log[q])'
             /\ ~Present(q)' => \A g \in log'[q] : g[1] <= now' - Window
  <2>1. CASE q = ip
    <3>1. visitors'[q] = v /\ log'[q] = L /\ Present(q)'
      BY <2>1, AbsentNoVisitor DEF LimitInv, TypeOK, Present
    <3> QED
      BY <3>1, <1>2, <1>3 DEF Numbered, Balanced, Current, Former
  <2>2. CASE q # ip
    <3>1. visitors'[q] = visitors[q] /\ log'[q] = log[q] /\ (Present(q)' <=> Present(q))
      BY <2>2 DEF LimitInv, TypeOK, Present
    <3> QED
      BY <3>1, OfAddress DEF Numbered, Balanced, Current, Former
  <2> QED
    BY <2>1, <2>2
<1> QED
  BY <1>1, <1>4 DEF LimitInv

LEMMA StepNewVisitor ==
    ASSUME LimitInv, NEW ip \in IP, NewVisitor(ip)
    PROVE  LimitInv'
<1> DEFINE v == [tokens |-> Rate, lastSeen |-> now, lastRefill |-> now]
           w == [v EXCEPT !.tokens = v.tokens - 1]
           L == log[ip]
<1>1. now \in Nat /\ L \in Logs /\ Numbered(L) /\ \A g \in L : g[1] <= now - Window
  BY OfAddress DEF NewVisitor
<1>2. v \in Visitor /\ Balanced(v, L)
  BY <1>1, NewcomerBalanced
<1>3. w \in Visitor /\ Balanced(w, L \cup {Next1(L)})
  <2>1. v.tokens > 0 /\ v.lastSeen = now
    BY ConstantsAssumption
  <2> QED
    BY <1>1, <1>2, <2>1, GrantBalanced
<1>4. L \cup {Next1(L)} \in Logs /\ Numbered(L \cup {Next1(L)})
  BY <1>1, NumberNext
<1>5. /\ visitors' = [visitors EXCEPT ![ip] = w]
      /\ answer' = [answer EXCEPT ![ip] = "granted"]
      /\ log' = [log EXCEPT ![ip] = L \cup {Next1(L)}]
      /\ now' = now
  BY DEF NewVisitor, Answer, Next1
<1> QED
  BY <1>3, <1>4, <1>5, OneAddress

LEMMA StepAllow ==
    ASSUME LimitInv, NEW ip \in IP, Allow(ip)
    PROVE  LimitInv'
<1> DEFINE v == Refilled(visitors[ip])
           w == [v EXCEPT !.tokens = v.tokens - 1]
           L == log[ip]
<1>1. /\ now \in Nat /\ L \in Logs /\ Numbered(L)
      /\ visitors[ip] \in Visitor /\ Balanced(visitors[ip], L)
  BY OfAddress DEF Allow
<1>2. v \in Visitor /\ Balanced(v, L) /\ v.lastSeen = now
  BY <1>1, RefillBalanced
<1>3. w \in Visitor /\ Balanced(w, L \cup {Next1(L)})
  BY <1>1, <1>2, GrantBalanced DEF Allow
<1>4. L \cup {Next1(L)} \in Logs /\ Numbered(L \cup {Next1(L)})
  BY <1>1, NumberNext
<1>5. /\ visitors' = [visitors EXCEPT ![ip] = w]
      /\ answer' = [answer EXCEPT ![ip] = "granted"]
      /\ log' = [log EXCEPT ![ip] = L \cup {Next1(L)}]
      /\ now' = now
  BY DEF Allow, Answer, Next1
<1> QED
  BY <1>3, <1>4, <1>5, OneAddress

LEMMA StepRefuse ==
    ASSUME LimitInv, NEW ip \in IP, Refuse(ip)
    PROVE  LimitInv'
<1> DEFINE v == Refilled(visitors[ip])
           L == log[ip]
<1>1. /\ now \in Nat /\ L \in Logs /\ Numbered(L)
      /\ visitors[ip] \in Visitor /\ Balanced(visitors[ip], L)
  BY OfAddress DEF Refuse
<1>2. v \in Visitor /\ Balanced(v, L)
  BY <1>1, RefillBalanced
<1>3. /\ visitors' = [visitors EXCEPT ![ip] = v]
      /\ answer' = [answer EXCEPT ![ip] = "refused"]
      /\ log' = [log EXCEPT ![ip] = L]
      /\ now' = now
  BY DEF Refuse, Answer, LimitInv, TypeOK
<1> QED
  BY <1>1, <1>2, <1>3, OneAddress

\* The sweep takes only visitors whose last request is out of every window.
LEMMA StepCleanup ==
    ASSUME LimitInv, Cleanup
    PROVE  LimitInv'
<1> USE ConstantsAssumption
<1>1. TypeOK'
  BY DEF LimitInv, TypeOK, Cleanup
<1>2. ASSUME NEW ip \in IP
      PROVE  /\ Numbered(log[ip])'
             /\ Present(ip)' => Balanced(visitors[ip], log[ip])'
             /\ ~Present(ip)' => \A g \in log'[ip] : g[1] <= now' - Window
  <2>1. log'[ip] = log[ip] /\ now' = now
    BY DEF Cleanup
  <2>2. Numbered(log[ip])'
    BY <2>1, OfAddress DEF Numbered
  <2>3. CASE Present(ip) /\ now - visitors[ip].lastSeen > 2 * Window
    <3>1. ~Present(ip)'
      BY <2>3 DEF Cleanup, Present
    <3>2. \A g \in log[ip] : g[1] \in Nat /\ g[1] <= visitors[ip].lastSeen
      BY <2>3, OfAddress DEF Balanced, Logs
    <3>3. \A g \in log[ip] : g[1] <= now - Window
      BY <2>3, <3>2, OfAddress DEF Visitor
    <3> QED
      BY <2>1, <2>2, <3>1, <3>3
  <2>4. CASE ~(Present(ip) /\ now - visitors[ip].lastSeen > 2 * Window)
    <3>1. visitors'[ip] = visitors[ip] /\ (Present(ip)' <=> Present(ip))
      BY <2>4 DEF Cleanup, Present
    <3> QED
      BY <2>1, <2>2, <3>1, OfAddress DEF Balanced, Current, Former
  <2> QED
    BY <2>3, <2>4
<1> QED
  BY <1>1, <1>2 DEF LimitInv

LEMMA StepTick ==
    ASSUME LimitInv, Tick
    PROVE  LimitInv'
<1> USE ConstantsAssumption
<1>1. TypeOK'
  BY DEF LimitInv, TypeOK, Tick
<1>2. now \in Nat /\ now' = now + 1 /\ visitors' = visitors /\ log' = log
  BY DEF LimitInv, TypeOK, Tick
<1>3. ASSUME NEW ip \in IP
      PROVE  /\ Numbered(log[ip])'
             /\ Present(ip)' => Balanced(visitors[ip], log[ip])'
             /\ ~Present(ip)' => \A g \in log'[ip] : g[1] <= now' - Window
  <2>1. \A g \in log[ip] : g[1] \in Nat
    BY OfAddress DEF Logs
  <2>2. Numbered(log[ip])'
    BY <1>2, <2>1, OfAddress DEF Numbered
  <2>3. Present(ip)' => Balanced(visitors[ip], log[ip])'
    <3> SUFFICES ASSUME Present(ip) PROVE Balanced(visitors[ip], log[ip])'
      BY <1>2 DEF Present
    <3>1. visitors[ip] \in Visitor /\ Balanced(visitors[ip], log[ip])
      BY OfAddress
    <3>2. visitors[ip].lastSeen <= now'
      BY <1>2, <3>1 DEF Balanced, Visitor
    <3> QED
      BY <1>2, <3>1, <3>2 DEF Balanced, Current, Former
  <2>4. ~Present(ip)' => \A g \in log'[ip] : g[1] <= now' - Window
    BY <1>2, <2>1, OfAddress DEF Present
  <2> QED
    BY <2>2, <2>3, <2>4
<1> QED
  BY <1>1, <1>3 DEF LimitInv

LEMMA StepNone == LimitInv /\ UNCHANGED vars => LimitInv'
BY DEF LimitInv, TypeOK, Numbered, Present, Balanced, Current, Former, vars

LEMMA LimitInductive == LimitInv /\ [Next]_vars => LimitInv'
BY StepNewVisitor, StepAllow, StepRefuse, StepCleanup, StepTick, StepNone DEF Next

\* Tokens and requests stay in balance.
THEOREM LimitCorrect == Spec => []LimitInv
BY InitLimit, LimitInductive, PTL DEF Spec

-----------------------------------------------------------------------------
(* The properties *)

\* Every variable has its type; a visitor never has more tokens than the rate
\* nor fewer than none.
THEOREM LimitTypes == Spec => []TypeOK
<1>1. LimitInv => TypeOK
  BY DEF LimitInv
<1> QED
  BY <1>1, LimitCorrect, PTL

LEMMA BurstBounded == LimitInv => BurstBound
<1> SUFFICES ASSUME LimitInv, NEW ip \in IP
             PROVE  Cardinality(Since(ip, now - Window)) <= 2 * Rate
  BY DEF BurstBound
<1> USE ConstantsAssumption
<1> DEFINE S == Since(ip, now - Window)
           C == Current(visitors[ip], log[ip])
           F == Former(visitors[ip], log[ip])
<1>0. now \in Nat /\ \A g \in log[ip] : g[1] \in Nat
  BY OfAddress DEF Logs
<1>1. CASE Present(ip)
  <2>1. visitors[ip] \in Visitor /\ Balanced(visitors[ip], log[ip])
    BY <1>1, OfAddress
  <2>2. S \in SUBSET (C \cup F)
    BY <1>0, <2>1 DEF Since, Current, Former, Balanced, Visitor
  <2>3. IsFiniteSet(C) /\ Cardinality(C) \in Nat /\ IsFiniteSet(F) /\ Cardinality(F) \in Nat
    BY OfAddress, PartsFinite
  <2>4. /\ IsFiniteSet(C \cup F)
        /\ Cardinality(C \cup F) = Cardinality(C) + Cardinality(F) - Cardinality(C \cap F)
    BY <2>3, FS_Union
  <2>5. Cardinality(C \cap F) \in Nat
    BY <2>3, FS_Intersection, FS_CardinalityType
  <2>6. Cardinality(S) <= Cardinality(C \cup F) /\ Cardinality(S) \in Nat
    BY <2>2, <2>4, FS_Subset, FS_CardinalityType
  <2>7. Cardinality(C) <= Rate /\ Cardinality(F) <= Rate
    BY <2>1 DEF Balanced, Visitor
  <2> QED
    BY <2>3, <2>4, <2>5, <2>6, <2>7
<1>2. CASE ~Present(ip)
  <2>1. S = {}
    BY <1>0, <1>2, OfAddress DEF Since
  <2> QED
    BY <2>1, FS_EmptySet
<1> QED
  BY <1>1, <1>2

\* At most twice the rate gets through in any stretch as long as a window.
THEOREM Bursts == Spec => []BurstBound
BY BurstBounded, LimitCorrect, PTL

LEMMA RefusalEarned ==
    ASSUME LimitInv, NEW ip \in IP, Refuse(ip)
    PROVE  Cardinality(Since(ip, now - Window)) >= Rate
<1> USE ConstantsAssumption
<1> DEFINE v == Refilled(visitors[ip])
           S == Since(ip, now - Window)
<1>1. /\ now \in Nat /\ log[ip] \in Logs /\ Numbered(log[ip])
      /\ visitors[ip] \in Visitor /\ Balanced(visitors[ip], log[ip])
  BY OfAddress DEF Refuse
<1>2. v \in Visitor /\ Balanced(v, log[ip]) /\ v.tokens = 0
  BY <1>1, RefillBalanced DEF Refuse
<1>3. v.lastRefill > now - Window
  BY <1>1 DEF Refilled, Visitor
<1>4. Cardinality(Current(v, log[ip])) = Rate
  BY <1>2 DEF Balanced
<1>5. Current(v, log[ip]) \in SUBSET S
  BY <1>1, <1>2, <1>3 DEF Current, Since, Logs, Visitor
<1>6. IsFiniteSet(S)
  <2>1. S \in SUBSET log[ip]
    BY DEF Since
  <2> QED
    BY <2>1, <1>1, FS_Subset DEF Numbered
<1>7. Cardinality(Current(v, log[ip])) <= Cardinality(S) /\ Cardinality(S) \in Nat
  BY <1>5, <1>6, FS_Subset, FS_CardinalityType
<1> QED
  BY <1>4, <1>7

\* A refusal is earned: the rate was used up within the last window.
THEOREM Refusals == Spec => NoFalseRefusal
<1>1. LimitInv /\ [Next]_vars
        => [\A ip \in IP : Refuse(ip) => Cardinality(Since(ip, now - Window)) >= Rate]_vars
  BY RefusalEarned
<1> QED
  BY <1>1, LimitCorrect, PTL DEF Spec, NoFalseRefusal

-----------------------------------------------------------------------------
(* The sweep is invisible. *)

LEMMA PromiseInit == Init => Promise!Init
BY DEF Init, Promise!Init, WindowOpen, Present

LEMMA PromiseGrant ==
    ASSUME LimitInv, NEW ip \in IP, NewVisitor(ip) \/ Allow(ip)
    PROVE  Promise!Grant(ip)
<1> USE ConstantsAssumption
<1> DEFINE left == [q \in IP |-> IF WindowOpen(q) THEN visitors[q].tokens ELSE Rate]
           reset == [q \in IP |-> IF WindowOpen(q) THEN Window - Age(q) ELSE 0]
<1>1. now \in Nat /\ now' = now /\ visitors \in [IP -> Visitor \cup {Absent}]
  BY DEF LimitInv, TypeOK, NewVisitor, Allow, Answer
<1>2. /\ Present(ip) => visitors[ip] \in Visitor /\ Balanced(visitors[ip], log[ip])
      /\ visitors' = [visitors EXCEPT ![ip] = visitors'[ip]]
  BY <1>1, OfAddress DEF NewVisitor, Allow
<1>3. \A q \in IP \ {ip} : visitors'[q] = visitors[q]
  BY <1>1, <1>2
<1>4. \A q \in IP \ {ip} : left'[q] = left[q] /\ reset'[q] = reset[q]
  BY <1>1, <1>3 DEF WindowOpen, Present, Age
<1>5. /\ left[ip] > 0
      /\ left'[ip] = left[ip] - 1
      /\ reset'[ip] = IF reset[ip] = 0 THEN Window ELSE reset[ip]
  <2>1. CASE NewVisitor(ip)
    <3>1. ~WindowOpen(ip) /\ left[ip] = Rate /\ reset[ip] = 0
      BY <2>1 DEF NewVisitor, WindowOpen
    <3>2. visitors'[ip] = [tokens |-> Rate - 1, lastSeen |-> now, lastRefill |-> now]
      BY <1>1, <2>1 DEF NewVisitor
    <3>3. WindowOpen(ip)' /\ Age(ip)' = 0
      BY <1>1, <3>2 DEF WindowOpen, Present, Age, Absent
    <3>4. left'[ip] = Rate - 1 /\ reset'[ip] = Window
      BY <3>2, <3>3
    <3> QED
      BY <3>1, <3>4
  <2>2. CASE Allow(ip) /\ WindowOpen(ip)
    <3>1. visitors[ip] \in Visitor /\ Age(ip) < Window /\ Age(ip) \in Int
      BY <1>1, <1>2, <2>2 DEF Allow, WindowOpen, Age, Visitor
    <3>2. Refilled(visitors[ip]) = [visitors[ip] EXCEPT !.lastSeen = now]
      BY <1>1, <3>1 DEF Refilled, Age, Visitor
    <3>3. /\ visitors[ip].tokens > 0
          /\ visitors'[ip].tokens = visitors[ip].tokens - 1
          /\ visitors'[ip].lastRefill = visitors[ip].lastRefill
      BY <1>1, <2>2, <3>1, <3>2 DEF Allow, Visitor
    <3>4. visitors'[ip] # Absent
      BY <1>1, <3>1, <3>3 DEF Absent, Visitor
    <3>5. WindowOpen(ip)' /\ Age(ip)' = Age(ip)
      BY <1>1, <3>1, <3>3, <3>4 DEF WindowOpen, Present, Age
    <3> QED
      BY <2>2, <3>1, <3>3, <3>5
  <2>3. CASE Allow(ip) /\ ~WindowOpen(ip)
    <3>1. visitors[ip] \in Visitor /\ Present(ip)
      BY <1>2, <2>3 DEF Allow
    <3>2. Refilled(visitors[ip]) = [tokens |-> Rate, lastSeen |-> now, lastRefill |-> now]
      BY <1>1, <2>3, <3>1 DEF Refilled, WindowOpen, Age, Visitor
    <3>3. visitors'[ip] = [tokens |-> Rate - 1, lastSeen |-> now, lastRefill |-> now]
      BY <1>1, <2>3, <3>2 DEF Allow
    <3>4. WindowOpen(ip)' /\ Age(ip)' = 0
      BY <1>1, <3>3 DEF WindowOpen, Present, Age, Absent
    <3>5. left'[ip] = Rate - 1 /\ reset'[ip] = Window
      BY <3>3, <3>4
    <3> QED
      BY <2>3, <3>5
  <2> QED
    BY <2>1, <2>2, <2>3
<1>6. left' = [left EXCEPT ![ip] = left[ip] - 1]
  BY <1>4, <1>5
<1>7. reset' = [reset EXCEPT ![ip] = IF reset[ip] = 0 THEN Window ELSE reset[ip]]
  BY <1>4, <1>5
<1>8. answer' = [answer EXCEPT ![ip] = "granted"]
  BY DEF NewVisitor, Allow, Answer
<1> QED
  BY <1>5, <1>6, <1>7, <1>8 DEF Promise!Grant

LEMMA PromiseRefuse ==
    ASSUME LimitInv, NEW ip \in IP, Refuse(ip)
    PROVE  Promise!Refuse(ip)
<1> USE ConstantsAssumption
<1>1. /\ now \in Nat /\ now' = now /\ visitors \in [IP -> Visitor \cup {Absent}]
      /\ visitors[ip] \in Visitor
  BY OfAddress DEF LimitInv, TypeOK, Refuse, Answer
<1>2. now - visitors[ip].lastRefill < Window /\ visitors[ip].tokens = 0
  BY <1>1 DEF Refuse, Refilled, Visitor
<1>3. visitors'[ip] = [visitors[ip] EXCEPT !.lastSeen = now]
  BY <1>1, <1>2 DEF Refuse, Refilled
<1>4. /\ visitors'[ip].tokens = visitors[ip].tokens
      /\ visitors'[ip].lastRefill = visitors[ip].lastRefill
      /\ visitors'[ip] # Absent
  BY <1>1, <1>3 DEF Visitor, Absent
<1>5. \A q \in IP : /\ WindowOpen(q)' <=> WindowOpen(q)
                    /\ WindowOpen(q) => /\ visitors'[q].tokens = visitors[q].tokens
                                        /\ Age(q)' = Age(q)
  BY <1>1, <1>4, AbsentNoVisitor DEF Refuse, WindowOpen, Present, Age
<1>6. WindowOpen(ip)
  BY <1>1, <1>2, AbsentNoVisitor DEF WindowOpen, Present, Age
<1>7. answer' = [answer EXCEPT ![ip] = "refused"]
  BY DEF Refuse, Answer
<1> QED
  BY <1>2, <1>5, <1>6, <1>7 DEF Promise!Refuse

LEMMA PromiseTick ==
    ASSUME LimitInv, Tick
    PROVE  Promise!Tick
<1> USE ConstantsAssumption
<1>1. now \in Nat /\ now' = now + 1 /\ visitors' = visitors /\ answer' = answer
  BY DEF LimitInv, TypeOK, Tick
<1>2. \A q \in IP : Present(q) => visitors[q] \in Visitor /\ visitors[q].lastRefill <= now
  BY OfAddress DEF Balanced, Visitor
<1>3. \A q \in IP : WindowOpen(q) => Age(q) \in Nat /\ Age(q)' = Age(q) + 1
  BY <1>1, <1>2 DEF WindowOpen, Age, Visitor
<1>4. \A q \in IP : WindowOpen(q)' <=> WindowOpen(q) /\ Age(q) + 1 < Window
  BY <1>1, <1>2, <1>3 DEF WindowOpen, Present, Age, Visitor
<1> QED
  BY <1>1, <1>3, <1>4 DEF Promise!Tick

LEMMA PromiseCleanup ==
    ASSUME LimitInv, Cleanup
    PROVE  UNCHANGED Promise!vars
<1> USE ConstantsAssumption
<1>1. now \in Nat /\ now' = now /\ answer' = answer
  BY DEF LimitInv, TypeOK, Cleanup
<1>2. \A q \in IP : WindowOpen(q) => visitors'[q] = visitors[q]
  <2> SUFFICES ASSUME NEW q \in IP, WindowOpen(q) PROVE visitors'[q] = visitors[q]
    OBVIOUS
  <2>1. visitors[q] \in Visitor /\ visitors[q].lastRefill <= visitors[q].lastSeen
    BY OfAddress DEF WindowOpen, Balanced
  <2>2. now - visitors[q].lastSeen <= 2 * Window
    BY <1>1, <2>1 DEF WindowOpen, Age, Visitor
  <2> QED
    BY <1>1, <2>1, <2>2 DEF Cleanup, Visitor
<1>3. \A q \in IP : visitors'[q] = visitors[q] \/ visitors'[q] = Absent
  BY DEF Cleanup
<1>4. \A q \in IP : (WindowOpen(q)' <=> WindowOpen(q)) /\ (WindowOpen(q) => Age(q)' = Age(q))
  BY <1>1, <1>2, <1>3 DEF WindowOpen, Present, Age
<1> QED
  BY <1>1, <1>2, <1>4 DEF Promise!vars

\* RateLimiter implements FixedWindow: whoever is forgotten by the sweep is
\* treated as if he had been remembered.
THEOREM Refinement == Spec => KeepsPromise
<1>1. LimitInv /\ UNCHANGED vars => UNCHANGED Promise!vars
  BY DEF vars, Promise!vars, WindowOpen, Present, Age
<1>2. LimitInv /\ [Next]_vars => [Promise!Next]_Promise!vars
  BY <1>1, PromiseGrant, PromiseRefuse, PromiseTick, PromiseCleanup DEF Next, Promise!Next
<1> QED
  BY <1>2, PromiseInit, LimitCorrect, PTL DEF Spec, KeepsPromise, Promise!Spec
=============================================================================
