-------------------------- MODULE RedisCacheProofs --------------------------
(***************************************************************************)
(* RedisCache implements Cache, for every set of keys, files and callers,  *)
(* every number of retries and every size of the pool.                     *)
(***************************************************************************)
EXTENDS RedisCache, TLAPS

CallType == [op : {"none", "GET", "SET", "DEL", "FLUSHDB"}, key : Key \cup {NoKey},
             val : Value \cup {NoFile}, ttl : Nat]

LEMMA InitRedis ==
    ASSUME Assumption, Init PROVE RedisInv
BY DEF Assumption, Init, RedisInv, TypeOK, CommandInv, Entry, Absent, NoCall, Command, Just

\* What the server makes of a command is a database again.
LEMMA AfterType ==
    ASSUME TypeOK, NEW c \in CallType, c.op = "SET" => c.val \in Value /\ c.ttl > 0
    PROVE  After(c) \in [Key -> Entry]
<1>1. Absent \in Entry
  BY DEF Absent, Entry
<1>2. c.op = "SET" => [val |-> c.val, ttl |-> c.ttl] \in Entry
  BY DEF Entry, CallType
<1>3. \A k \in Key : db[k] \in Entry
  BY DEF TypeOK
<1> QED
  BY <1>1, <1>2, <1>3 DEF After

-----------------------------------------------------------------------------
(* The invariant, one lemma per group of actions *)

LEMMA BeginsStep ==
    ASSUME Assumption, RedisInv, NEW p \in User, NEW c \in CallType, CommandOK(c, p), Begins(p, c)
    PROVE  RedisInv'
<1>1. /\ at[p] = "idle"
      /\ at' = [at EXCEPT ![p] = "waiting"]
      /\ call' = [call EXCEPT ![p] = c]
      /\ UNCHANGED <<db, tries, reply, stray>>
  BY DEF Begins
<1>2. TypeOK'
  BY <1>1 DEF RedisInv, TypeOK, CallType
<1>3. CommandInv'
  <2>1. \A q \in User : IF at'[q] = "idle" THEN call'[q] = NoCall ELSE CommandOK(call'[q], q)
    BY <1>1 DEF RedisInv, TypeOK, CommandInv
  <2>2. \A s \in stray : s.by # Nobody => s.by \in User /\ s.by # p
    BY <1>1 DEF RedisInv, TypeOK, CommandInv
  <2> QED
    BY <1>1, <2>1, <2>2 DEF RedisInv, TypeOK, CommandInv
<1> QED
  BY <1>2, <1>3 DEF RedisInv

LEMMA CallStep ==
    ASSUME Assumption, RedisInv,
           \/ \E p \in Reader, k \in Key : CallGet(p, k)
           \/ \E p \in Writer, k \in Key, v \in Value, t \in Given : CallSet(p, k, v, t)
           \/ \E p \in Admin : CallClear(p) \/ \E k \in Key : CallDelete(p, k)
    PROVE  \E p \in User, c \in CallType : CommandOK(c, p) /\ Begins(p, c)
<1>1. ASSUME NEW p \in Reader, NEW k \in Key, CallGet(p, k)
      PROVE  \E q \in User, c \in CallType : CommandOK(c, q) /\ Begins(q, c)
  BY <1>1 DEF CallGet, Command, CallType, CommandOK, User
<1>2. ASSUME NEW p \in Writer, NEW k \in Key, NEW v \in Value, NEW t \in Given, CallSet(p, k, v, t)
      PROVE  \E q \in User, c \in CallType : CommandOK(c, q) /\ Begins(q, c)
  <2>1. Expiry(t) \in Nat /\ Expiry(t) > 0
    BY DEF Expiry, Assumption
  <2> QED
    BY <1>2, <2>1 DEF CallSet, Command, CallType, CommandOK, User
<1>3. ASSUME NEW p \in Admin, CallClear(p)
      PROVE  \E q \in User, c \in CallType : CommandOK(c, q) /\ Begins(q, c)
  BY <1>3 DEF CallClear, Command, CallType, CommandOK, User
<1>4. ASSUME NEW p \in Admin, NEW k \in Key, CallDelete(p, k)
      PROVE  \E q \in User, c \in CallType : CommandOK(c, q) /\ Begins(q, c)
  BY <1>4 DEF CallDelete, Command, CallType, CommandOK, User
<1> QED
  BY <1>1, <1>2, <1>3, <1>4

LEMMA ClientStep ==
    ASSUME Assumption, RedisInv, NEW p \in User, Client(p)
    PROVE  RedisInv'
<1> USE DEF RedisInv
<1>1. CASE Sends(p)
  BY <1>1 DEF Sends, Goto, Assumption, TypeOK, CommandInv
<1>2. CASE TimesOut(p)
  <2>1. /\ at[p] = "sent" /\ at' = [at EXCEPT ![p] = "waiting"]
        /\ UNCHANGED <<db, call, tries, reply>>
        /\ \/ UNCHANGED stray
           \/ /\ call[p].op # "GET"
              /\ stray' = stray \cup {[by |-> p, cmd |-> call[p]]}
    BY <1>2 DEF TimesOut, Goto
  <2>2. CommandOK(call[p], p)
    BY <2>1 DEF CommandInv
  <2>3. TypeOK'
    BY <2>1, <2>2 DEF TypeOK, CommandOK
  <2>4. CommandInv'
    BY <2>1, <2>2 DEF TypeOK, CommandInv, CommandOK
  <2> QED
    BY <2>3, <2>4
<1>3. CASE LosesReply(p)
  BY <1>3 DEF LosesReply, Goto, Just, TypeOK, CommandInv
<1>4. CASE GivesUp(p)
  BY <1>4 DEF GivesUp, Goto, Just, Assumption, TypeOK, CommandInv
<1>5. CASE Returns(p)
  <2>1. /\ at' = [at EXCEPT ![p] = "idle"]
        /\ call' = [call EXCEPT ![p] = NoCall]
        /\ tries' = [tries EXCEPT ![p] = 0]
        /\ reply' = [reply EXCEPT ![p] = Just("none")]
        /\ db' = db
    BY <1>5 DEF Returns, Goto
  <2>2. \A d \in stray' : \E c \in stray :
            /\ d.cmd = c.cmd
            /\ d.by = IF c.by = p THEN Nobody ELSE c.by
            /\ d \in [by : User \cup {Nobody}, cmd : [op : {"SET", "DEL", "FLUSHDB"},
                      key : Key \cup {NoKey}, val : Value \cup {NoFile}, ttl : Nat]]
    BY <1>5 DEF Returns, TypeOK
  <2>3. TypeOK'
    BY <2>1, <2>2 DEF Assumption, TypeOK, NoCall, Command, Just
  <2>4. CommandInv'
    BY <2>1, <2>2 DEF TypeOK, CommandInv
  <2> QED
    BY <2>3, <2>4
<1> QED
  BY <1>1, <1>2, <1>3, <1>4, <1>5 DEF Client

LEMMA ServerStep ==
    ASSUME Assumption, RedisInv,
           \/ \E p \in User : Executes(p)
           \/ \E c \in stray : ExecutesStray(c)
           \/ \E k \in Key : Evicts(k) \/ Intrudes(k)
    PROVE  RedisInv'
<1> USE DEF RedisInv
<1>1. ASSUME NEW p \in User, Executes(p) PROVE RedisInv'
  <2>1. /\ at[p] = "sent"
        /\ at' = [at EXCEPT ![p] = "replied"]
        /\ db' = After(call[p])
        /\ reply' = [reply EXCEPT ![p] = Answer(call[p])]
        /\ UNCHANGED <<call, tries, stray>>
    BY <1>1 DEF Executes, Goto
  <2>2. CommandOK(call[p], p) /\ call[p] \in CallType
    BY <2>1 DEF CommandInv, TypeOK, CallType
  <2>3. db' \in [Key -> Entry]
    BY <2>1, <2>2, AfterType DEF CommandOK
  <2>4. Answer(call[p]) \in [kind : {"bytes"}, val : Value \cup {Garbage}]
                            \cup [kind : {"ok", "nil"}, val : {NoFile}]
    <3>1. call[p].op = "GET" => db[call[p].key] \in Entry
      BY <2>2 DEF CommandOK, TypeOK
    <3> QED
      BY <3>1 DEF Answer, Just, Bytes, Entry, Absent
  <2>5. TypeOK'
    BY <2>1, <2>3, <2>4 DEF TypeOK
  <2>6. CommandInv'
    BY <2>1 DEF TypeOK, CommandInv
  <2> QED
    BY <2>5, <2>6
<1>2. ASSUME NEW c \in stray, ExecutesStray(c) PROVE RedisInv'
  <2>1. /\ db' = After(c.cmd) /\ stray' \subseteq stray
        /\ UNCHANGED <<call, at, tries, reply>>
    BY <1>2 DEF ExecutesStray
  <2>2. c.cmd \in CallType /\ (c.cmd.op = "SET" => c.cmd.val \in Value /\ c.cmd.ttl > 0)
    BY DEF CommandInv, TypeOK, CallType
  <2>3. db' \in [Key -> Entry]
    BY <2>1, <2>2, AfterType
  <2> QED
    BY <2>1, <2>3 DEF TypeOK, CommandInv
<1>3. ASSUME NEW k \in Key, Evicts(k) \/ Intrudes(k) PROVE RedisInv'
  BY <1>3 DEF Evicts, Intrudes, Absent, Entry, TypeOK, CommandInv
<1> QED
  BY <1>1, <1>2, <1>3

LEMMA NextRedis ==
    ASSUME Assumption PROVE RedisInv /\ [Next]_vars => RedisInv'
<1> SUFFICES ASSUME RedisInv, [Next]_vars PROVE RedisInv'
  OBVIOUS
<1>1. CASE UNCHANGED vars
  BY <1>1 DEF vars, RedisInv, TypeOK, CommandInv
<1>2. CASE Next
  BY <1>2, CallStep, BeginsStep, ClientStep, ServerStep DEF Next
<1> QED
  BY <1>1, <1>2

-----------------------------------------------------------------------------
(* The refinement: every step is a step of Cache, or none at all *)

views == <<Held, Asked, Decided, Putting, Late>>

LEMMA InitPromise ==
    ASSUME Assumption, Init PROVE Promise!Init
BY DEF Assumption, Init, Promise!Init, Promise!Undecided, Promise!NoSet, Held, Asked, Decided, NoAnswer, Putting,
   Late, Absent, NoCall, Command, User

\* What no caller of a Get, and no caller of a Set, sees.
LEMMA CallPromise ==
    ASSUME Assumption, RedisInv,
           \/ \E p \in Reader, k \in Key : CallGet(p, k)
           \/ \E p \in Writer, k \in Key, v \in Value, t \in Given : CallSet(p, k, v, t)
           \/ \E p \in Admin : CallClear(p) \/ \E k \in Key : CallDelete(p, k)
    PROVE  Promise!Next \/ UNCHANGED views
<1> USE DEF RedisInv
<1>1. ASSUME NEW p \in Reader, NEW k \in Key, CallGet(p, k) PROVE Promise!GetCall(p, k)
  <2>1. /\ at[p] = "idle" /\ at' = [at EXCEPT ![p] = "waiting"]
        /\ call' = [call EXCEPT ![p] = Command("GET", k, NoFile, 0)]
        /\ UNCHANGED <<db, tries, reply, stray>>
    BY <1>1 DEF CallGet, Begins
  <2>2. p \in User /\ p \notin Writer /\ call[p] = NoCall
    BY <2>1 DEF Assumption, User, CommandInv
  <2>3. Asked[p] = NoKey /\ Asked' = [Asked EXCEPT ![p] = k]
    <3>1. call[p].key = NoKey
      BY <2>2 DEF NoCall, Command
    <3>2. \A q \in Reader : call'[q].key = IF q = p THEN k ELSE call[q].key
      BY <2>1 DEF Command, TypeOK, User
    <3> QED
      BY <3>1, <3>2 DEF Asked
  <2>4. UNCHANGED <<Held, Decided, Putting, Late>>
    <3>1. UNCHANGED <<Held, Late>>
      BY <2>1 DEF Held, Late
    <3>2. Decided' = Decided
      BY <2>1 DEF Decided, TypeOK, User
    <3>3. Putting' = Putting
      BY <2>1, <2>2 DEF Putting, TypeOK, User
    <3> QED
      BY <3>1, <3>2, <3>3
  <2> QED
    BY <2>3, <2>4 DEF Promise!GetCall
<1>2. ASSUME NEW p \in Writer, NEW k \in Key, NEW v \in Value, NEW t \in Given, CallSet(p, k, v, t)
      PROVE  Promise!SetCall(p, k, v)
  <2>1. /\ at[p] = "idle" /\ at' = [at EXCEPT ![p] = "waiting"]
        /\ call' = [call EXCEPT ![p] = Command("SET", k, v, Expiry(t))]
        /\ UNCHANGED <<db, tries, reply, stray>>
    BY <1>2 DEF CallSet, Begins
  <2>2. p \in User /\ p \notin Reader /\ call[p] = NoCall
    BY <2>1 DEF Assumption, User, CommandInv
  <2>3. Putting[p] = Promise!NoSet /\ Putting' = [Putting EXCEPT ![p] = [key |-> k, val |-> v]]
    <3>1. call[p].key = NoKey /\ call[p].val = NoFile
      BY <2>2 DEF NoCall, Command
    <3>2. \A q \in Writer : call'[q] = IF q = p THEN Command("SET", k, v, Expiry(t)) ELSE call[q]
      BY <2>1 DEF TypeOK, User
    <3>3. Putting' = [q \in Writer |-> IF q = p THEN [key |-> k, val |-> v]
                                      ELSE [key |-> call[q].key, val |-> call[q].val]]
      BY <3>2 DEF Putting, Command
    <3> QED
      BY <3>1, <3>3 DEF Putting, Promise!NoSet
  <2>4. UNCHANGED <<Held, Asked, Decided, Late>>
    <3>1. UNCHANGED <<Held, Late>>
      BY <2>1 DEF Held, Late
    <3>2. Decided' = Decided
      BY <2>1 DEF Decided, TypeOK, User
    <3>3. Asked' = Asked
      BY <2>1, <2>2 DEF Asked, TypeOK, User
    <3> QED
      BY <3>1, <3>2, <3>3
  <2> QED
    BY <2>3, <2>4 DEF Promise!SetCall
<1>3. ASSUME NEW p \in Admin, NEW c, Begins(p, c) PROVE UNCHANGED views
  <2>1. /\ at' = [at EXCEPT ![p] = "waiting"] /\ call' = [call EXCEPT ![p] = c]
        /\ UNCHANGED <<db, reply, stray>>
    BY <1>3 DEF Begins
  <2>2. p \notin Reader /\ p \notin Writer
    BY DEF Assumption
  <2> QED
    BY <2>1, <2>2 DEF views, Held, Asked, Decided, Putting, Late, TypeOK, User
<1> QED
  BY <1>1, <1>2, <1>3 DEF Promise!Next, CallClear, CallDelete

\* A Get that has its reply is decided, whatever the reply is.
LEMMA OutcomeDecided ==
    ASSUME NEW r PROVE Outcome(r) # Promise!Undecided
BY DEF Outcome, Hit, NoAnswer, Promise!Undecided

LEMMA ClientPromise ==
    ASSUME Assumption, RedisInv, NEW p \in User, Client(p)
    PROVE  Promise!Next \/ UNCHANGED views
<1> USE DEF RedisInv
<1>1. CASE Sends(p) \/ TimesOut(p)
  <2>1. /\ at[p] # "replied" /\ \E l \in {"sent", "waiting"} : at' = [at EXCEPT ![p] = l]
        /\ UNCHANGED <<db, call, reply>>
        /\ stray' = stray \/ stray' = stray \cup {[by |-> p, cmd |-> call[p]]}
    BY <1>1 DEF Sends, TimesOut, Goto
  <2>2. Late' = Late
    BY <2>1 DEF Late, Assumption
  <2>3. Decided' = Decided
    BY <2>1 DEF Decided, TypeOK, User
  <2> QED
    BY <2>1, <2>2, <2>3 DEF views, Held, Asked, Putting
<1>2. CASE LosesReply(p)
  <2>1. /\ at[p] = "replied" /\ at' = [at EXCEPT ![p] = "waiting"]
        /\ reply' = [reply EXCEPT ![p] = Just("none")]
        /\ UNCHANGED <<db, call, stray>>
    BY <1>2 DEF LosesReply, Goto
  <2>2. UNCHANGED <<Held, Asked, Putting, Late>>
    BY <2>1 DEF Held, Asked, Putting, Late
  <2>3. CASE p \in Reader
    <3>1. Decided[p] # Promise!Undecided /\ Decided' = [Decided EXCEPT ![p] = Promise!Undecided]
      BY <2>1, <2>3, OutcomeDecided DEF Decided, NoAnswer, TypeOK, User, Promise!Undecided
    <3> QED
      BY <2>2, <2>3, <3>1 DEF Promise!GetAgain, Promise!Next
  <2>4. CASE p \notin Reader
    BY <2>1, <2>2, <2>4 DEF views, Decided, TypeOK, User
  <2> QED
    BY <2>3, <2>4
<1>3. CASE GivesUp(p)
  <2>1. /\ at[p] = "waiting" /\ at' = [at EXCEPT ![p] = "replied"]
        /\ reply' = [reply EXCEPT ![p] = Just("failed")]
        /\ UNCHANGED <<db, call, stray>>
    BY <1>3 DEF GivesUp, Goto
  <2>2. UNCHANGED <<Held, Asked, Putting, Late>>
    BY <2>1 DEF Held, Asked, Putting, Late
  <2>3. CASE p \in Reader
    <3>1. Decided[p] = Promise!Undecided /\ Decided' = [Decided EXCEPT ![p] = Promise!Nothing]
      BY <2>1, <2>3 DEF Decided, NoAnswer, TypeOK, User, Promise!Undecided, Promise!Nothing, Outcome, Just
    <3>2. Asked[p] # NoKey
      BY <2>1, <2>3 DEF Asked, CommandInv, CommandOK, Assumption
    <3> QED
      BY <2>2, <2>3, <3>1, <3>2 DEF Promise!GetNothing, Promise!Next
  <2>4. CASE p \notin Reader
    BY <2>1, <2>2, <2>4 DEF views, Decided, TypeOK, User
  <2> QED
    BY <2>3, <2>4
<1>4. CASE Returns(p)
  <2>1. /\ at[p] = "replied" /\ at' = [at EXCEPT ![p] = "idle"]
        /\ call' = [call EXCEPT ![p] = NoCall]
        /\ reply' = [reply EXCEPT ![p] = Just("none")]
        /\ stray' = {[c EXCEPT !.by = IF @ = p THEN Nobody ELSE @] : c \in stray}
        /\ UNCHANGED db
    BY <1>4 DEF Returns, Goto
  <2>2. CommandOK(call[p], p) /\ p # Nobody
    BY <2>1 DEF CommandInv, Assumption
  <2>3. Held' = Held
    BY <2>1 DEF Held
  <2>4. Late' \in {Late, Late \cup {[key |-> call[p].key, val |-> call[p].val]}}
        /\ (p \notin Writer => Late' = Late)
    <3> DEFINE mine == {c \in stray : c.by = p /\ c.cmd.op = "SET"}
               x == [key |-> call[p].key, val |-> call[p].val]
    <3>1. \A c \in mine : c.cmd = call[p] /\ p \in Writer
      BY <2>2 DEF CommandInv, CommandOK
    <3> DEFINE moved(c) == [c EXCEPT !.by = IF @ = p THEN Nobody ELSE @]
    <3>2. \A c \in stray : moved(c).cmd = c.cmd /\ (moved(c).by = Nobody <=> c.by \in {p, Nobody})
      BY <2>2 DEF TypeOK
    <3>7. stray' = {moved(c) : c \in stray}
      BY <2>1
    <3> HIDE DEF moved
    <3>3. \A y : y \in Late' <=> \E c \in stray :
              c.by \in {p, Nobody} /\ c.cmd.op = "SET" /\ y = [key |-> c.cmd.key, val |-> c.cmd.val]
      <4>1. \A y : y \in Late' <=> \E d \in stray' :
                d.by = Nobody /\ d.cmd.op = "SET" /\ y = [key |-> d.cmd.key, val |-> d.cmd.val]
        BY DEF Late
      <4> QED
        BY <3>2, <3>7, <4>1
    <3>4. \A y : y \in Late <=> \E c \in stray :
              c.by = Nobody /\ c.cmd.op = "SET" /\ y = [key |-> c.cmd.key, val |-> c.cmd.val]
      BY DEF Late
    <3>5. CASE mine = {}
      BY <3>3, <3>4, <3>5
    <3>6. CASE mine # {}
      <4>1. \A y : y \in Late' <=> y \in Late \/ y = x
        BY <3>1, <3>3, <3>4, <3>6
      <4> QED
        BY <3>1, <3>6, <4>1
    <3> QED
      BY <3>5, <3>6
  <2>5. CASE p \in Reader
    <3>1. p \notin Writer
      BY <2>5 DEF Assumption
    <3>2. Decided[p] # Promise!Undecided /\ Decided' = [Decided EXCEPT ![p] = Promise!Undecided]
      BY <2>1, <2>5, OutcomeDecided DEF Decided, NoAnswer, TypeOK, User, Promise!Undecided
    <3>3. Asked' = [Asked EXCEPT ![p] = NoKey]
      BY <2>1, <2>5 DEF Asked, TypeOK, User, NoCall, Command
    <3>4. Putting' = Putting
      BY <2>1, <3>1 DEF Putting, TypeOK, User
    <3> QED
      BY <2>3, <2>4, <2>5, <3>1, <3>2, <3>3, <3>4 DEF Promise!GetReturn, Promise!Next
  <2>6. CASE p \in Writer
    <3>1. p \notin Reader
      BY <2>6 DEF Assumption
    <3>2. Decided' = Decided /\ Asked' = Asked
      BY <2>1, <3>1 DEF Decided, Asked, TypeOK, User
    <3>3. /\ Putting[p] = [key |-> call[p].key, val |-> call[p].val]
          /\ Putting[p] # Promise!NoSet
          /\ Putting' = [Putting EXCEPT ![p] = Promise!NoSet]
      BY <2>1, <2>2, <2>6, <3>1 DEF Putting, TypeOK, User, NoCall, Command, Promise!NoSet, CommandOK, Assumption
    <3> QED
      BY <2>3, <2>4, <2>6, <3>2, <3>3 DEF Promise!SetReturn, Promise!Next
  <2>7. CASE p \in Admin
    <3>1. p \notin Reader /\ p \notin Writer
      BY <2>7 DEF Assumption
    <3>2. UNCHANGED <<Asked, Decided, Putting>>
      BY <2>1, <3>1 DEF Decided, Asked, Putting, TypeOK, User
    <3> QED
      BY <2>3, <2>4, <3>1, <3>2 DEF views
  <2> QED
    BY <2>5, <2>6, <2>7 DEF User
<1> QED
  BY <1>1, <1>2, <1>3, <1>4 DEF Client

LEMMA ServerPromise ==
    ASSUME Assumption, RedisInv,
           \/ \E p \in User : Executes(p)
           \/ \E c \in stray : ExecutesStray(c)
           \/ \E k \in Key : Evicts(k) \/ Intrudes(k)
    PROVE  Promise!Next \/ UNCHANGED views
<1> USE DEF RedisInv
<1>1. ASSUME NEW c \in CallType, db' = After(c)
      PROVE  /\ c.op \in {"none", "GET"} => Held' = Held
             /\ c.op = "SET" /\ c.val \in Value => Held' = [Held EXCEPT ![c.key] = c.val]
             /\ c.op = "DEL" => Held' = [k \in Key |-> IF k \in {c.key} THEN NoFile ELSE Held[k]]
             /\ c.op = "FLUSHDB" => Held' = [k \in Key |-> IF k \in Key THEN NoFile ELSE Held[k]]
  <2>1. NoFile \notin Value
    BY DEF Assumption
  <2>2. \A k \in Key : db'[k].val =
            IF c.op = "SET" /\ c.key = k THEN c.val
            ELSE IF c.op = "FLUSHDB" \/ (c.op = "DEL" /\ c.key = k) THEN NoFile ELSE db[k].val
    BY <1>1 DEF After, Absent
  <2> QED
    BY <2>1, <2>2 DEF Held
<1>2. ASSUME NEW p \in User, Executes(p) PROVE Promise!Next \/ UNCHANGED views
  <2>1. /\ at[p] = "sent" /\ at' = [at EXCEPT ![p] = "replied"]
        /\ db' = After(call[p])
        /\ reply' = [reply EXCEPT ![p] = Answer(call[p])]
        /\ UNCHANGED <<call, stray>>
    BY <1>2 DEF Executes, Goto
  <2>2. UNCHANGED <<Asked, Putting, Late>>
    BY <2>1 DEF Asked, Putting, Late
  <2>3. CommandOK(call[p], p) /\ call[p] \in CallType
    BY <2>1 DEF CommandInv, TypeOK, CallType
  <2>4. CASE p \in Reader
    <3>1. call[p].op = "GET" /\ call[p].key \in Key /\ Asked[p] = call[p].key /\ Asked[p] # NoKey
      BY <2>3, <2>4 DEF CommandOK, Asked, Assumption
    <3>2. Held' = Held
      BY <1>1, <2>1, <2>3, <3>1
    <3>3. Decided[p] = Promise!Undecided
      BY <2>1, <2>4 DEF Decided, NoAnswer, Promise!Undecided
    <3>4. Decided' = [Decided EXCEPT ![p] = Outcome(Answer(call[p]))]
      BY <2>1, <2>4 DEF Decided, TypeOK, User
    <3>5. CASE db[Asked[p]].val \in Value
      <4>1. Held[Asked[p]] = db[Asked[p]].val /\ Held[Asked[p]] # NoFile
        BY <3>1, <3>5 DEF Held, Assumption
      <4>2. Outcome(Answer(call[p])) = Promise!Hit(Held[Asked[p]])
        BY <3>1, <3>5, <4>1 DEF Outcome, Hit, Answer, Absent, Bytes, Promise!Hit, Assumption
      <4> QED
        BY <2>2, <2>4, <3>1, <3>2, <3>3, <3>4, <4>1, <4>2 DEF Promise!GetHit, Promise!Next
    <3>6. CASE db[Asked[p]].val \notin Value
      <4>1. db[Asked[p]] \in Entry
        BY <3>1 DEF TypeOK
      <4>2. db[Asked[p]].val = Garbage \/ db[Asked[p]] = Absent
        BY <3>6, <4>1 DEF Entry, Absent
      <4>3. Outcome(Answer(call[p])) = Promise!Nothing
        BY <3>1, <4>2 DEF Outcome, NoAnswer, Answer, Bytes, Just, Promise!Nothing
      <4> QED
        BY <2>2, <2>4, <3>1, <3>2, <3>3, <3>4, <4>3 DEF Promise!GetNothing, Promise!Next
    <3> QED
      BY <3>5, <3>6
  <2>5. ASSUME p \notin Reader PROVE Decided' = Decided
    BY <2>1, <2>5 DEF Decided, TypeOK, User
  <2>6. CASE p \in Writer
    <3>1. call[p].op = "SET" /\ call[p].key \in Key /\ call[p].val \in Value /\ p \notin Reader
      BY <2>3, <2>6 DEF CommandOK, Assumption
    <3>2. Putting[p] = [key |-> call[p].key, val |-> call[p].val] /\ Putting[p] # Promise!NoSet
      BY <2>6, <3>1 DEF Putting, Promise!NoSet, Assumption
    <3>3. Held' = [Held EXCEPT ![Putting[p].key] = Putting[p].val]
      BY <1>1, <2>1, <2>3, <3>1, <3>2
    <3> QED
      BY <2>2, <2>5, <2>6, <3>1, <3>2, <3>3 DEF Promise!SetStore, Promise!Next
  <2>7. CASE p \in Admin
    <3>1. call[p].op \in {"DEL", "FLUSHDB"} /\ p \notin Reader /\ (call[p].op = "DEL" => call[p].key \in Key)
      BY <2>3, <2>7 DEF CommandOK, Assumption
    <3>2. \E K \in SUBSET Key : Held' = [k \in Key |-> IF k \in K THEN NoFile ELSE Held[k]]
      <4>1. CASE call[p].op = "DEL"
        <5>1. Held' = [k \in Key |-> IF k \in {call[p].key} THEN NoFile ELSE Held[k]]
          BY <1>1, <2>1, <2>3, <4>1
        <5> QED
          BY <3>1, <4>1, <5>1
      <4>2. CASE call[p].op = "FLUSHDB"
        BY <1>1, <2>1, <2>3, <4>2
      <4> QED
        BY <3>1, <4>1, <4>2
    <3> QED
      BY <2>2, <2>5, <3>1, <3>2 DEF Promise!Forget, Promise!Next
  <2> QED
    BY <2>4, <2>6, <2>7 DEF User
<1>3. ASSUME NEW c \in stray, ExecutesStray(c) PROVE Promise!Next \/ UNCHANGED views
  <2>1. /\ db' = After(c.cmd)
        /\ stray' \in {stray, stray \ {c}}
        /\ UNCHANGED <<call, at, reply>>
    BY <1>3 DEF ExecutesStray
  <2>2. UNCHANGED <<Asked, Decided, Putting>>
    BY <2>1 DEF Asked, Decided, Putting
  <2>3. /\ c.cmd \in CallType /\ c.cmd.op \in {"SET", "DEL", "FLUSHDB"}
        /\ c.cmd.op = "SET" => c.cmd.key \in Key /\ c.cmd.val \in Value
    BY DEF CommandInv, TypeOK, CallType
  <2>4. CASE c.cmd.op = "SET" /\ c.by = Nobody
    <3> DEFINE x == [key |-> c.cmd.key, val |-> c.cmd.val]
    <3>1. x \in Late
      BY <2>4 DEF Late
    <3>2. Late' \in {Late, Late \ {x}}
      <4>1. \A y \in Late : y # x => y \in Late'
        <5> SUFFICES ASSUME NEW d \in stray, d.by = Nobody, d.cmd.op = "SET",
                            [key |-> d.cmd.key, val |-> d.cmd.val] # x
                     PROVE  [key |-> d.cmd.key, val |-> d.cmd.val] \in Late'
          BY DEF Late
        <5>1. d \in stray'
          BY <2>1
        <5> QED
          BY <5>1 DEF Late
      <4>2. Late' \subseteq Late
        BY <2>1 DEF Late
      <4> QED
        BY <4>1, <4>2
    <3>3. Held' = [Held EXCEPT ![x.key] = x.val]
      BY <1>1, <2>1, <2>3, <2>4
    <3> QED
      BY <2>2, <3>1, <3>2, <3>3 DEF Promise!LateStore, Promise!Next
  <2>5. ASSUME c.cmd.op # "SET" \/ c.by # Nobody PROVE Late' = Late
    BY <2>1, <2>5 DEF Late
  <2>6. CASE c.cmd.op = "SET" /\ c.by # Nobody
    <3>1. c.by \in User /\ at[c.by] # "idle" /\ c.cmd = call[c.by]
      BY <2>6 DEF CommandInv, TypeOK
    <3>2. c.by \in Writer
      BY <2>6, <3>1 DEF CommandInv, CommandOK
    <3>3. Putting[c.by] = [key |-> c.cmd.key, val |-> c.cmd.val] /\ Putting[c.by] # Promise!NoSet
      BY <2>3, <2>6, <3>1, <3>2 DEF Putting, Promise!NoSet, Assumption
    <3>4. Held' = [Held EXCEPT ![Putting[c.by].key] = Putting[c.by].val]
      BY <1>1, <2>1, <2>3, <2>6, <3>3
    <3> QED
      BY <2>2, <2>5, <2>6, <3>2, <3>3, <3>4 DEF Promise!SetStore, Promise!Next
  <2>7. CASE c.cmd.op # "SET"
    <3>1. \E K \in SUBSET Key : Held' = [k \in Key |-> IF k \in K THEN NoFile ELSE Held[k]]
      <4>1. CASE c.cmd.op = "DEL"
        <5>1. Held' = [k \in Key |-> IF k \in {c.cmd.key} THEN NoFile ELSE Held[k]]
          BY <1>1, <2>1, <2>3, <4>1
        <5>2. Held' = [k \in Key |-> IF k \in {c.cmd.key} \cap Key THEN NoFile ELSE Held[k]]
          BY <5>1
        <5> QED
          BY <5>2
      <4>2. CASE c.cmd.op = "FLUSHDB"
        BY <1>1, <2>1, <2>3, <4>2
      <4> QED
        BY <2>3, <2>7, <4>1, <4>2
    <3> QED
      BY <2>2, <2>5, <2>7, <3>1 DEF Promise!Forget, Promise!Next
  <2> QED
    BY <2>4, <2>6, <2>7
<1>4. ASSUME NEW k \in Key, Evicts(k) \/ Intrudes(k) PROVE Promise!Next
  <2>1. /\ db' = [db EXCEPT ![k] = Absent] \/ db' = [db EXCEPT ![k] = [val |-> Garbage, ttl |-> 0]]
        /\ UNCHANGED <<call, at, reply, stray>>
    BY <1>4 DEF Evicts, Intrudes
  <2>2. Held' = [j \in Key |-> IF j \in {k} THEN NoFile ELSE Held[j]]
    BY <2>1 DEF Held, Absent, Assumption, TypeOK
  <2>3. UNCHANGED <<Asked, Decided, Putting, Late>>
    BY <2>1 DEF Asked, Decided, Putting, Late
  <2> QED
    BY <2>2, <2>3 DEF Promise!Forget, Promise!Next
<1> QED
  BY <1>2, <1>3, <1>4

-----------------------------------------------------------------------------
(* Theorems *)

\* Variables keep their types, what the cache stored has a time to live, and a
\* command that outlived its connection is its caller's for as long as the call lasts.
THEOREM RedisCorrect == ASSUME Assumption PROVE Spec => []RedisInv
<1>1. Init => RedisInv
  BY InitRedis
<1>2. RedisInv /\ [Next]_vars => RedisInv'
  BY NextRedis
<1> QED
  BY <1>1, <1>2, PTL DEF Spec

\* Whatever go-redis and the network lose, repeat or delay, the Redis cache is
\* the cache of Cache.tla.
THEOREM RedisImplements == ASSUME Assumption PROVE Spec => KeepsPromise
<1>1. Init => Promise!Init
  BY InitPromise
<1>2. RedisInv /\ [Next]_vars => [Promise!Next]_Promise!vars
  <2> SUFFICES ASSUME RedisInv, [Next]_vars PROVE Promise!Next \/ UNCHANGED views
    BY DEF views, Promise!vars
  <2>1. CASE UNCHANGED vars
    BY <2>1 DEF vars, views, Held, Asked, Decided, Putting, Late
  <2>2. CASE Next
    BY <2>2, CallPromise, ClientPromise, ServerPromise DEF Next
  <2> QED
    BY <2>1, <2>2
<1> QED
  BY <1>1, <1>2, RedisCorrect, PTL DEF Spec, KeepsPromise, Promise!Spec

-----------------------------------------------------------------------------
(* What a call has left to do *)

\* At least as many steps as a call can still take: three for each attempt to come.
StepsLeft(p) ==
    CASE at[p] = "idle"    -> 0
      [] at[p] = "waiting" -> 3 * (MaxRetries + 1 - tries[p]) + 2
      [] at[p] = "sent"    -> 3 * (MaxRetries + 1 - tries[p]) + 4
      [] at[p] = "replied" -> IF reply[p].kind = "failed" THEN 1
                              ELSE 3 * (MaxRetries + 1 - tries[p]) + 3

\* Each step of go-redis brings the call nearer to its return, whatever is lost
\* on the way, and so does a reply of the server; nothing that happens to other
\* calls, to the server or to its data adds to what is left.
CallProgresses ==
    [][\A p \in User : at[p] # "idle" =>
          /\ StepsLeft(p) \in 1 .. 3 * (MaxRetries + 1) + 4
          /\ IF Client(p) \/ Executes(p) THEN StepsLeft(p)' < StepsLeft(p)
             ELSE StepsLeft(p)' = StepsLeft(p)]_vars

LEMMA LeftType ==
    ASSUME Assumption, TypeOK, NEW p \in User, at[p] # "idle"
    PROVE  StepsLeft(p) \in 1 .. 3 * (MaxRetries + 1) + 4
<1>1. MaxRetries \in Nat /\ tries[p] \in Nat /\ tries[p] <= MaxRetries + 1
  BY DEF Assumption, TypeOK
<1>2. at[p] \in {"waiting", "sent", "replied"}
  BY DEF TypeOK
<1> QED
  BY <1>1, <1>2 DEF StepsLeft

\* A step of the client or a reply is one step fewer to come.
LEMMA ClientFalls ==
    ASSUME Assumption, TypeOK, NEW p \in User, Client(p) \/ Executes(p)
    PROVE  StepsLeft(p)' < StepsLeft(p)
<1>1. MaxRetries \in Nat /\ tries[p] \in Nat /\ tries[p] <= MaxRetries + 1
  BY DEF Assumption, TypeOK
<1>2. CASE Sends(p)
  <2>1. at[p] = "waiting" /\ at'[p] = "sent" /\ tries'[p] = tries[p] + 1
    BY <1>2 DEF Sends, Goto, TypeOK
  <2> QED
    BY <1>1, <2>1 DEF StepsLeft
<1>3. CASE TimesOut(p)
  <2>1. at[p] = "sent" /\ at'[p] = "waiting" /\ tries'[p] = tries[p]
    BY <1>3 DEF TimesOut, Goto, TypeOK
  <2> QED
    BY <1>1, <2>1 DEF StepsLeft
<1>4. CASE LosesReply(p)
  <2>1. /\ at[p] = "replied" /\ reply[p].kind # "failed"
        /\ at'[p] = "waiting" /\ tries'[p] = tries[p]
    BY <1>4 DEF LosesReply, Goto, TypeOK
  <2> QED
    BY <1>1, <2>1 DEF StepsLeft
<1>5. CASE GivesUp(p)
  <2>1. at[p] = "waiting" /\ at'[p] = "replied" /\ reply'[p].kind = "failed"
    BY <1>5 DEF GivesUp, Goto, TypeOK, Just
  <2> QED
    BY <1>1, <2>1 DEF StepsLeft
<1>6. CASE Returns(p)
  <2>1. at[p] = "replied" /\ at'[p] = "idle"
    BY <1>6 DEF Returns, Goto, TypeOK
  <2>2. StepsLeft(p) \in 1 .. 3 * (MaxRetries + 1) + 4 /\ StepsLeft(p)' = 0
    BY <2>1, LeftType DEF StepsLeft
  <2> QED
    BY <1>1, <2>2
<1>7. CASE Executes(p)
  <2>1. at[p] = "sent" /\ at'[p] = "replied" /\ tries'[p] = tries[p]
    BY <1>7 DEF Executes, Goto, TypeOK
  <2>2. StepsLeft(p)' \in {1, 3 * (MaxRetries + 1 - tries[p]) + 3}
    BY <2>1 DEF StepsLeft
  <2>3. StepsLeft(p) = 3 * (MaxRetries + 1 - tries[p]) + 4
    BY <2>1 DEF StepsLeft
  <2> QED
    BY <1>1, <2>2, <2>3
<1> QED
  BY <1>2, <1>3, <1>4, <1>5, <1>6, <1>7 DEF Client

\* What is not a step of a call leaves it where it is.
LEMMA OthersKeep ==
    ASSUME TypeOK, Next, NEW p \in User, at[p] # "idle", ~Client(p), ~Executes(p)
    PROVE  at'[p] = at[p] /\ tries'[p] = tries[p] /\ reply'[p] = reply[p]
<1> DEFINE Kept == at'[p] = at[p] /\ tries'[p] = tries[p] /\ reply'[p] = reply[p]
<1>1. ASSUME NEW q \in User, Client(q) \/ Executes(q) PROVE Kept
  <2>1. q # p
    BY <1>1
  <2> QED
    BY <1>1, <2>1 DEF TypeOK, Client, Sends, TimesOut, LosesReply, GivesUp, Returns, Executes, Goto
<1>2. ASSUME NEW q \in User, NEW c, Begins(q, c) PROVE Kept
  BY <1>2 DEF TypeOK, Begins
<1>3. ASSUME UNCHANGED <<at, tries, reply>> PROVE Kept
  BY <1>3
<1> HIDE DEF Kept
<1>4. ASSUME NEW q \in Reader, NEW k \in Key, CallGet(q, k) PROVE Kept
  BY <1>2, <1>4 DEF CallGet, User
<1>5. ASSUME NEW q \in Writer, NEW k \in Key, NEW v \in Value, NEW t \in Given, CallSet(q, k, v, t)
      PROVE  Kept
  BY <1>2, <1>5 DEF CallSet, User
<1>6. ASSUME NEW q \in Admin, CallClear(q) \/ \E k \in Key : CallDelete(q, k) PROVE Kept
  BY <1>2, <1>6 DEF CallClear, CallDelete, User
<1>7. ASSUME (\E c \in stray : ExecutesStray(c)) \/ \E k \in Key : Evicts(k) \/ Intrudes(k)
      PROVE  Kept
  BY <1>3, <1>7 DEF ExecutesStray, Evicts, Intrudes
<1>8. Kept
  BY <1>1, <1>4, <1>5, <1>6, <1>7 DEF Next
<1> QED
  BY <1>8 DEF Kept

\* No call goes on for ever, even if the server never replies: it takes at most
\* three steps for each attempt and a few around them.
THEOREM RedisCallsEnd == ASSUME Assumption PROVE Spec => CallProgresses
<1> DEFINE Progress ==
        \A p \in User : at[p] # "idle" =>
          /\ StepsLeft(p) \in 1 .. 3 * (MaxRetries + 1) + 4
          /\ IF Client(p) \/ Executes(p) THEN StepsLeft(p)' < StepsLeft(p)
             ELSE StepsLeft(p)' = StepsLeft(p)
<1>1. RedisInv /\ [Next]_vars => [Progress]_vars
  <2> SUFFICES ASSUME RedisInv, Next, NEW p \in User, at[p] # "idle"
               PROVE  /\ StepsLeft(p) \in 1 .. 3 * (MaxRetries + 1) + 4
                      /\ Client(p) \/ Executes(p) => StepsLeft(p)' < StepsLeft(p)
                      /\ ~(Client(p) \/ Executes(p)) => StepsLeft(p)' = StepsLeft(p)
    BY DEF vars
  <2>1. TypeOK
    BY DEF RedisInv
  <2>2. ASSUME ~(Client(p) \/ Executes(p)) PROVE StepsLeft(p)' = StepsLeft(p)
    <3>1. at'[p] = at[p] /\ tries'[p] = tries[p] /\ reply'[p] = reply[p]
      BY <2>1, <2>2, OthersKeep
    <3> QED
      BY <3>1 DEF StepsLeft
  <2> QED
    BY <2>1, <2>2, LeftType, ClientFalls
<1> QED
  BY <1>1, RedisCorrect, PTL DEF Spec, CallProgresses
=============================================================================
