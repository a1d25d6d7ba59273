----------------------------- MODULE RedisCache -----------------------------
(***************************************************************************)
(* The Redis cache (internal/cache/redis.go): every operation is one       *)
(* command to a server that executes commands one at a time.  Between the  *)
(* two are go-redis (a pool of connections, timeouts, retries) and the     *)
(* network, which may lose a command or its reply and may deliver a        *)
(* command long after its caller has turned away.                          *)
(*    idle -> waiting -> sent -> replied -> idle                           *)
(***************************************************************************)
EXTENDS Integers, FiniteSets

CONSTANTS
    Key,        \* cache keys
    Value,      \* stored files: a content together with its metadata
    Reader,     \* goroutines that call Get
    Writer,     \* goroutines that call Set
    Admin,      \* goroutines that call Delete and Clear
    NoFile,     \* nothing stored, or no file given
    NoKey,      \* no key
    Garbage,    \* bytes of another program that json.Unmarshal rejects
    Nobody,     \* the caller has returned
    Given,      \* the ttl arguments of Set, in hours; 0: the default
    DefaultTtl, \* c.ttl
    MaxRetries, \* how often go-redis tries again
    PoolSize,   \* connections
    StrayBound  \* model bound: how many commands may be on their way without a caller

User == Reader \cup Writer \cup Admin

\* What the theorems assume of the constants.
Assumption ==
    /\ IsFiniteSet(User)
    /\ Given \subseteq Nat
    /\ DefaultTtl \in Nat \ {0}    \* NewRedisCache puts 24 hours in the place of 0
    /\ MaxRetries \in Nat
    /\ PoolSize \in Nat \ {0}
    /\ StrayBound \in Nat
    /\ NoFile \notin Value \cup {Garbage}
    /\ Garbage \notin Value
    /\ NoKey \notin Key
    /\ Nobody \notin User
    /\ Reader \cap Writer = {}
    /\ Reader \cap Admin = {}
    /\ Writer \cap Admin = {}

VARIABLES
    db,         \* the server's database: what each key holds, and its time to live
    call,       \* the command that each caller is busy with
    at,         \* how far it has come
    tries,      \* how often it has been sent
    reply,      \* what the server replied
    stray       \* commands on closed connections that the server may still get

vars == <<db, call, at, tries, reply, stray>>

\* What this cache has stored will expire.
Entry  == [val : Value, ttl : Nat \ {0}] \cup [val : {Garbage, NoFile}, ttl : {0}]
Absent == [val |-> NoFile, ttl |-> 0]
Command(op, k, v, t) == [op |-> op, key |-> k, val |-> v, ttl |-> t]
NoCall == Command("none", NoKey, NoFile, 0)

\* A reply: an entry's bytes, OK, redis.Nil, or an error of any kind.
Bytes(v) == [kind |-> "bytes", val |-> v]
Just(kind) == [kind |-> kind, val |-> NoFile]

Init ==
    /\ db = [k \in Key |-> Absent]
    /\ call = [p \in User |-> NoCall]
    /\ at = [p \in User |-> "idle"]
    /\ tries = [p \in User |-> 0]
    /\ reply = [p \in User |-> Just("none")]
    /\ stray = {}

-----------------------------------------------------------------------------
(* Calls *)

Begins(p, c) ==
    /\ at[p] = "idle"
    /\ at' = [at EXCEPT ![p] = "waiting"]
    /\ call' = [call EXCEPT ![p] = c]
    /\ UNCHANGED <<db, tries, reply, stray>>

CallGet(p, k) == Begins(p, Command("GET", k, NoFile, 0))

Expiry(t) == IF t = 0 THEN DefaultTtl ELSE t

CallSet(p, k, v, t) == Begins(p, Command("SET", k, v, Expiry(t)))

CallDelete(p, k) == Begins(p, Command("DEL", k, NoFile, 0))

CallClear(p) == Begins(p, Command("FLUSHDB", NoKey, NoFile, 0))

\* Content and metadata are read from one entry.
Hit(v)         == [kind |-> "hit", val |-> v, meta |-> v]
NoAnswer(kind) == [kind |-> kind, val |-> NoFile, meta |-> NoFile]

\* Wrong variant: whatever bytes come back are a file.
OutcomeUnparsed(r) == IF r.kind = "bytes" THEN Hit(r.val) ELSE NoAnswer("nothing")

\* What Get makes of the reply: a file; or a miss, an error of the client or
\* one of json.Unmarshal, in all of which its caller gets nothing.
Outcome(r) ==
    IF r.kind = "bytes" /\ r.val # Garbage THEN Hit(r.val) ELSE NoAnswer("nothing")

-----------------------------------------------------------------------------
(* go-redis *)

Goto(p, l) == at' = [at EXCEPT ![p] = l]

\* Wrong variant: the attempts are not counted.
SendsAgain(p) ==
    /\ at[p] = "waiting"
    /\ Cardinality({u \in User : at[u] = "sent"}) < PoolSize
    /\ Goto(p, "sent")
    /\ UNCHANGED <<db, call, tries, reply, stray>>

Sends(p) ==
    /\ at[p] = "waiting"
    /\ tries[p] <= MaxRetries
    /\ Cardinality({u \in User : at[u] = "sent"}) < PoolSize
    /\ tries' = [tries EXCEPT ![p] = @ + 1]
    /\ Goto(p, "sent")
    /\ UNCHANGED <<db, call, reply, stray>>

\* The server refuses, or there is no reply in time and the connection is closed:
\* the command is lost, or on its way.
TimesOut(p) ==
    /\ at[p] = "sent"
    /\ \/ UNCHANGED stray
       \/ /\ call[p].op # "GET"
          /\ Cardinality(stray) < StrayBound
          /\ stray' = stray \cup {[by |-> p, cmd |-> call[p]]}
    /\ Goto(p, "waiting")
    /\ UNCHANGED <<db, call, tries, reply>>

\* The reply is lost.
LosesReply(p) ==
    /\ at[p] = "replied"
    /\ reply[p].kind # "failed"
    /\ reply' = [reply EXCEPT ![p] = Just("none")]
    /\ Goto(p, "waiting")
    /\ UNCHANGED <<db, call, tries, stray>>

\* No attempt is left, no connection to be had, or the context has ended.
GivesUp(p) ==
    /\ at[p] = "waiting"
    /\ reply' = [reply EXCEPT ![p] = Just("failed")]
    /\ Goto(p, "replied")
    /\ tries' = [tries EXCEPT ![p] = 0]
    /\ UNCHANGED <<db, call, stray>>

Returns(p) ==
    /\ at[p] = "replied"
    /\ Goto(p, "idle")
    /\ call' = [call EXCEPT ![p] = NoCall]
    /\ tries' = [tries EXCEPT ![p] = 0]
    /\ reply' = [reply EXCEPT ![p] = Just("none")]
    /\ stray' = {[c EXCEPT !.by = IF @ = p THEN Nobody ELSE @] : c \in stray}
    /\ UNCHANGED db

Client(p) == Sends(p) \/ TimesOut(p) \/ LosesReply(p) \/ GivesUp(p) \/ Returns(p)

-----------------------------------------------------------------------------
(* The server *)

After(c) ==
    [k \in Key |->
        IF c.op = "SET" /\ c.key = k THEN [val |-> c.val, ttl |-> c.ttl]
        ELSE IF c.op = "FLUSHDB" \/ (c.op = "DEL" /\ c.key = k) THEN Absent
        ELSE db[k]]

Answer(c) ==
    IF c.op # "GET" THEN Just("ok")
    ELSE IF db[c.key] = Absent THEN Just("nil")
    ELSE Bytes(db[c.key].val)

Executes(p) ==
    /\ at[p] = "sent"
    /\ db' = After(call[p])
    /\ reply' = [reply EXCEPT ![p] = Answer(call[p])]
    /\ Goto(p, "replied")
    /\ UNCHANGED <<call, tries, stray>>

\* Two sendings of one command are one element of stray.
ExecutesStray(c) ==
    /\ c \in stray
    /\ db' = After(c.cmd)
    /\ stray' \in {stray, stray \ {c}}
    /\ UNCHANGED <<call, at, tries, reply>>

\* Expiry, or eviction at the memory limit.
Evicts(k) ==
    /\ db[k] # Absent
    /\ db' = [db EXCEPT ![k] = Absent]
    /\ UNCHANGED <<call, at, tries, reply, stray>>

\* Another program writes to the same database: bytes that do not parse.  Bytes
\* that parse, the likes of {}, would be a hit with no metadata at all.
Intrudes(k) ==
    /\ db' = [db EXCEPT ![k] = [val |-> Garbage, ttl |-> 0]]
    /\ UNCHANGED <<call, at, tries, reply, stray>>

Next ==
    \/ \E p \in User : Client(p) \/ Executes(p)
    \/ \E p \in Reader, k \in Key : CallGet(p, k)
    \/ \E p \in Writer, k \in Key, v \in Value, t \in Given : CallSet(p, k, v, t)
    \/ \E p \in Admin : CallClear(p) \/ \E k \in Key : CallDelete(p, k)
    \/ \E c \in stray : ExecutesStray(c)
    \/ \E k \in Key : Evicts(k) \/ Intrudes(k)

Spec == Init /\ [][Next]_vars

\* Goroutines run and timeouts expire.  The server need not answer.
Fairness == \A p \in User : WF_vars(Client(p))

FairSpec == Spec /\ Fairness

-----------------------------------------------------------------------------
(* Properties *)

\* The types of the variables.
TypeOK ==
    /\ db \in [Key -> Entry]
    /\ call \in [User -> [op : {"none", "GET", "SET", "DEL", "FLUSHDB"}, key : Key \cup {NoKey},
                          val : Value \cup {NoFile}, ttl : Nat]]
    /\ at \in [User -> {"idle", "waiting", "sent", "replied"}]
    /\ tries \in [User -> 0 .. MaxRetries + 1]
    /\ reply \in [User -> [kind : {"bytes"}, val : Value \cup {Garbage}]
                          \cup [kind : {"none", "ok", "nil", "failed"}, val : {NoFile}]]
    /\ stray \subseteq [by : User \cup {Nobody},
                        cmd : [op : {"SET", "DEL", "FLUSHDB"}, key : Key \cup {NoKey},
                               val : Value \cup {NoFile}, ttl : Nat]]

\* Every call returns, whether or not the server ever answers (lines 45, 60-68).
CallsReturn == \A p \in User : at[p] # "idle" ~> at[p] = "idle"

-----------------------------------------------------------------------------
(* The cache interface this implements.  A Get is decided when its reply is   *)
(* there; a Set that has returned without a reply may have left a command.    *)

Held    == [k \in Key |-> IF db[k].val \in Value THEN db[k].val ELSE NoFile]
Asked   == [p \in Reader |-> call[p].key]
Decided == [p \in Reader |-> IF at[p] = "replied" THEN Outcome(reply[p]) ELSE NoAnswer("none")]
Putting == [p \in Writer |-> [key |-> call[p].key, val |-> call[p].val]]
Late    == {[key |-> c.cmd.key, val |-> c.cmd.val] :
              c \in {d \in stray : d.by = Nobody /\ d.cmd.op = "SET"}}

Promise == INSTANCE Cache WITH
    NoValue <- NoFile, store <- Held, asked <- Asked, answer <- Decided, putting <- Putting,
    late <- Late

\* Whatever is lost, repeated or late between the two, a Get answers with a
\* file that the server held under that key during the call, or with nothing.
KeepsPromise == Promise!Spec

-----------------------------------------------------------------------------
(* Why *)

\* A caller sends what is its to send; a stray command that still has a caller
\* is the one its caller is busy with.
CommandOK(c, p) ==
    \/ c.op = "GET" /\ p \in Reader /\ c.key \in Key /\ c.val = NoFile
    \/ c.op = "SET" /\ p \in Writer /\ c.key \in Key /\ c.val \in Value /\ c.ttl > 0
    \/ c.op = "DEL" /\ p \in Admin /\ c.key \in Key
    \/ c.op = "FLUSHDB" /\ p \in Admin

CommandInv ==
    /\ \A p \in User : IF at[p] = "idle" THEN call[p] = NoCall ELSE CommandOK(call[p], p)
    /\ \A c \in stray :
          /\ c.cmd.op = "SET" => c.cmd.key \in Key /\ c.cmd.val \in Value /\ c.cmd.ttl > 0
          /\ c.by # Nobody => at[c.by] # "idle" /\ c.cmd = call[c.by]

RedisInv == TypeOK /\ CommandInv
=============================================================================
