-------------------------------- MODULE Cache --------------------------------
(***************************************************************************)
(* What the domain.Cache interface (internal/domain/interfaces.go) promises *)
(* to the file service, whatever stands behind it: a Get answers with the  *)
(* content of a value that the key had at some moment during the call, or  *)
(* with nothing.  With the content comes the metadata of that very value,  *)
(* or none: what is kept beside a content can be lost before it is read.   *)
(* A cache may forget a key at any time, may refuse to store, and may      *)
(* store what a Set gave it more than once or only after that Set has      *)
(* given up; but it never makes a value up, mixes two values or hands a    *)
(* key another key's value.                                                *)
(***************************************************************************)
CONSTANTS
    Key,        \* cache keys
    Value,      \* files: a content together with its metadata
    Reader,     \* callers of Get
    Writer,     \* callers of Set
    NoKey,      \* no call under way
    NoValue     \* nothing stored

VARIABLES
    store,      \* the value of each key
    asked,      \* the key each Get under way asks for
    answer,     \* what each Get under way will return
    putting,    \* the Set each writer has under way
    late        \* what Sets that have returned may still store

vars == <<store, asked, answer, putting, late>>

\* An answer has the content of val and the metadata of meta.
Undecided == [kind |-> "none", val |-> NoValue, meta |-> NoValue]
Nothing   == [kind |-> "nothing", val |-> NoValue, meta |-> NoValue]
Hit(v)    == [kind |-> "hit", val |-> v, meta |-> v]
NoSet     == [key |-> NoKey, val |-> NoValue]

Init ==
    /\ store = [k \in Key |-> NoValue]
    /\ asked = [r \in Reader |-> NoKey]
    /\ answer = [r \in Reader |-> Undecided]
    /\ putting = [w \in Writer |-> NoSet]
    /\ late = {}

GetCall(r, k) ==
    /\ asked[r] = NoKey
    /\ asked' = [asked EXCEPT ![r] = k]
    /\ UNCHANGED <<store, answer, putting, late>>

GetHit(r) ==
    /\ asked[r] # NoKey
    /\ answer[r] = Undecided
    /\ store[asked[r]] # NoValue
    /\ answer' = [answer EXCEPT ![r] = Hit(store[asked[r]])]
    /\ UNCHANGED <<store, asked, putting, late>>

\* The content has been found; its metadata is gone before it is read.
GetLoses(r) ==
    /\ answer[r].kind = "hit"
    /\ answer' = [answer EXCEPT ![r].meta = NoValue]
    /\ UNCHANGED <<store, asked, putting, late>>

GetNothing(r) ==
    /\ asked[r] # NoKey
    /\ answer[r] = Undecided
    /\ answer' = [answer EXCEPT ![r] = Nothing]
    /\ UNCHANGED <<store, asked, putting, late>>

\* The answer is lost on its way; the Get looks again or gives up.
GetAgain(r) ==
    /\ answer[r] # Undecided
    /\ answer' = [answer EXCEPT ![r] = Undecided]
    /\ UNCHANGED <<store, asked, putting, late>>

GetReturn(r) ==
    /\ answer[r] # Undecided
    /\ asked' = [asked EXCEPT ![r] = NoKey]
    /\ answer' = [answer EXCEPT ![r] = Undecided]
    /\ UNCHANGED <<store, putting, late>>

SetCall(w, k, v) ==
    /\ putting[w] = NoSet
    /\ putting' = [putting EXCEPT ![w] = [key |-> k, val |-> v]]
    /\ UNCHANGED <<store, asked, answer, late>>

SetStore(w) ==
    /\ putting[w] # NoSet
    /\ store' = [store EXCEPT ![putting[w].key] = putting[w].val]
    /\ UNCHANGED <<asked, answer, putting, late>>

\* A Set that gives up may leave its value on the way to the store.
SetReturn(w) ==
    /\ putting[w] # NoSet
    /\ late' \in {late, late \cup {putting[w]}}
    /\ putting' = [putting EXCEPT ![w] = NoSet]
    /\ UNCHANGED <<store, asked, answer>>

\* What was left on the way is stored, once or several times, or is lost.
LateStore(p) ==
    /\ p \in late
    /\ store' \in {store, [store EXCEPT ![p.key] = p.val]}
    /\ late' \in {late, late \ {p}}
    /\ UNCHANGED <<asked, answer, putting>>

\* Delete, Clear, eviction and expiry.
Forget(K) ==
    /\ store' = [k \in Key |-> IF k \in K THEN NoValue ELSE store[k]]
    /\ UNCHANGED <<asked, answer, putting, late>>

Next ==
    \/ \E r \in Reader :
          \/ GetHit(r) \/ GetLoses(r) \/ GetNothing(r) \/ GetAgain(r) \/ GetReturn(r)
          \/ \E k \in Key : GetCall(r, k)
    \/ \E w \in Writer :
          \/ SetStore(w) \/ SetReturn(w)
          \/ \E k \in Key, v \in Value : SetCall(w, k, v)
    \/ \E p \in late : LateStore(p)
    \/ \E K \in SUBSET Key : Forget(K)

Spec == Init /\ [][Next]_vars
=============================================================================
