------------------------------- MODULE FsCache -------------------------------
(***************************************************************************)
(* The filesystem cache (internal/cache/filesystem.go).                    *)
(*                                                                         *)
(* A key owns two files: <hash>.bin with the content and <hash>.meta with  *)
(* the JSON metadata.  One RWMutex guards them: Get holds it shared, Set,  *)
(* Delete, Clear and the cleanup goroutine hold it exclusively.  The size  *)
(* and item gauges are kept beside the disk and only ever adjusted by      *)
(* deltas, until Clear or a restart recomputes them.                       *)
(*                                                                         *)
(* An operation is cut into steps where another goroutine that holds the   *)
(* shared lock can interleave, or where a crash leaves a different disk.   *)
(***************************************************************************)
EXTENDS Integers, FiniteSets

CONSTANTS
    Key,        \* cache keys (one .bin and one .meta path each)
    Value,      \* stored files: a content together with its metadata
    Len,        \* Len[v]: the content length of v, in bytes
    MaxLen,     \* the longest content
    MaxSize,    \* c.maxSize
    Ttl,        \* c.ttl, in clock ticks
    Reader,     \* goroutines that call Get
    Writer,     \* goroutines that call Set (the service's background stores)
    Admin,      \* goroutines that call Delete and Clear
    Janitor,    \* the cleanupLoop goroutine
    NoFile,     \* no file at that path, or no file given
    Torn,       \* a .meta file whose JSON does not parse
    NoProc,     \* nobody holds the mutex exclusively
    NoKey,      \* no key
    SizeBound,  \* model bound: no Set starts that would take the size gauge past it
    ItemBound,  \* model bound: no Set starts once the item gauge is there
    CanCrash,   \* whether the process may be killed and restarted
    CanFail     \* whether a write to the disk may fail

Caller == Reader \cup Writer \cup Admin
Proc   == Caller \cup {Janitor}

\* A content file: the value being stored, how many of its bytes are there, and
\* the file's age in ticks.  Ages past Ttl are not told apart.
File == [val : Value, len : 0 .. MaxLen, age : 0 .. Ttl + 1]

ASSUME ConstantsAssumption ==
    /\ IsFiniteSet(Key)
    /\ MaxLen \in Nat
    /\ Len \in [Value -> 0 .. MaxLen]
    /\ MaxSize \in Nat
    /\ Ttl \in Nat
    /\ SizeBound \in Nat
    /\ ItemBound \in Nat
    /\ CanCrash \in BOOLEAN
    /\ CanFail \in BOOLEAN

ASSUME DistinctAssumption ==
    /\ NoFile \notin File
    /\ NoFile \notin Value
    /\ Torn \notin Value
    /\ Torn # NoFile
    /\ NoKey \notin Key
    /\ NoProc \notin Proc
    /\ Janitor \notin Caller
    /\ Reader \cap Writer = {}
    /\ Reader \cap Admin = {}
    /\ Writer \cap Admin = {}

VARIABLES
    content,    \* the .bin file of each key
    meta,       \* the .meta file of each key
    size,       \* c.size
    items,      \* c.items
    writer,     \* who holds c.mu exclusively
    readers,    \* who holds c.mu shared
    pc,         \* where each goroutine is
    key,        \* the key argument of each call that is under way
    val,        \* the file argument of each Set that is under way
    seen,       \* what each Get has found so far
    freed,      \* evictOldest's freedSize
    victim,     \* the key whose .meta file is removed next
    todo,       \* the expired keys cleanup still has to remove
    closing     \* how far Close has come

disk   == <<content, meta>>
gauges == <<size, items>>
mutex  == <<writer, readers>>
args   == <<key, val>>
sweep  == <<freed, victim, todo>>
vars   == <<content, meta, size, items, writer, readers, pc, key, val, seen,
            freed, victim, todo, closing>>

-----------------------------------------------------------------------------
(* Files and their sizes *)

Present(c) == {k \in Key : c[k] # NoFile}

LenAt(c, k) == IF c[k] = NoFile THEN 0 ELSE c[k].len

\* The bytes on disk, each named by its key and its offset, and their number.
ByteSet(c) == {b \in Key \X (1 .. MaxLen) : b[2] <= LenAt(c, b[1])}
Used(c)    == Cardinality(ByteSet(c))

\* Every byte of the file is there.
Whole(k) == content[k] # NoFile /\ content[k].len = Len[content[k].val]

Expired(c, k) == c[k] # NoFile /\ c[k].age > Ttl

Oldest(c) == {k \in Present(c) : \A j \in Present(c) : c[j].age <= c[k].age}

Put(c, k, v, n) == [c EXCEPT ![k] = [val |-> v, len |-> n, age |-> 0]]
Remove(f, k)    == [f EXCEPT ![k] = NoFile]

Outcome(kind) == [kind |-> kind, val |-> NoFile, len |-> 0, meta |-> NoFile]

-----------------------------------------------------------------------------
(* The mutex *)

Goto(p, label) == pc' = [pc EXCEPT ![p] = label]

\* Wrong variants, for the checks of the properties: readers do not wait for the
\* writer, the writer does not wait for the readers.
RLockAlways(p) == readers' = readers \cup {p} /\ UNCHANGED writer
LockAlways(p)  == writer = NoProc /\ writer' = p /\ UNCHANGED readers

RLock(p)   == writer = NoProc /\ readers' = readers \cup {p} /\ UNCHANGED writer
RUnlock(p) == readers' = readers \ {p} /\ UNCHANGED writer
Lock(p)    == writer = NoProc /\ readers = {} /\ writer' = p /\ UNCHANGED readers
Unlock     == writer' = NoProc /\ UNCHANGED readers

\* The call of goroutine p returns.
Return(p) == Goto(p, "idle") /\ key' = [key EXCEPT ![p] = NoKey]

-----------------------------------------------------------------------------
(* Get *)

CallGet(p, k) ==
    /\ pc[p] = "idle"
    /\ Goto(p, "rlock")
    /\ key' = [key EXCEPT ![p] = k]
    /\ UNCHANGED <<disk, gauges, mutex, val, seen, sweep, closing>>

GetRLock(p) ==
    /\ pc[p] = "rlock"
    /\ RLock(p)
    /\ Goto(p, "stat")
    /\ UNCHANGED <<disk, gauges, args, seen, sweep, closing>>

\* Wrong variant: the gauges are adjusted next to the miss counter, under the
\* shared lock, by every Get that finds the file expired.
GetStatAdjusting(p) ==
    /\ pc[p] = "stat"
    /\ LET expired == Expired(content, key[p])
           missing == content[key[p]] = NoFile
       IN /\ size' = IF expired THEN size - LenAt(content, key[p]) ELSE size
          /\ items' = IF expired THEN items - 1 ELSE items
          /\ seen' = IF missing THEN [seen EXCEPT ![p] = Outcome("miss")] ELSE seen
          /\ Goto(p, IF missing THEN "runlock"
                     ELSE IF expired THEN "expireContent" ELSE "readContent")
    /\ UNCHANGED <<disk, mutex, args, sweep, closing>>

\* A missing file is a miss; an expired one is first removed, still under the
\* shared lock.  Finding the file at the first os.Stat and not at the second is
\* the same miss as not finding it at all.
GetStat(p) ==
    /\ pc[p] = "stat"
    /\ LET c == content[key[p]] IN
       \/ /\ c = NoFile
          /\ seen' = [seen EXCEPT ![p] = Outcome("miss")]
          /\ Goto(p, "runlock")
       \/ /\ c # NoFile
          /\ Goto(p, IF c.age > Ttl THEN "expireContent" ELSE "readContent")
          /\ UNCHANGED seen
    /\ UNCHANGED <<disk, gauges, mutex, args, sweep, closing>>

GetExpireContent(p) ==
    /\ pc[p] = "expireContent"
    /\ content' = Remove(content, key[p])
    /\ Goto(p, "expireMeta")
    /\ UNCHANGED <<meta, gauges, mutex, args, seen, sweep, closing>>

GetExpireMeta(p) ==
    /\ pc[p] = "expireMeta"
    /\ meta' = Remove(meta, key[p])
    /\ seen' = [seen EXCEPT ![p] = Outcome("miss")]
    /\ Goto(p, "runlock")
    /\ UNCHANGED <<content, gauges, mutex, args, sweep, closing>>

\* The file may be gone by now: another Get can remove it once it has expired.
GetReadContent(p) ==
    /\ pc[p] = "readContent"
    /\ LET c == content[key[p]] IN
       \/ /\ c = NoFile
          /\ seen' = [seen EXCEPT ![p] = Outcome("error")]
          /\ Goto(p, "runlock")
       \/ /\ c # NoFile
          /\ seen' = [seen EXCEPT ![p] =
                        [kind |-> "hit", val |-> c.val, len |-> c.len, meta |-> NoFile]]
          /\ Goto(p, "readMeta")
    /\ UNCHANGED <<disk, gauges, mutex, args, sweep, closing>>

\* Wrong variant: metadata that does not parse is handed out.
GetReadMetaRaw(p) ==
    /\ pc[p] = "readMeta"
    /\ seen' = [seen EXCEPT ![p].meta = meta[key[p]]]
    /\ Goto(p, "runlock")
    /\ UNCHANGED <<disk, gauges, mutex, args, sweep, closing>>

\* Metadata that is missing or does not parse leaves the zero value.
GetReadMeta(p) ==
    /\ pc[p] = "readMeta"
    /\ seen' = [seen EXCEPT ![p].meta =
                  IF meta[key[p]] \in Value THEN meta[key[p]] ELSE NoFile]
    /\ Goto(p, "runlock")
    /\ UNCHANGED <<disk, gauges, mutex, args, sweep, closing>>

GetReturn(p) ==
    /\ pc[p] = "runlock"
    /\ RUnlock(p)
    /\ seen' = [seen EXCEPT ![p] = Outcome("none")]
    /\ Return(p)
    /\ UNCHANGED <<disk, gauges, val, sweep, closing>>

Get(p) ==
    \/ GetRLock(p) \/ GetStat(p) \/ GetExpireContent(p) \/ GetExpireMeta(p)
    \/ GetReadContent(p) \/ GetReadMeta(p) \/ GetReturn(p)

-----------------------------------------------------------------------------
(* Set *)

WithinBounds(n) ==
    /\ -SizeBound <= size /\ size + n <= SizeBound
    /\ -ItemBound < items /\ items < ItemBound

CallSet(p, k, v) ==
    /\ pc[p] = "idle"
    /\ WithinBounds(Len[v])
    /\ Goto(p, "lock")
    /\ key' = [key EXCEPT ![p] = k]
    /\ val' = [val EXCEPT ![p] = v]
    /\ UNCHANGED <<disk, gauges, mutex, seen, sweep, closing>>

\* Wrong variant: the incoming file is forgotten.
NeedsEvictionLate(n) == size > MaxSize

\* The ttl argument of Set is not looked at.
NeedsEviction(n) == size + n > MaxSize

SetLock(p) ==
    /\ pc[p] = "lock"
    /\ Lock(p)
    /\ freed' = 0
    /\ Goto(p, IF NeedsEviction(Len[val[p]]) THEN "evict" ELSE "truncate")
    /\ UNCHANGED <<disk, gauges, args, seen, victim, todo, closing>>

\* evictOldest goes on while this holds.
KeepsEvicting(p) == freed < Len[val[p]] /\ Present(content) # {}

EvictContent(p) ==
    /\ pc[p] = "evict"
    /\ KeepsEvicting(p)
    /\ \E k \in Oldest(content) :
          /\ content' = Remove(content, k)
          /\ victim' = k
          /\ freed' = freed + content[k].len
          /\ size' = size - content[k].len
          /\ items' = items - 1
    /\ Goto(p, "evictMeta")
    /\ UNCHANGED <<meta, mutex, args, seen, todo, closing>>

\* Wrong variant: only the .bin file is evicted.
EvictNoMeta(p) ==
    /\ pc[p] = "evictMeta"
    /\ victim' = NoKey
    /\ Goto(p, "evict")
    /\ UNCHANGED <<disk, gauges, mutex, args, seen, freed, todo, closing>>

EvictMeta(p) ==
    /\ pc[p] = "evictMeta"
    /\ meta' = Remove(meta, victim)
    /\ victim' = NoKey
    /\ Goto(p, "evict")
    /\ UNCHANGED <<content, gauges, mutex, args, seen, freed, todo, closing>>

EvictDone(p) ==
    /\ pc[p] = "evict"
    /\ ~KeepsEvicting(p)
    /\ freed' = 0
    /\ Goto(p, "truncate")
    /\ UNCHANGED <<disk, gauges, mutex, args, seen, victim, todo, closing>>

\* os.WriteFile opens the file with O_CREATE and O_TRUNC ...
SetTruncate(p) ==
    /\ pc[p] = "truncate"
    /\ content' = Put(content, key[p], val[p], 0)
    /\ Goto(p, IF Len[val[p]] = 0 THEN "metaTruncate" ELSE "write")
    /\ UNCHANGED <<meta, gauges, mutex, args, seen, sweep, closing>>

\* ... and writes the bytes in place, in one write or in several.
SetWrite(p) ==
    /\ pc[p] = "write"
    /\ \E n \in (LenAt(content, key[p]) + 1) .. Len[val[p]] :
          /\ content' = Put(content, key[p], val[p], n)
          /\ Goto(p, IF n = Len[val[p]] THEN "metaTruncate" ELSE "write")
    /\ UNCHANGED <<meta, gauges, mutex, args, seen, sweep, closing>>

SetMetaTruncate(p) ==
    /\ pc[p] = "metaTruncate"
    /\ meta' = [meta EXCEPT ![key[p]] = Torn]
    /\ Goto(p, "metaWrite")
    /\ UNCHANGED <<content, gauges, mutex, args, seen, sweep, closing>>

SetMetaWrite(p) ==
    /\ pc[p] = "metaWrite"
    /\ meta' = [meta EXCEPT ![key[p]] = val[p]]
    /\ Goto(p, "count")
    /\ UNCHANGED <<content, gauges, mutex, args, seen, sweep, closing>>

\* The gauges grow by the whole file, also when the key was there before.
SetCount(p) ==
    /\ pc[p] = "count"
    /\ size' = size + Len[val[p]]
    /\ items' = items + 1
    /\ Unlock
    /\ Return(p)
    /\ val' = [val EXCEPT ![p] = NoFile]
    /\ UNCHANGED <<disk, seen, sweep, closing>>

\* Wrong variant: the error return skips the Unlock.
SetWriteFailsLocked(p) ==
    /\ CanFail
    /\ pc[p] \in {"truncate", "write"}
    /\ Return(p)
    /\ val' = [val EXCEPT ![p] = NoFile]
    /\ UNCHANGED <<disk, gauges, mutex, seen, sweep, closing>>

\* A failed content write returns from Set and leaves what was written.
SetWriteFails(p) ==
    /\ CanFail
    /\ pc[p] \in {"truncate", "write"}
    /\ Unlock
    /\ Return(p)
    /\ val' = [val EXCEPT ![p] = NoFile]
    /\ UNCHANGED <<disk, gauges, seen, sweep, closing>>

\* A failed metadata write is ignored.
SetMetaFails(p) ==
    /\ CanFail
    /\ pc[p] \in {"metaTruncate", "metaWrite"}
    /\ Goto(p, "count")
    /\ UNCHANGED <<disk, gauges, mutex, args, seen, sweep, closing>>

Set(p) ==
    \/ SetLock(p) \/ EvictContent(p) \/ EvictMeta(p) \/ EvictDone(p)
    \/ SetTruncate(p) \/ SetWrite(p) \/ SetMetaTruncate(p) \/ SetMetaWrite(p)
    \/ SetCount(p) \/ SetWriteFails(p) \/ SetMetaFails(p)

-----------------------------------------------------------------------------
(* Delete and Clear *)

CallDelete(p, k) ==
    /\ pc[p] = "idle"
    /\ Goto(p, "delLock")
    /\ key' = [key EXCEPT ![p] = k]
    /\ UNCHANGED <<disk, gauges, mutex, val, seen, sweep, closing>>

CallClear(p) ==
    /\ pc[p] = "idle"
    /\ Goto(p, "clearLock")
    /\ UNCHANGED <<disk, gauges, mutex, args, seen, sweep, closing>>

DeleteLock(p) ==
    /\ pc[p] = "delLock"
    /\ Lock(p)
    /\ Goto(p, "delContent")
    /\ UNCHANGED <<disk, gauges, args, seen, sweep, closing>>

\* Wrong variant: a key that is not there is counted out as well.
DeleteAnyway(p) ==
    /\ pc[p] = "delContent"
    /\ size' = size - LenAt(content, key[p])
    /\ items' = items - 1
    /\ content' = Remove(content, key[p])
    /\ Goto(p, "delMeta")
    /\ UNCHANGED <<meta, mutex, args, seen, sweep, closing>>

DeleteContent(p) ==
    /\ pc[p] = "delContent"
    /\ size' = size - LenAt(content, key[p])
    /\ items' = IF content[key[p]] = NoFile THEN items ELSE items - 1
    /\ content' = Remove(content, key[p])
    /\ Goto(p, "delMeta")
    /\ UNCHANGED <<meta, mutex, args, seen, sweep, closing>>

DeleteMeta(p) ==
    /\ pc[p] = "delMeta"
    /\ meta' = Remove(meta, key[p])
    /\ Unlock
    /\ Return(p)
    /\ UNCHANGED <<content, gauges, val, seen, sweep, closing>>

ClearLock(p) ==
    /\ pc[p] = "clearLock"
    /\ Lock(p)
    /\ Goto(p, "clear")
    /\ UNCHANGED <<disk, gauges, args, seen, sweep, closing>>

\* os.RemoveAll takes the files away one at a time, in any order.
ClearRemove(p) ==
    /\ pc[p] = "clear"
    /\ \E k \in Key :
          \/ content[k] # NoFile /\ content' = Remove(content, k) /\ UNCHANGED meta
          \/ meta[k] # NoFile /\ meta' = Remove(meta, k) /\ UNCHANGED content
    /\ UNCHANGED <<gauges, mutex, pc, args, seen, sweep, closing>>

ClearReset(p) ==
    /\ pc[p] = "clear"
    /\ \A k \in Key : content[k] = NoFile /\ meta[k] = NoFile
    /\ size' = 0
    /\ items' = 0
    /\ Unlock
    /\ Return(p)
    /\ UNCHANGED <<disk, val, seen, sweep, closing>>

Administer(p) ==
    \/ DeleteLock(p) \/ DeleteContent(p) \/ DeleteMeta(p)
    \/ ClearLock(p) \/ ClearRemove(p) \/ ClearReset(p)

-----------------------------------------------------------------------------
(* The cleanup goroutine and Close *)

\* The ticker fires; select takes it although stopCleanup may be ready too.
CleanupTick ==
    /\ pc[Janitor] = "wait"
    /\ Goto(Janitor, "cleanupLock")
    /\ UNCHANGED <<disk, gauges, mutex, args, seen, sweep, closing>>

\* now := time.Now() is read once, so what is expired is fixed here.
CleanupLock ==
    /\ pc[Janitor] = "cleanupLock"
    /\ Lock(Janitor)
    /\ todo' = {k \in Key : Expired(content, k)}
    /\ Goto(Janitor, "sweep")
    /\ UNCHANGED <<disk, gauges, args, seen, freed, victim, closing>>

CleanupContent ==
    /\ pc[Janitor] = "sweep"
    /\ \E k \in todo :
          /\ size' = size - LenAt(content, k)
          /\ items' = items - 1
          /\ content' = Remove(content, k)
          /\ todo' = todo \ {k}
          /\ victim' = k
    /\ Goto(Janitor, "sweepMeta")
    /\ UNCHANGED <<meta, mutex, args, seen, freed, closing>>

CleanupMeta ==
    /\ pc[Janitor] = "sweepMeta"
    /\ meta' = Remove(meta, victim)
    /\ victim' = NoKey
    /\ Goto(Janitor, "sweep")
    /\ UNCHANGED <<content, gauges, mutex, args, seen, freed, todo, closing>>

\* Wrong variants: the goroutine ends after its first sweep; it keeps the mutex.
CleanupOnce ==
    /\ pc[Janitor] = "sweep"
    /\ todo = {}
    /\ Unlock
    /\ Goto(Janitor, "done")
    /\ UNCHANGED <<disk, gauges, args, seen, sweep, closing>>

CleanupKeepsLock ==
    /\ pc[Janitor] = "sweep"
    /\ todo = {}
    /\ Goto(Janitor, "wait")
    /\ UNCHANGED <<disk, gauges, mutex, args, seen, sweep, closing>>

CleanupUnlock ==
    /\ pc[Janitor] = "sweep"
    /\ todo = {}
    /\ Unlock
    /\ Goto(Janitor, "wait")
    /\ UNCHANGED <<disk, gauges, args, seen, sweep, closing>>

CleanupStop ==
    /\ pc[Janitor] = "wait"
    /\ closing = "closing"
    /\ Goto(Janitor, "done")
    /\ UNCHANGED <<disk, gauges, mutex, args, seen, sweep, closing>>

CloseStart ==
    /\ closing = "open"
    /\ closing' = "closing"
    /\ UNCHANGED <<disk, gauges, mutex, pc, args, seen, sweep>>

\* c.wg.Wait() returns once cleanupLoop has.
CloseReturn ==
    /\ closing = "closing"
    /\ pc[Janitor] = "done"
    /\ closing' = "closed"
    /\ UNCHANGED <<disk, gauges, mutex, pc, args, seen, sweep>>

Cleanup == CleanupLock \/ CleanupContent \/ CleanupMeta \/ CleanupUnlock

-----------------------------------------------------------------------------
(* Time, crash and restart *)

Older(f) == IF f = NoFile \/ f.age > Ttl THEN f ELSE [f EXCEPT !.age = @ + 1]

Tick ==
    /\ \E k \in Present(content) : ~Expired(content, k)
    /\ content' = [k \in Key |-> Older(content[k])]
    /\ UNCHANGED <<meta, gauges, mutex, pc, args, seen, sweep, closing>>

\* The process is killed and started again: the disk survives, goroutines and
\* mutex do not, and NewFilesystemCache counts the .bin files it finds.
Restart ==
    /\ CanCrash
    /\ size' = Used(content)
    /\ items' = Cardinality(Present(content))
    /\ writer' = NoProc
    /\ readers' = {}
    /\ pc' = [p \in Proc |-> IF p = Janitor THEN "wait" ELSE "idle"]
    /\ seen' = [p \in Reader |-> Outcome("none")]
    /\ freed' = 0
    /\ victim' = NoKey
    /\ todo' = {}
    /\ closing' = "open"
    /\ key' = [p \in Caller |-> NoKey]
    /\ val' = [p \in Writer |-> NoFile]
    /\ UNCHANGED disk

-----------------------------------------------------------------------------

Init ==
    /\ content = [k \in Key |-> NoFile]
    /\ meta = [k \in Key |-> NoFile]
    /\ size = 0
    /\ items = 0
    /\ writer = NoProc
    /\ readers = {}
    /\ pc = [p \in Proc |-> IF p = Janitor THEN "wait" ELSE "idle"]
    /\ key = [p \in Caller |-> NoKey]
    /\ val = [p \in Writer |-> NoFile]
    /\ seen = [p \in Reader |-> Outcome("none")]
    /\ freed = 0
    /\ victim = NoKey
    /\ todo = {}
    /\ closing = "open"

Next ==
    \/ \E p \in Reader : Get(p) \/ \E k \in Key : CallGet(p, k)
    \/ \E p \in Writer : Set(p) \/ \E k \in Key, v \in Value : CallSet(p, k, v)
    \/ \E p \in Admin : Administer(p) \/ CallClear(p) \/ \E k \in Key : CallDelete(p, k)
    \/ CleanupTick \/ Cleanup \/ CleanupStop \/ CloseStart \/ CloseReturn
    \/ Tick
    \/ Restart

Spec == Init /\ [][Next]_vars

\* Goroutines run, the clock and the ticker go on, and the RWMutex starves nobody:
\* a waiting Lock keeps new RLocks out, and Unlock lets the waiting readers in.
\* select picks at random among its ready cases, so it takes stopCleanup in the end.
Fairness ==
    /\ \A p \in Reader : WF_vars(Get(p)) /\ SF_vars(GetRLock(p))
    /\ \A p \in Writer : WF_vars(Set(p)) /\ SF_vars(SetLock(p))
    /\ \A p \in Admin : WF_vars(Administer(p)) /\ SF_vars(DeleteLock(p)) /\ SF_vars(ClearLock(p))
    /\ WF_vars(CleanupTick) /\ SF_vars(CleanupLock) /\ WF_vars(Cleanup)
    /\ SF_vars(CleanupStop) /\ WF_vars(CloseReturn)

FairSpec == Spec /\ Fairness

-----------------------------------------------------------------------------
(* Properties *)

SharedSteps    == {"stat", "expireContent", "expireMeta", "readContent",
                   "readMeta", "runlock"}
WriteSteps     == {"write", "metaTruncate", "metaWrite", "count"}
ExclusiveSteps == WriteSteps \cup
                  {"evict", "evictMeta", "truncate", "delContent", "delMeta",
                   "clear", "sweep", "sweepMeta"}

ReaderSteps  == SharedSteps \cup {"idle", "rlock"}
WriterSteps  == WriteSteps \cup {"idle", "lock", "evict", "evictMeta", "truncate"}
AdminSteps   == {"idle", "delLock", "delContent", "delMeta", "clearLock", "clear"}
JanitorSteps == {"wait", "cleanupLock", "sweep", "sweepMeta", "done"}

\* The types of the variables.
TypeOK ==
    /\ content \in [Key -> File \cup {NoFile}]
    /\ meta \in [Key -> Value \cup {NoFile, Torn}]
    /\ size \in Int
    /\ items \in Int
    /\ writer \in Proc \cup {NoProc}
    /\ readers \in SUBSET Reader
    /\ pc \in [Proc -> ReaderSteps \cup WriterSteps \cup AdminSteps \cup JanitorSteps]
    /\ key \in [Caller -> Key \cup {NoKey}]
    /\ val \in [Writer -> Value \cup {NoFile}]
    /\ seen \in [Reader -> [kind : {"none", "miss", "error", "hit"},
                            val : Value \cup {NoFile}, len : 0 .. MaxLen,
                            meta : Value \cup {NoFile}]]
    /\ freed \in Nat
    /\ victim \in Key \cup {NoKey}
    /\ todo \in SUBSET Key
    /\ closing \in {"open", "closing", "closed"}

\* The Set that has begun to write its file and has not counted it yet: its
\* bytes, and whether the mutex holder is such a Set.
Storing  == writer \in Writer /\ pc[writer] \in WriteSteps
InFlight == IF Storing THEN LenAt(content, key[writer]) ELSE 0

\* The size gauge is never below the bytes on disk, nor the item gauge below the
\* number of files, but for the file being stored: eviction, which reads the
\* gauges and not the disk, never starts too late (lines 155, 185-186, 206-207,
\* 358-359, 405-406, and the unaccounted removal of lines 111-112).
GaugesCoverDisk ==
    /\ Used(content) <= size + InFlight
    /\ Cardinality(Present(content)) <= items + (IF Storing THEN 1 ELSE 0)

\* The contents on disk fit in maxSize, whatever the interleaving, overwriting,
\* expiry or crash; only a content that does not fit by itself may exceed it, and
\* then no other content is beside it (lines 154-160 and 346-360).
AtMostOne(c) == \A j, k \in Key : LenAt(c, j) > 0 /\ LenAt(c, k) > 0 => j = k

DiskWithinLimit == Used(content) <= MaxSize \/ AtMostOne(content)

\* A hit carries a whole content, and metadata that was stored with that very
\* content or none at all, although the two files are read and replaced one
\* after the other (lines 116-139 and 171-182).
HitPaired ==
    \A p \in Reader : pc[p] = "runlock" /\ seen[p].kind = "hit" =>
        /\ seen[p].len = Len[seen[p].val]
        /\ seen[p].meta \in {seen[p].val, NoFile}

\* What architecture.md:703 says of the cache ("Atomic writes (temp file +
\* rename)"): nobody is ever served a partly written file.
AtomicWrites ==
    \A p \in Reader : pc[p] = "runlock" /\ seen[p].kind = "hit" =>
        seen[p].len = Len[seen[p].val]

\* What interfaces.go:37-41 says of Stats ("the current cache size in bytes", "the
\* number of items in cache"), while nobody is in the middle of anything.
StatsExact ==
    writer = NoProc /\ readers = {} =>
        size = Used(content) /\ items = Cardinality(Present(content))

\* No metadata file outlives its content: nothing but Clear would ever find it
\* again, since eviction and cleanup look for .bin files only (lines 325, 394).
NoOrphanMeta ==
    \A k \in Key : meta[k] # NoFile /\ content[k] = NoFile =>
        \/ victim = k
        \/ \E p \in Reader : pc[p] = "expireMeta" /\ key[p] = k
        \/ \E p \in Admin : pc[p] = "delMeta" /\ key[p] = k
        \/ \E p \in Admin : pc[p] = "clear"

\* A Get, which removes files under the shared lock, only ever removes a content
\* that has expired: never one that a Set has just put in its place (108-112).
GetRemovesOnlyExpired ==
    [][\A p \in Reader, k \in Key :
          Get(p) /\ content'[k] # content[k] => content'[k] = NoFile /\ Expired(content, k)]_vars

\* By how much the size gauge exceeds the bytes it stands for.
Drift == size + InFlight - Used(content)

\* What the size gauge counts too much it counts until Clear or a restart: no
\* other operation ever takes it back (lines 111-112 and 185 against 206, 358, 405).
DriftStays ==
    [][Drift' >= Drift \/ (\E p \in Admin : ClearReset(p)) \/ Restart]_vars

\* Every call returns: no error path keeps the mutex, and eviction and sweeping end.
CallsReturn == \A p \in Caller : pc[p] # "idle" ~> pc[p] = "idle"

\* While the cleanup goroutine runs, an expired content is removed or replaced,
\* although nobody asks for it again (lines 366-411).
ExpiredGoes ==
    \A k \in Key : Expired(content, k) ~> ~Expired(content, k) \/ closing # "open"

\* Close waits for a sweep under way and then returns (lines 265-269).
CloseReturns == closing = "closing" ~> closing = "closed"

-----------------------------------------------------------------------------
(* Why the safety properties are inductive *)

\* Every goroutine is inside its own operation, and the mutex is held by
\* exactly those that are between its locking and its unlocking.
MutexInv ==
    /\ \A p \in Reader : pc[p] \in ReaderSteps
    /\ \A p \in Writer : pc[p] \in WriterSteps
    /\ \A p \in Admin : pc[p] \in AdminSteps
    /\ pc[Janitor] \in JanitorSteps
    /\ \A p \in Proc : pc[p] \in ExclusiveSteps <=> writer = p
    /\ \A p \in Reader : pc[p] \in SharedSteps => p \in readers
    /\ writer # NoProc => readers = {}

\* A call under way has its arguments.
ArgsInv ==
    /\ \A p \in Reader : pc[p] # "idle" => key[p] \in Key
    /\ \A p \in Writer : pc[p] # "idle" => key[p] \in Key /\ val[p] \in Value
    /\ \A p \in Admin : pc[p] \in {"delLock", "delContent", "delMeta"} => key[p] \in Key

\* A Get that is about to remove an expired content finds that one or none.
ExpireInv ==
    \A p \in Reader : pc[p] = "expireContent" /\ content[key[p]] # NoFile
                        => Expired(content, key[p])

\* A Set that has truncated its file owns it until it returns.
StoreInv ==
    Storing =>
        LET c == content[key[writer]] IN
        /\ c # NoFile
        /\ c.val = val[writer]
        /\ IF pc[writer] = "write" THEN c.len <= Len[val[writer]] ELSE c.len = Len[val[writer]]

\* What a sweep still has to remove is there.
SweepInv == pc[Janitor] \in {"sweep", "sweepMeta"} => todo \subseteq Present(content)

\* The room a Set has made, or will have made, for its n bytes.
RoomInv ==
    writer \in Writer =>
        LET n == Len[val[writer]] IN
        /\ pc[writer] \in {"evict", "evictMeta"} =>
              \/ Used(content) + freed <= MaxSize
              \/ Used(content) = 0
              \/ freed = 0 /\ AtMostOne(content)
        /\ pc[writer] = "truncate" =>
              \/ Used(content) + n <= MaxSize
              \/ Used(content) = 0
              \/ n = 0 /\ AtMostOne(content)
        /\ pc[writer] \in WriteSteps =>
              \/ Used(content) - InFlight + n <= MaxSize
              \/ Used(content) = InFlight
              \/ n = 0 /\ AtMostOne(content)

\* Inductive, whatever fails.
ControlInv == TypeOK /\ MutexInv /\ ArgsInv /\ ExpireInv /\ StoreInv /\ SweepInv

\* Inductive together with ControlInv as long as no write fails.
LimitInv == GaugesCoverDisk /\ RoomInv /\ DiskWithinLimit

\* Who has no call under way has no arguments.
RestInv ==
    /\ \A p \in Reader : pc[p] = "idle" => key[p] = NoKey
    /\ \A p \in Writer : pc[p] = "idle" => key[p] = NoKey /\ val[p] = NoFile

VictimInv == victim # NoKey => writer # NoProc /\ pc[writer] \in {"evictMeta", "sweepMeta"}

\* But for the file that a Set is storing, every content is whole and beside its
\* own metadata or none.
WholeInv ==
    /\ \A k \in Key : content[k] # NoFile =>
          \/ Storing /\ key[writer] = k
          \/ Whole(k) /\ meta[k] \in {content[k].val, NoFile}
    /\ Storing /\ pc[writer] = "count" => meta[key[writer]] = val[writer]

\* A Get that has read a whole content finds its metadata beside it, or none.
HitInv ==
    \A p \in Reader :
        /\ pc[p] = "readMeta" => seen[p].kind = "hit"
        /\ pc[p] \in {"readMeta", "runlock"} /\ seen[p].kind = "hit" =>
              /\ seen[p].len = Len[seen[p].val]
              /\ IF pc[p] = "readMeta" THEN meta[key[p]] \in {seen[p].val, NoFile}
                                       ELSE seen[p].meta \in {seen[p].val, NoFile}

\* Inductive together with ControlInv as long as no write fails and the process lives.
PairInv == RestInv /\ VictimInv /\ WholeInv /\ HitInv /\ NoOrphanMeta

-----------------------------------------------------------------------------
(* The cache interface this implements.  A Get is decided when it reads the  *)
(* content or gives up, and then expects the metadata beside the content,    *)
(* until it has read what is there; a Set takes effect when its last byte is *)
(* written.  A content that was read cut off is no value of the interface.   *)

Decided(p) == pc[p] \in {"readMeta", "runlock"}

NoAnswer(kind) == [kind |-> kind, val |-> NoFile, meta |-> NoFile]
Found(s, m)    == [kind |-> "hit", val |-> IF s.len = Len[s.val] THEN s.val ELSE Torn, meta |-> m]

Held    == [k \in Key |-> IF Whole(k) THEN content[k].val ELSE NoFile]
Asked   == [p \in Reader |-> key[p]]
Answers == [p \in Reader |->
              IF ~Decided(p) THEN NoAnswer("none")
              ELSE IF seen[p].kind # "hit" THEN NoAnswer("nothing")
              ELSE Found(seen[p], IF pc[p] = "readMeta" THEN seen[p].val ELSE seen[p].meta)]
Putting == [p \in Writer |-> [key |-> key[p], val |-> val[p]]]

Promise == INSTANCE Cache WITH
    NoValue <- NoFile, store <- Held, asked <- Asked, answer <- Answers, putting <- Putting,
    late <- {}

\* Read and written one step at a time, with eviction, expiry and removal between
\* the steps, the files behave like the cache of domain/interfaces.go in Cache.tla: a
\* Get returns a whole content that its key had, with the metadata of that content
\* or, when another Get removed it at expiry in between, with none (lines 117-139).
KeepsPromise == Promise!Spec
=============================================================================
