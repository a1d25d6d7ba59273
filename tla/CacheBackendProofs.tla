------------------------ MODULE CacheBackendProofs -------------------------
(***************************************************************************)
(* Theorems about the cache that a process opens.  The filesystem cache in *)
(* a process that lives, with a disk that takes every write: hits are      *)
(* whole and paired, no metadata is orphaned, the gauge never makes up for *)
(* what it counts too much, and the whole is the atomic cache of           *)
(* Cache.tla.  So is the Redis cache (RedisCacheProofs), and so is         *)
(* whichever of the two initializeCache has opened.                        *)
(***************************************************************************)
EXTENDS FsCacheProofs, CacheBackend

-----------------------------------------------------------------------------
(* Contents and their metadata *)

\* Gets hold the mutex shared: what they read belongs to no Set, and what they
\* remove of an expired file they remove whole.
LEMMA GetPair ==
    ASSUME ControlInv, PairInv, NEW p \in Reader, Get(p) \/ \E k \in Key : CallGet(p, k)
    PROVE  PairInv'
<1> USE ConstantsAssumption, DistinctAssumption
    DEF ControlInv, TypeOK, MutexInv, ArgsInv, PairInv, RestInv, VictimInv, WholeInv, Whole, HitInv,
        NoOrphanMeta, Storing, Proc, Caller, Goto, Return, Remove, disk, gauges, mutex, args, sweep,
        ReaderSteps, SharedSteps, ExclusiveSteps, WriteSteps, WriterSteps,
        AdminSteps, JanitorSteps, Outcome, RLock, RUnlock
<1>1. ASSUME NEW k \in Key, CallGet(p, k)
      PROVE  PairInv'
  BY <1>1 DEF CallGet
<1>2. CASE GetRLock(p)
  BY <1>2 DEF GetRLock
<1>3. CASE GetStat(p)
  BY <1>3 DEF GetStat
<1>4. CASE GetExpireContent(p)
  BY <1>4 DEF GetExpireContent
<1>5. CASE GetExpireMeta(p)
  BY <1>5 DEF GetExpireMeta
<1>6. CASE GetReadContent(p)
  <2>1. key[p] \in Key /\ writer = NoProc /\ ~Storing
    BY <1>6 DEF GetReadContent
  <2>2. UNCHANGED <<content, meta, writer, victim, key, val>>
    BY <1>6 DEF GetReadContent
  <2>3. RestInv' /\ VictimInv' /\ WholeInv' /\ NoOrphanMeta'
    BY <1>6, <2>1, <2>2 DEF GetReadContent
  <2>4. HitInv'
    <3>1. CASE content[key[p]] = NoFile
      BY <1>6, <2>2, <3>1 DEF GetReadContent, File
    <3>2. CASE content[key[p]] # NoFile
      <4>1. Whole(key[p]) /\ meta[key[p]] \in {content[key[p]].val, NoFile}
        BY <2>1, <3>2
      <4>2. /\ seen' = [seen EXCEPT ![p] =
                          [kind |-> "hit", val |-> content[key[p]].val,
                           len |-> content[key[p]].len, meta |-> NoFile]]
            /\ pc' = [pc EXCEPT ![p] = "readMeta"]
        BY <1>6, <3>2 DEF GetReadContent
      <4> QED
        BY <2>2, <4>1, <4>2
    <3> QED
      BY <3>1, <3>2
  <2> QED
    BY <2>3, <2>4
<1>7. CASE GetReadMeta(p)
  <2>1. /\ UNCHANGED <<content, meta, writer, victim, key, val>>
        /\ key[p] \in Key
        /\ pc' = [pc EXCEPT ![p] = "runlock"]
    BY <1>7 DEF GetReadMeta
  <2>2. RestInv' /\ VictimInv' /\ WholeInv' /\ NoOrphanMeta'
    BY <1>7, <2>1 DEF GetReadMeta
  <2>3. PICK m : /\ seen' = [seen EXCEPT ![p].meta = m]
                 /\ m = IF meta[key[p]] \in Value THEN meta[key[p]] ELSE NoFile
    BY <1>7 DEF GetReadMeta
  <2>4. /\ seen[p].kind = "hit"
        /\ seen[p].len = Len[seen[p].val]
        /\ m \in {seen[p].val, NoFile}
    BY <1>7, <2>3 DEF GetReadMeta
  <2>5. /\ seen'[p].val = seen[p].val
        /\ seen'[p].len = seen[p].len
        /\ seen'[p].meta = m
        /\ \A q \in Reader : q # p => seen'[q] = seen[q] /\ pc'[q] = pc[q]
    BY <2>1, <2>3
  <2>6. HitInv'
    BY <2>1, <2>4, <2>5
  <2> QED
    BY <2>2, <2>6
<1>8. CASE GetReturn(p)
  BY <1>8 DEF GetReturn
<1> QED
  BY <1>1, <1>2, <1>3, <1>4, <1>5, <1>6, <1>7, <1>8 DEF Get

\* A Set that is through leaves a whole content beside its metadata.
LEMMA SetPair ==
    ASSUME ControlInv, PairInv, ~CanFail, NEW p \in Writer,
           Set(p) \/ \E k \in Key, v \in Value : CallSet(p, k, v)
    PROVE  PairInv'
<1> USE ConstantsAssumption, DistinctAssumption
    DEF ControlInv, TypeOK, MutexInv, ArgsInv, StoreInv, PairInv, RestInv, VictimInv, WholeInv,
        Whole, HitInv, NoOrphanMeta, Storing, Proc, Caller, Goto, Return, Remove, disk, gauges, mutex,
        args, sweep, ReaderSteps, SharedSteps, ExclusiveSteps, WriteSteps, WriterSteps,
        AdminSteps, JanitorSteps, Lock, Unlock, Put, File
<1>1. ASSUME NEW k \in Key, NEW v \in Value, CallSet(p, k, v)
      PROVE  PairInv'
  BY <1>1 DEF CallSet
<1>2. CASE SetLock(p)
  BY <1>2 DEF SetLock
<1>3. CASE EvictContent(p)
  BY <1>3 DEF EvictContent, Oldest, Present
<1>4. CASE EvictMeta(p)
  BY <1>4 DEF EvictMeta
<1>5. CASE EvictDone(p)
  BY <1>5 DEF EvictDone
<1>6. CASE SetTruncate(p)
  BY <1>6 DEF SetTruncate
<1>7. CASE SetWrite(p)
  BY <1>7 DEF SetWrite, LenAt
<1>8. CASE SetMetaTruncate(p)
  BY <1>8 DEF SetMetaTruncate
<1>9. CASE SetMetaWrite(p)
  BY <1>9 DEF SetMetaWrite
<1>10. CASE SetCount(p)
  BY <1>10 DEF SetCount
<1> QED
  BY <1>1, <1>2, <1>3, <1>4, <1>5, <1>6, <1>7, <1>8, <1>9, <1>10 DEF Set, SetWriteFails, SetMetaFails

\* Delete removes the metadata last, Clear everything.
LEMMA AdminPair ==
    ASSUME ControlInv, PairInv, NEW p \in Admin,
           Administer(p) \/ CallClear(p) \/ \E k \in Key : CallDelete(p, k)
    PROVE  PairInv'
<1> USE ConstantsAssumption, DistinctAssumption
    DEF ControlInv, TypeOK, MutexInv, ArgsInv, PairInv, RestInv, VictimInv, WholeInv, Whole, HitInv,
        NoOrphanMeta, Storing, Proc, Caller, Goto, Return, Remove, disk, gauges, mutex, args, sweep,
        ReaderSteps, SharedSteps, ExclusiveSteps, WriteSteps, WriterSteps,
        AdminSteps, JanitorSteps, Lock, Unlock
<1>1. ASSUME NEW k \in Key, CallDelete(p, k)
      PROVE  PairInv'
  BY <1>1 DEF CallDelete
<1>2. CASE CallClear(p)
  BY <1>2 DEF CallClear
<1>3. CASE DeleteLock(p)
  BY <1>3 DEF DeleteLock
<1>4. CASE DeleteContent(p)
  BY <1>4 DEF DeleteContent
<1>5. CASE DeleteMeta(p)
  BY <1>5 DEF DeleteMeta
<1>6. CASE ClearLock(p)
  BY <1>6 DEF ClearLock
<1>7. CASE ClearRemove(p)
  BY <1>7 DEF ClearRemove
<1>8. CASE ClearReset(p)
  BY <1>8 DEF ClearReset
<1> QED
  BY <1>1, <1>2, <1>3, <1>4, <1>5, <1>6, <1>7, <1>8 DEF Administer

\* The sweep removes the metadata of each content it removes before the next.
LEMMA JanitorPair ==
    ASSUME ControlInv, PairInv, CleanupTick \/ Cleanup \/ CleanupStop \/ CloseStart \/ CloseReturn
    PROVE  PairInv'
<1> USE ConstantsAssumption, DistinctAssumption
    DEF ControlInv, TypeOK, MutexInv, ArgsInv, PairInv, RestInv, VictimInv, WholeInv, Whole, HitInv,
        NoOrphanMeta, Storing, Proc, Caller, Goto, Return, Remove, disk, gauges, mutex, args, sweep,
        ReaderSteps, SharedSteps, ExclusiveSteps, WriteSteps, WriterSteps,
        AdminSteps, JanitorSteps, Lock, Unlock
<1>1. CASE CleanupTick
  BY <1>1 DEF CleanupTick
<1>2. CASE CleanupLock
  BY <1>2 DEF CleanupLock
<1>3. CASE CleanupContent
  BY <1>3 DEF CleanupContent
<1>4. CASE CleanupMeta
  BY <1>4 DEF CleanupMeta
<1>5. CASE CleanupUnlock
  BY <1>5 DEF CleanupUnlock
<1>6. CASE CleanupStop
  BY <1>6 DEF CleanupStop
<1>7. CASE CloseStart
  BY <1>7 DEF CloseStart
<1>8. CASE CloseReturn
  BY <1>8 DEF CloseReturn
<1> QED
  BY <1>1, <1>2, <1>3, <1>4, <1>5, <1>6, <1>7, <1>8 DEF Cleanup

LEMMA TickPair ==
    ASSUME ControlInv, PairInv, Tick
    PROVE  PairInv'
<1>1. content \in Disk
  BY DEF ControlInv, TypeOK, Disk
<1>2. UNCHANGED <<meta, writer, pc, key, val, seen, victim>>
  BY DEF Tick, mutex, args, sweep
<1>3. Storing' <=> Storing
  BY <1>2 DEF Storing
<1>4. \A k \in Key :
        /\ content'[k] = NoFile <=> content[k] = NoFile
        /\ content[k] # NoFile => content'[k].val = content[k].val
        /\ Whole(k) => Whole(k)'
  BY <1>1, TickAges DEF Whole
<1>5. WholeInv'
  BY <1>2, <1>3, <1>4 DEF PairInv, WholeInv
<1>6. RestInv' /\ VictimInv' /\ HitInv' /\ NoOrphanMeta'
  BY <1>2, <1>4 DEF PairInv, RestInv, VictimInv, HitInv, NoOrphanMeta
<1> QED
  BY <1>5, <1>6 DEF PairInv

LEMMA StutterPair == PairInv /\ UNCHANGED vars => PairInv'
BY DEF PairInv, RestInv, VictimInv, WholeInv, Whole, HitInv, NoOrphanMeta, Storing, vars

LEMMA InitPair == Init => PairInv
BY DistinctAssumption
DEF Init, PairInv, RestInv, VictimInv, WholeInv, Whole, HitInv, NoOrphanMeta, Storing, Outcome,
    Proc, Caller

LEMMA NextPair == ControlInv /\ PairInv /\ ~CanFail /\ ~CanCrash /\ [Next]_vars => PairInv'
<1> SUFFICES ASSUME ControlInv, PairInv, ~CanFail, ~CanCrash, [Next]_vars PROVE PairInv'
  OBVIOUS
<1>1. CASE UNCHANGED vars
  BY <1>1, StutterPair
<1>2. CASE Next
  BY <1>2, GetPair, SetPair, AdminPair, JanitorPair, TickPair DEF Next, Restart
<1> QED
  BY <1>1, <1>2

LEMMA PairCorrect == ~CanFail /\ ~CanCrash => (Spec => []PairInv)
<1> SUFFICES ASSUME ~CanFail, ~CanCrash PROVE Spec => []PairInv
  OBVIOUS
<1>1. Init => PairInv
  BY InitPair
<1>2. ControlInv /\ PairInv /\ [Next]_vars => PairInv'
  BY NextPair
<1> QED
  BY <1>1, <1>2, ControlCorrect, PTL DEF Spec

\* As long as no write fails and the process lives, a hit carries a whole content
\* and its own metadata or none, however Gets, Sets and removals interleave.
THEOREM HitsPaired == ~CanFail /\ ~CanCrash => (Spec => []HitPaired)
<1>1. PairInv => HitPaired
  BY DEF PairInv, HitInv, HitPaired
<1> QED
  BY <1>1, PairCorrect, PTL

\* As long as no write fails and the process lives, a metadata file without its
\* content is on its way out: no step leaves one that only Clear would find.
THEOREM NoOrphans == ~CanFail /\ ~CanCrash => (Spec => []NoOrphanMeta)
<1>1. PairInv => NoOrphanMeta
  BY DEF PairInv
<1> QED
  BY <1>1, PairCorrect, PTL

-----------------------------------------------------------------------------
(* What the size gauge counts too much *)

LEMMA DriftKept ==
    ASSUME ControlInv, Used(content') = Used(content), InFlight' = InFlight, size' = size
    PROVE  Drift' >= Drift
BY LimitTypes DEF Drift

\* A removal takes from the gauge the bytes it takes from the disk, or fewer.
LEMMA DriftRemoves ==
    ASSUME ControlInv, InFlight = 0, InFlight' = 0, NEW k \in Key, content' = Remove(content, k),
           size' \in {size, size - LenAt(content, k)}
    PROVE  Drift' >= Drift
<1>1. Used(content') = Used(content) - LenAt(content, k)
  BY LimitTypes, RemoveFile
<1>2. LenAt(content, k) \in Nat
  BY LimitTypes, LenAtType, ConstantsAssumption
<1> QED
  BY <1>1, <1>2, LimitTypes DEF Drift

LEMMA GetDrift ==
    ASSUME ControlInv, NEW p \in Reader, Get(p) \/ \E k \in Key : CallGet(p, k)
    PROVE  Drift' >= Drift
<1>1. CASE GetExpireContent(p)
  <2>1. key[p] \in Key /\ writer = NoProc /\ writer' = NoProc
    BY <1>1, DistinctAssumption DEF GetExpireContent, mutex, ControlInv, ArgsInv, MutexInv, SharedSteps
  <2>2. InFlight = 0 /\ InFlight' = 0
    BY <2>1, DistinctAssumption DEF InFlight, Storing, Proc, Caller
  <2> QED
    BY <1>1, <2>1, <2>2, DriftRemoves DEF GetExpireContent, gauges
<1>2. CASE ~GetExpireContent(p)
  <2>1. p \notin Writer /\ p \in Proc /\ \A w \in Writer : w \in Proc /\ w \in Caller
    BY DistinctAssumption DEF Proc, Caller
  <2>2. UNCHANGED <<content, size, writer>>
    BY <1>2 DEF Get, CallGet, GetRLock, GetStat, GetExpireMeta, GetReadContent, GetReadMeta,
                GetReturn, RLock, RUnlock, disk, gauges, mutex
  <2>3. \A w \in Writer : UNCHANGED <<pc[w], key[w]>>
    BY <1>2, <2>1
    DEF Get, CallGet, GetRLock, GetStat, GetExpireMeta, GetReadContent, GetReadMeta, GetReturn,
        RLock, RUnlock, Return, Goto, args, ControlInv, TypeOK
  <2>4. InFlight' = InFlight
    BY <2>2, <2>3 DEF InFlight, Storing, LenAt
  <2> QED
    BY <2>2, <2>4, DriftKept
<1> QED
  BY <1>1, <1>2

LEMMA SetDrift ==
    ASSUME ControlInv, ~CanFail, NEW p \in Writer,
           Set(p) \/ \E k \in Key, v \in Value : CallSet(p, k, v)
    PROVE  Drift' >= Drift
<1>1. ASSUME NEW k \in Key, NEW v \in Value, CallSet(p, k, v)
      PROVE  Drift' >= Drift
  <2>1. UNCHANGED <<content, size, writer>>
    BY <1>1 DEF CallSet, disk, gauges, mutex
  <2>2. \A w \in Writer : w # p => UNCHANGED <<pc[w], key[w]>>
    BY <1>1 DEF CallSet, Goto, ControlInv, TypeOK, Proc, Caller
  <2>3. writer # p
    BY <1>1 DEF CallSet, ControlInv, MutexInv, ExclusiveSteps, WriteSteps, Proc, Caller
  <2>4. InFlight' = InFlight
    BY <2>1, <2>2, <2>3 DEF InFlight, Storing, LenAt
  <2> QED
    BY <2>1, <2>4, DriftKept
<1>2. CASE SetLock(p)
  <2>1. writer = NoProc /\ writer' = p /\ UNCHANGED <<content, size>>
    BY <1>2 DEF SetLock, Lock, disk, gauges
  <2>2. pc'[p] \notin WriteSteps
    BY <1>2, DistinctAssumption DEF SetLock, Goto, ControlInv, TypeOK, Proc, Caller, WriteSteps
  <2>3. InFlight = 0 /\ InFlight' = 0
    BY <2>1, <2>2, DistinctAssumption DEF InFlight, Storing, Proc, Caller
  <2> QED
    BY <2>1, <2>3, DriftKept
<1>3. CASE EvictContent(p)
  <2>1. writer = p /\ writer' = p /\ pc[p] = "evict" /\ pc'[p] = "evictMeta"
    BY <1>3, SetInside DEF EvictContent, mutex, Goto, ExclusiveSteps, ControlInv, TypeOK
  <2>2. InFlight = 0 /\ InFlight' = 0
    BY <2>1 DEF InFlight, Storing, WriteSteps
  <2>3. PICK k \in Key : content' = Remove(content, k) /\ size' = size - LenAt(content, k)
    BY <1>3 DEF EvictContent, Oldest, Present, LenAt
  <2> QED
    BY <2>2, <2>3, DriftRemoves
<1>4. CASE EvictMeta(p) \/ EvictDone(p)
  <2>1. writer = p /\ writer' = p /\ UNCHANGED <<content, size>>
        /\ pc[p] \notin WriteSteps /\ pc'[p] \notin WriteSteps
    BY <1>4, SetInside
    DEF EvictMeta, EvictDone, disk, gauges, mutex, Goto, ExclusiveSteps, WriteSteps, ControlInv, TypeOK
  <2>2. InFlight = 0 /\ InFlight' = 0
    BY <2>1 DEF InFlight, Storing
  <2> QED
    BY <2>1, <2>2, DriftKept
<1>5. CASE SetTruncate(p)
  <2>1. writer = p /\ writer' = p /\ size' = size /\ key' = key /\ pc[p] = "truncate"
        /\ pc'[p] \in WriteSteps /\ key[p] \in Key /\ val[p] \in Value
    BY <1>5, SetInside
    DEF SetTruncate, gauges, mutex, args, Goto, ExclusiveSteps, WriteSteps, ControlInv, TypeOK
  <2>2. content' = Put(content, key[p], val[p], 0) /\ 0 \in 0 .. MaxLen
    BY <1>5, ConstantsAssumption DEF SetTruncate
  <2>3. LenAt(content', key[p]) = 0 /\ Used(content') = Used(content) - LenAt(content, key[p]) + 0
    BY <2>1, <2>2, LimitTypes, PutFile
  <2>4. InFlight = 0 /\ InFlight' = 0
    BY <2>1, <2>3 DEF InFlight, Storing, WriteSteps
  <2>5. LenAt(content, key[p]) \in Nat
    BY <2>1, LimitTypes, LenAtType, ConstantsAssumption
  <2> QED
    BY <2>1, <2>3, <2>4, <2>5, LimitTypes DEF Drift
<1>6. CASE SetWrite(p)
  <2>1. writer = p /\ writer' = p /\ size' = size /\ key' = key
        /\ pc[p] \in WriteSteps /\ pc'[p] \in WriteSteps
        /\ key[p] \in Key /\ val[p] \in Value /\ Len[val[p]] \in 0 .. MaxLen
    BY <1>6, SetInside
    DEF SetWrite, gauges, mutex, args, Goto, ExclusiveSteps, WriteSteps, ControlInv, TypeOK
  <2>2. LenAt(content, key[p]) \in Nat
    BY <2>1, LimitTypes, LenAtType, ConstantsAssumption
  <2>3. PICK m \in (LenAt(content, key[p]) + 1) .. Len[val[p]] : content' = Put(content, key[p], val[p], m)
    BY <1>6 DEF SetWrite
  <2>4. m \in 0 .. MaxLen
    BY <2>1, <2>2, <2>3, ConstantsAssumption
  <2>5. LenAt(content', key[p]) = m /\ Used(content') = Used(content) - LenAt(content, key[p]) + m
    BY <2>1, <2>3, <2>4, LimitTypes, PutFile
  <2>6. InFlight = LenAt(content, key[p]) /\ InFlight' = m
    BY <2>1, <2>5 DEF InFlight, Storing
  <2> QED
    BY <2>1, <2>2, <2>4, <2>5, <2>6, LimitTypes, ConstantsAssumption DEF Drift
<1>7. CASE SetMetaTruncate(p) \/ SetMetaWrite(p)
  <2>1. writer = p /\ writer' = p /\ UNCHANGED <<content, size, key>>
        /\ pc[p] \in WriteSteps /\ pc'[p] \in WriteSteps
    BY <1>7, SetInside
    DEF SetMetaTruncate, SetMetaWrite, gauges, mutex, args, Goto, ExclusiveSteps, WriteSteps,
        ControlInv, TypeOK
  <2>2. InFlight' = InFlight
    BY <2>1 DEF InFlight, Storing
  <2> QED
    BY <2>1, <2>2, DriftKept
<1>8. CASE SetCount(p)
  <2>1. /\ writer = p /\ writer' = NoProc /\ content' = content
        /\ size' = size + Len[val[p]] /\ Len[val[p]] \in 0 .. MaxLen
        /\ pc[p] = "count" /\ Storing /\ InFlight = LenAt(content, key[p])
    BY <1>8, SetInside DEF SetCount, Unlock, disk, ExclusiveSteps, WriteSteps
  <2>2. LenAt(content, key[p]) = Len[val[p]]
    BY <2>1 DEF LenAt, ControlInv, StoreInv
  <2>3. InFlight' = 0
    BY <2>1, DistinctAssumption DEF InFlight, Storing, Proc, Caller
  <2> QED
    BY <2>1, <2>2, <2>3, LimitTypes DEF Drift
<1> QED
  BY <1>1, <1>2, <1>3, <1>4, <1>5, <1>6, <1>7, <1>8 DEF Set, SetWriteFails, SetMetaFails

LEMMA AdminDrift ==
    ASSUME ControlInv, NEW p \in Admin, ~ClearReset(p),
           Administer(p) \/ CallClear(p) \/ \E k \in Key : CallDelete(p, k)
    PROVE  Drift' >= Drift
<1>1. p \in Proc /\ p \notin Writer /\ NoProc \notin Writer /\ \A w \in Writer : w \in Caller /\ w \in Proc
  BY DistinctAssumption DEF Proc, Caller
<1>2. CASE CallClear(p) \/ \E k \in Key : CallDelete(p, k)
  <2>1. UNCHANGED <<content, size, writer>> /\ \A w \in Writer : UNCHANGED <<pc[w], key[w]>>
    BY <1>1, <1>2 DEF CallClear, CallDelete, disk, gauges, mutex, args, Goto, ControlInv, TypeOK
  <2>2. InFlight' = InFlight
    BY <2>1 DEF InFlight, Storing, LenAt
  <2> QED
    BY <2>1, <2>2, DriftKept
<1>3. CASE Administer(p)
  <2>1. writer \notin Writer /\ writer' \notin Writer
    BY <1>1, <1>3
    DEF Administer, DeleteLock, DeleteContent, DeleteMeta, ClearLock, ClearRemove, ClearReset,
        Lock, Unlock, mutex, ControlInv, MutexInv, ExclusiveSteps
  <2>2. InFlight = 0 /\ InFlight' = 0
    BY <2>1 DEF InFlight, Storing
  <2>3. CASE UNCHANGED <<content, size>>
    BY <2>2, <2>3, DriftKept
  <2>4. CASE DeleteContent(p)
    <3>1. key[p] \in Key
      BY <2>4 DEF DeleteContent, ControlInv, ArgsInv
    <3> QED
      BY <2>2, <2>4, <3>1, DriftRemoves DEF DeleteContent
  <2>5. CASE ClearRemove(p)
    <3>1. size' = size
      BY <2>5 DEF ClearRemove, gauges
    <3>2. content' = content \/ \E k \in Key : content' = Remove(content, k)
      BY <2>5 DEF ClearRemove
    <3> QED
      BY <2>2, <3>1, <3>2, DriftKept, DriftRemoves
  <2>6. CASE DeleteLock(p) \/ DeleteMeta(p) \/ ClearLock(p)
    BY <2>3, <2>6 DEF DeleteLock, DeleteMeta, ClearLock, disk, gauges
  <2> QED
    BY <1>3, <2>4, <2>5, <2>6 DEF Administer
<1> QED
  BY <1>2, <1>3

LEMMA JanitorDrift ==
    ASSUME ControlInv, CleanupTick \/ Cleanup \/ CleanupStop \/ CloseStart \/ CloseReturn
    PROVE  Drift' >= Drift
<1>1. /\ Janitor \in Proc /\ Janitor \notin Writer /\ NoProc \notin Writer
      /\ \A w \in Writer : w \in Proc
  BY DistinctAssumption DEF Proc, Caller
<1>2. CASE CleanupTick \/ CleanupStop \/ CloseStart \/ CloseReturn
  <2>1. UNCHANGED <<content, size, writer>> /\ \A w \in Writer : UNCHANGED <<pc[w], key[w]>>
    BY <1>1, <1>2
    DEF CleanupTick, CleanupStop, CloseStart, CloseReturn, disk, gauges, mutex, args, Goto,
        ControlInv, TypeOK
  <2>2. InFlight' = InFlight
    BY <2>1 DEF InFlight, Storing, LenAt
  <2> QED
    BY <2>1, <2>2, DriftKept
<1>3. CASE Cleanup
  <2>1. writer \notin Writer /\ writer' \notin Writer
    BY <1>1, <1>3
    DEF Cleanup, CleanupLock, CleanupContent, CleanupMeta, CleanupUnlock, Lock, Unlock, mutex,
        ControlInv, MutexInv, ExclusiveSteps
  <2>2. InFlight = 0 /\ InFlight' = 0
    BY <2>1 DEF InFlight, Storing
  <2>3. CASE CleanupContent
    <3>1. PICK k \in todo : content' = Remove(content, k) /\ size' = size - LenAt(content, k)
      BY <2>3 DEF CleanupContent
    <3>2. k \in Key
      BY DEF ControlInv, TypeOK
    <3> QED
      BY <2>2, <3>1, <3>2, DriftRemoves
  <2>4. CASE ~CleanupContent
    <3>1. UNCHANGED <<content, size>>
      BY <1>3, <2>4 DEF Cleanup, CleanupLock, CleanupMeta, CleanupUnlock, disk, gauges
    <3> QED
      BY <2>2, <3>1, DriftKept
  <2> QED
    BY <2>3, <2>4
<1> QED
  BY <1>2, <1>3

LEMMA TickDrift ==
    ASSUME ControlInv, Tick
    PROVE  Drift' >= Drift
<1>1. UNCHANGED <<size, writer, pc, key>>
  BY DEF Tick, gauges, mutex, args
<1>2. \A k \in Key : LenAt(content', k) = LenAt(content, k)
  BY LimitTypes, TickAges DEF LenAt
<1>3. Used(content') = Used(content)
  BY <1>2, SameLengths
<1>4. InFlight' = InFlight
  BY <1>1, <1>2, LimitTypes DEF InFlight, Storing
<1> QED
  BY <1>1, <1>3, <1>4, DriftKept

\* As long as no write fails, the gauge takes back nothing of what it counts too
\* much, neither by eviction nor by deleting, until Clear or a restart.
THEOREM DriftStaysCorrect == ~CanFail => (Spec => DriftStays)
<1> SUFFICES ASSUME ~CanFail PROVE Spec => DriftStays
  OBVIOUS
<1>1. ControlInv /\ [Next]_vars =>
        [Drift' >= Drift \/ (\E p \in Admin : ClearReset(p)) \/ Restart]_vars
  BY GetDrift, SetDrift, AdminDrift, JanitorDrift, TickDrift DEF Next
<1> QED
  BY <1>1, ControlCorrect, PTL DEF Spec, DriftStays

-----------------------------------------------------------------------------
(* The refinement: every step is a step of Cache, or none at all *)

views == <<Held, Asked, Answers, Putting>>

\* The answer of a Get that is at l and has found s.
AnswerAt(l, s) ==
    IF l \notin {"readMeta", "runlock"} THEN NoAnswer("none")
    ELSE IF s.kind # "hit" THEN NoAnswer("nothing")
    ELSE Found(s, IF l = "readMeta" THEN s.val ELSE s.meta)

LEMMA InitPromise == Init => Promise!Init
BY DistinctAssumption
DEF Init, Promise!Init, Promise!Undecided, Promise!NoSet, Held, Whole, Asked, Answers, Decided, Putting,
    Caller, Proc, Outcome, NoAnswer

\* A step of one Get that leaves the contents alone.
LEMMA GetViews ==
    ASSUME ControlInv, NEW p \in Reader, UNCHANGED <<content, val>>,
           \A w \in Writer : key'[w] = key[w],
           \A q \in Reader : q # p => UNCHANGED <<pc[q], seen[q], key[q]>>
    PROVE  /\ Held' = Held
           /\ Putting' = Putting
           /\ Asked' = [Asked EXCEPT ![p] = key'[p]]
           /\ Answers' = [Answers EXCEPT ![p] = AnswerAt(pc'[p], seen'[p])]
           /\ Answers[p] = AnswerAt(pc[p], seen[p])
<1>1. \A q \in Reader : Answers[q] = AnswerAt(pc[q], seen[q]) /\ Answers'[q] = AnswerAt(pc'[q], seen'[q])
  BY DEF Answers, AnswerAt, Decided
<1>2. Answers' = [Answers EXCEPT ![p] = AnswerAt(pc'[p], seen'[p])]
  <2>1. /\ Answers = [q \in Reader |-> AnswerAt(pc[q], seen[q])]
        /\ Answers' = [q \in Reader |-> AnswerAt(pc'[q], seen'[q])]
    BY DEF Answers, AnswerAt, Decided
  <2> QED
    BY <2>1
<1>3. Asked' = [Asked EXCEPT ![p] = key'[p]]
  BY DEF Asked
<1>4. Held' = Held
  BY DEF Held, Whole
<1>5. Putting' = Putting
  BY DEF Putting
<1> QED
  BY <1>1, <1>2, <1>3, <1>4, <1>5

\* A step that no Get takes.
LEMMA OtherViews ==
    ASSUME UNCHANGED seen, \A q \in Reader : UNCHANGED <<pc[q], key[q]>>
    PROVE  Asked' = Asked /\ Answers' = Answers
BY DEF Asked, Answers, Decided

LEMMA HeldKept ==
    ASSUME content' = content
    PROVE  Held' = Held
BY DEF Held, Whole

LEMMA HeldRemove ==
    ASSUME ControlInv, NEW k \in Key, content' = Remove(content, k)
    PROVE  Held' = [j \in Key |-> IF j \in {k} THEN NoFile ELSE Held[j]]
BY DEF Held, Whole, Remove, ControlInv, TypeOK

\* A content is there once its last byte is.
LEMMA HeldPut ==
    ASSUME ControlInv, NEW k \in Key, NEW v \in Value, NEW n \in 0 .. MaxLen,
           content' = Put(content, k, v, n)
    PROVE  Held' = IF n = Len[v] THEN [Held EXCEPT ![k] = v]
                   ELSE [j \in Key |-> IF j \in {k} THEN NoFile ELSE Held[j]]
<1> DEFINE f == [val |-> v, len |-> n, age |-> 0]
<1>1. f \in File /\ f # NoFile
  BY DistinctAssumption, ConstantsAssumption DEF File
<1>2. f.val = v /\ f.len = n
  OBVIOUS
<1> HIDE DEF f
<1>3. \A j \in Key : content'[j] = IF j = k THEN f ELSE content[j]
  BY DEF Put, f, ControlInv, TypeOK
<1>4. \A j \in Key : j # k => Held'[j] = Held[j]
  BY <1>3 DEF Held, Whole
<1>5. Held'[k] = IF n = Len[v] THEN v ELSE NoFile
  BY <1>1, <1>2, <1>3 DEF Held, Whole
<1>6. Held' = [j \in Key |-> IF j = k THEN (IF n = Len[v] THEN v ELSE NoFile) ELSE Held[j]]
  BY <1>4, <1>5 DEF Held
<1> QED
  BY <1>6 DEF Held

\* A Get is decided when it has read the content, or found none, or removed it.
LEMMA GetPromise ==
    ASSUME ControlInv, PairInv, NEW p \in Reader, Get(p) \/ \E k \in Key : CallGet(p, k)
    PROVE  Promise!Next \/ UNCHANGED views
<1>1. /\ p \in Proc /\ p \in Caller /\ p \notin Writer
      /\ \A q \in Reader : q \in Proc /\ q \in Caller
      /\ \A w \in Writer : w \in Caller
  BY DistinctAssumption DEF Proc, Caller
<1>2. pc[p] # "idle" => Asked[p] = key[p] /\ key[p] \in Key /\ key[p] # NoKey
  BY DistinctAssumption DEF Asked, ControlInv, ArgsInv
<1>3. ASSUME NEW k \in Key, CallGet(p, k)
      PROVE  Promise!Next
  <2>1. /\ pc[p] = "idle" /\ pc'[p] = "rlock" /\ key'[p] = k /\ UNCHANGED <<content, val, seen>>
        /\ \A q \in Reader : q # p => UNCHANGED <<pc[q], key[q]>>
        /\ \A w \in Writer : key'[w] = key[w]
    BY <1>1, <1>3 DEF CallGet, Goto, disk, ControlInv, TypeOK
  <2>2. Asked[p] = NoKey
    BY <2>1 DEF Asked, PairInv, RestInv
  <2>3. Answers' = Answers
    BY <2>1 DEF Answers, Decided
  <2>4. Promise!GetCall(p, k)
    BY <2>1, <2>2, <2>3, GetViews DEF Promise!GetCall
  <2> QED
    BY <2>4 DEF Promise!Next
<1>4. CASE GetRLock(p) \/ (GetStat(p) /\ content[key[p]] # NoFile)
  <2>1. /\ UNCHANGED <<content, key, val>>
        /\ \A q \in Reader : q # p => UNCHANGED <<pc[q], seen[q]>>
    BY <1>1, <1>4 DEF GetRLock, GetStat, Goto, disk, args, ControlInv, TypeOK
  <2>2. AnswerAt(pc'[p], seen'[p]) = AnswerAt(pc[p], seen[p])
    BY <1>1, <1>4 DEF GetRLock, GetStat, Goto, AnswerAt, ControlInv, TypeOK
  <2>3. Answers' = Answers /\ Asked' = Asked
    <3>1. \A q \in Reader : AnswerAt(pc'[q], seen'[q]) = AnswerAt(pc[q], seen[q])
      BY <2>1, <2>2
    <3>2. Answers' = Answers
      BY <3>1 DEF Answers, AnswerAt, Decided
    <3>3. Asked' = Asked
      BY <2>1 DEF Asked
    <3> QED
      BY <3>2, <3>3
  <2> QED
    BY <2>1, <2>3, GetViews DEF views
<1>5. CASE \/ GetExpireMeta(p)
           \/ content[key[p]] = NoFile /\ (GetStat(p) \/ GetReadContent(p))
  <2>1. /\ UNCHANGED <<content, key, val>>
        /\ \A q \in Reader : q # p => UNCHANGED <<pc[q], seen[q]>>
        /\ pc[p] \in {"stat", "expireMeta", "readContent"}
        /\ pc'[p] = "runlock"
        /\ seen'[p].kind \in {"miss", "error"}
    BY <1>1, <1>5
    DEF GetExpireMeta, GetStat, GetReadContent, Outcome, Goto, disk, args, ControlInv, TypeOK
  <2>2. /\ Answers[p] = Promise!Undecided
        /\ AnswerAt(pc'[p], seen'[p]) = Promise!Nothing
    BY <2>1, GetViews DEF AnswerAt, NoAnswer, Promise!Undecided, Promise!Nothing
  <2>3. Asked' = Asked
    BY <2>1 DEF Asked
  <2>4. Promise!GetNothing(p)
    BY <1>2, <2>1, <2>2, <2>3, GetViews DEF Promise!GetNothing
  <2> QED
    BY <2>4 DEF Promise!Next
<1>6. CASE GetExpireContent(p)
  <2>1. /\ content' = Remove(content, key[p]) /\ key[p] \in Key /\ UNCHANGED <<key, val, seen>>
        /\ \A q \in Reader : q # p => pc'[q] = pc[q]
        /\ pc[p] = "expireContent" /\ pc'[p] = "expireMeta"
    BY <1>1, <1>2, <1>6 DEF GetExpireContent, Goto, args, ControlInv, TypeOK
  <2>2. Answers' = Answers
    BY <2>1 DEF Answers, Decided
  <2>3. UNCHANGED <<Asked, Putting>>
    BY <2>1 DEF Asked, Putting
  <2>4. Promise!Forget({key[p]})
    BY <2>1, <2>2, <2>3, HeldRemove DEF Promise!Forget
  <2> QED
    BY <2>1, <2>4 DEF Promise!Next
<1>7. CASE GetReadContent(p) /\ content[key[p]] # NoFile
  <2>1. /\ UNCHANGED <<content, key, val>>
        /\ \A q \in Reader : q # p => UNCHANGED <<pc[q], seen[q]>>
        /\ pc[p] = "readContent" /\ pc'[p] = "readMeta"
        /\ seen'[p].kind = "hit" /\ seen'[p].val = content[key[p]].val
        /\ seen'[p].len = content[key[p]].len
    BY <1>1, <1>7 DEF GetReadContent, Goto, disk, args, ControlInv, TypeOK
  <2>2. ~Storing
    <3>1. writer = NoProc
      BY <2>1 DEF ControlInv, MutexInv, SharedSteps
    <3> QED
      BY <3>1, DistinctAssumption DEF Storing, Proc, Caller
  <2>3. /\ Held[key[p]] = content[key[p]].val /\ content[key[p]].val \in Value
        /\ content[key[p]].len = Len[content[key[p]].val]
    BY <1>2, <1>7, <2>1, <2>2 DEF Held, Whole, PairInv, WholeInv, ControlInv, TypeOK, File
  <2>4. /\ Answers[p] = Promise!Undecided
        /\ AnswerAt(pc'[p], seen'[p]) = Promise!Hit(Held[Asked[p]])
    <3>1. Answers[p] = AnswerAt(pc[p], seen[p])
      BY <2>1, GetViews
    <3>2. Answers[p] = Promise!Undecided
      BY <2>1, <3>1 DEF AnswerAt, NoAnswer, Promise!Undecided
    <3>3. AnswerAt(pc'[p], seen'[p]) = Found(seen'[p], seen'[p].val)
      BY <2>1 DEF AnswerAt
    <3>4. Found(seen'[p], seen'[p].val) = Promise!Hit(content[key[p]].val)
      BY <2>1, <2>3 DEF Found, Promise!Hit
    <3>5. Held[Asked[p]] = content[key[p]].val
      BY <1>2, <2>1, <2>3
    <3> QED
      BY <3>2, <3>3, <3>4, <3>5
  <2>5. Asked' = Asked
    BY <2>1 DEF Asked
  <2>6. Held[Asked[p]] # NoFile
    BY <1>2, <2>1, <2>3, DistinctAssumption
  <2>7. Promise!GetHit(p)
    BY <1>2, <2>1, <2>4, <2>5, <2>6, GetViews DEF Promise!GetHit
  <2> QED
    BY <2>7 DEF Promise!Next
<1>8. CASE GetReturn(p)
  <2>1. /\ UNCHANGED <<content, val>>
        /\ \A q \in Reader : q # p => UNCHANGED <<pc[q], seen[q], key[q]>>
        /\ \A w \in Writer : key'[w] = key[w]
        /\ pc[p] = "runlock" /\ pc'[p] = "idle" /\ key'[p] = NoKey
    BY <1>1, <1>8 DEF GetReturn, Return, Goto, disk, ControlInv, TypeOK
  <2>2. /\ Answers[p] # Promise!Undecided
        /\ AnswerAt(pc'[p], seen'[p]) = Promise!Undecided
    <3>1. AnswerAt("runlock", seen[p]).kind # "none"
      BY DEF AnswerAt, NoAnswer, Found
    <3>2. Promise!Undecided.kind = "none"
      BY DEF Promise!Undecided
    <3>3. Answers[p] = AnswerAt("runlock", seen[p])
      BY <2>1, GetViews
    <3>4. AnswerAt("idle", seen'[p]) = Promise!Undecided
      BY DEF AnswerAt, NoAnswer, Promise!Undecided
    <3> QED
      BY <2>1, <3>1, <3>2, <3>3, <3>4
  <2>3. /\ Asked' = [Asked EXCEPT ![p] = NoKey]
        /\ Answers' = [Answers EXCEPT ![p] = Promise!Undecided]
        /\ UNCHANGED <<Held, Putting>>
    <3>1. /\ Asked' = [Asked EXCEPT ![p] = key'[p]]
          /\ Answers' = [Answers EXCEPT ![p] = AnswerAt(pc'[p], seen'[p])]
          /\ UNCHANGED <<Held, Putting>>
      BY <2>1, GetViews
    <3> QED
      BY <2>1, <2>2, <3>1
  <2>4. Promise!GetReturn(p)
    BY <2>2, <2>3 DEF Promise!GetReturn
  <2> QED
    BY <2>4 DEF Promise!Next
<1>9. CASE GetReadMeta(p)
  <2>1. /\ UNCHANGED <<content, key, val>>
        /\ \A q \in Reader : q # p => UNCHANGED <<pc[q], seen[q]>>
        /\ pc[p] = "readMeta" /\ pc'[p] = "runlock"
    BY <1>1, <1>9 DEF GetReadMeta, Goto, disk, args, ControlInv, TypeOK
  <2>2. /\ seen[p].kind = "hit" /\ seen[p].len = Len[seen[p].val]
        /\ meta[key[p]] \in {seen[p].val, NoFile}
    BY <2>1 DEF PairInv, HitInv
  <2>3. PICK m : /\ seen' = [seen EXCEPT ![p].meta = m]
                 /\ m = IF meta[key[p]] \in Value THEN meta[key[p]] ELSE NoFile
    BY <1>9 DEF GetReadMeta
  <2>4. /\ seen'[p].kind = "hit" /\ seen'[p].val = seen[p].val /\ seen'[p].len = seen[p].len
        /\ seen'[p].meta = m
    BY <2>2, <2>3 DEF ControlInv, TypeOK
  <2>5. m \in {seen[p].val, NoFile}
    BY <2>2, <2>3
  <2>6. /\ Answers[p] = Found(seen[p], seen[p].val)
        /\ AnswerAt(pc'[p], seen'[p]) = Found(seen[p], m)
        /\ Answers' = [Answers EXCEPT ![p] = Found(seen[p], m)]
        /\ UNCHANGED <<Held, Asked, Putting>>
    <3>1. Answers[p] = Found(seen[p], seen[p].val)
      BY <2>1, <2>2, GetViews DEF AnswerAt
    <3>2. AnswerAt(pc'[p], seen'[p]) = Found(seen[p], m)
      BY <2>1, <2>4 DEF AnswerAt, Found
    <3>3. Asked' = Asked
      BY <2>1 DEF Asked
    <3> QED
      BY <2>1, <3>1, <3>2, <3>3, GetViews
  <2>7. Answers = [q \in Reader |-> Answers[q]] /\ Answers' = [q \in Reader |-> Answers'[q]]
    BY DEF Answers
  <2>8. CASE m = NoFile
    <3>1. Found(seen[p], m) = [Found(seen[p], seen[p].val) EXCEPT !.meta = NoFile]
      BY <2>8 DEF Found
    <3>2. Answers' = [Answers EXCEPT ![p].meta = NoFile]
      BY <2>6, <2>7, <3>1
    <3>3. Answers[p].kind = "hit"
      BY <2>6 DEF Found
    <3>4. Promise!GetLoses(p)
      BY <2>6, <3>2, <3>3 DEF Promise!GetLoses
    <3> QED
      BY <3>4 DEF Promise!Next
  <2>9. CASE m = seen[p].val
    <3>1. Answers' = [Answers EXCEPT ![p] = Answers[p]]
      BY <2>6, <2>9
    <3>2. Answers' = Answers
      BY <2>7, <3>1
    <3> QED
      BY <2>6, <3>2 DEF views
  <2> QED
    BY <2>5, <2>8, <2>9
<1>10. CASE Get(p)
  <2>1. CASE GetStat(p)
    BY <1>4, <1>5, <2>1
  <2>2. CASE GetReadContent(p)
    BY <1>5, <1>7, <2>2
  <2>3. CASE GetExpireMeta(p)
    BY <1>5, <2>3
  <2>4. CASE GetRLock(p)
    BY <1>4, <2>4
  <2> QED
    BY <1>6, <1>8, <1>9, <1>10, <2>1, <2>2, <2>3, <2>4 DEF Get
<1> QED
  BY <1>3, <1>10

\* A Set takes effect with its last byte; until then its key holds nothing.
LEMMA SetPromise ==
    ASSUME ControlInv, PairInv, ~CanFail, NEW p \in Writer,
           Set(p) \/ \E k \in Key, v \in Value : CallSet(p, k, v)
    PROVE  Promise!Next \/ UNCHANGED views
<1>1. /\ p \in Proc /\ p \in Caller /\ p \notin Reader
      /\ \A q \in Reader : q \in Proc /\ q \in Caller
  BY DistinctAssumption DEF Proc, Caller
<1>2. ASSUME NEW k \in Key, NEW v \in Value, CallSet(p, k, v)
      PROVE  Promise!Next
  <2>1. /\ UNCHANGED <<content, seen>> /\ pc[p] = "idle"
        /\ key' = [key EXCEPT ![p] = k] /\ val' = [val EXCEPT ![p] = v]
        /\ \A q \in Reader : UNCHANGED <<pc[q], key[q]>>
    BY <1>1, <1>2 DEF CallSet, Goto, disk, ControlInv, TypeOK
  <2>2. Putting[p] = Promise!NoSet
    BY <2>1 DEF Putting, Promise!NoSet, PairInv, RestInv
  <2>3. Putting' = [Putting EXCEPT ![p] = [key |-> k, val |-> v]]
    <3>1. \A w \in Writer : /\ key'[w] = IF w = p THEN k ELSE key[w]
                            /\ val'[w] = IF w = p THEN v ELSE val[w]
      BY <2>1 DEF ControlInv, TypeOK, Caller
    <3> QED
      BY <3>1 DEF Putting
  <2>4. Promise!SetCall(p, k, v)
    BY <2>1, <2>2, <2>3, OtherViews, HeldKept DEF Promise!SetCall
  <2> QED
    BY <2>4 DEF Promise!Next
<1>3. CASE SetLock(p) \/ EvictMeta(p) \/ EvictDone(p) \/ SetMetaTruncate(p) \/ SetMetaWrite(p)
  <2>1. UNCHANGED <<content, seen, key, val>> /\ \A q \in Reader : pc'[q] = pc[q]
    BY <1>1, <1>3
    DEF SetLock, EvictMeta, EvictDone, SetMetaTruncate, SetMetaWrite, Goto, disk, args,
        ControlInv, TypeOK
  <2>2. Putting' = Putting
    BY <2>1 DEF Putting
  <2> QED
    BY <2>1, <2>2, OtherViews, HeldKept DEF views
<1>4. CASE EvictContent(p)
  <2>1. UNCHANGED <<seen, key, val>> /\ \A q \in Reader : pc'[q] = pc[q]
    BY <1>1, <1>4 DEF EvictContent, Goto, args, ControlInv, TypeOK
  <2>2. PICK k \in Key : content' = Remove(content, k)
    BY <1>4 DEF EvictContent, Oldest, Present
  <2>3. Putting' = Putting
    BY <2>1 DEF Putting
  <2>4. Promise!Forget({k})
    BY <2>1, <2>2, <2>3, OtherViews, HeldRemove DEF Promise!Forget
  <2> QED
    BY <2>4 DEF Promise!Next
<1>5. CASE SetTruncate(p) \/ SetWrite(p)
  <2>1. /\ UNCHANGED <<seen, key, val>> /\ \A q \in Reader : pc'[q] = pc[q]
        /\ pc[p] \in ExclusiveSteps
    BY <1>1, <1>5 DEF SetTruncate, SetWrite, Goto, args, ControlInv, TypeOK, ExclusiveSteps, WriteSteps
  <2>2. key[p] \in Key /\ val[p] \in Value /\ Len[val[p]] \in 0 .. MaxLen
    BY <2>1, SetInside
  <2>3. PICK n \in 0 .. MaxLen : content' = Put(content, key[p], val[p], n)
    <3>1. CASE SetTruncate(p)
      BY <3>1, ConstantsAssumption DEF SetTruncate
    <3>2. CASE SetWrite(p)
      <4>1. LenAt(content, key[p]) \in Nat
        BY <2>2, LimitTypes, LenAtType, ConstantsAssumption
      <4> QED
        BY <2>2, <3>2, <4>1, ConstantsAssumption DEF SetWrite
    <3> QED
      BY <1>5, <3>1, <3>2
  <2>4. /\ Putting' = Putting
        /\ Putting[p] = [key |-> key[p], val |-> val[p]]
        /\ Putting[p] # Promise!NoSet
    <3>1. Putting' = Putting /\ Putting[p] = [key |-> key[p], val |-> val[p]]
      BY <2>1 DEF Putting
    <3>2. Putting[p].key # Promise!NoSet.key
      BY <2>2, <3>1, DistinctAssumption DEF Promise!NoSet
    <3> QED
      BY <3>1, <3>2
  <2>5. CASE n = Len[val[p]]
    <3>1. Held' = [Held EXCEPT ![key[p]] = val[p]]
      BY <2>2, <2>3, <2>5, HeldPut
    <3>2. Promise!SetStore(p)
      BY <2>1, <2>4, <3>1, OtherViews DEF Promise!SetStore
    <3> QED
      BY <3>2 DEF Promise!Next
  <2>6. CASE n # Len[val[p]]
    <3>1. Held' = [j \in Key |-> IF j \in {key[p]} THEN NoFile ELSE Held[j]]
      BY <2>2, <2>3, <2>6, HeldPut
    <3>2. Promise!Forget({key[p]})
      BY <2>1, <2>4, <3>1, OtherViews DEF Promise!Forget
    <3> QED
      BY <2>2, <3>2 DEF Promise!Next
  <2> QED
    BY <2>5, <2>6
<1>6. CASE SetCount(p)
  <2>1. /\ UNCHANGED <<content, seen>> /\ pc[p] \in ExclusiveSteps
        /\ key' = [key EXCEPT ![p] = NoKey] /\ val' = [val EXCEPT ![p] = NoFile]
        /\ \A q \in Reader : UNCHANGED <<pc[q], key[q]>>
    BY <1>1, <1>6 DEF SetCount, Return, Goto, disk, ControlInv, TypeOK, ExclusiveSteps, WriteSteps
  <2>2. Putting[p] # Promise!NoSet
    <3>1. Putting[p].key = key[p] /\ key[p] \in Key
      BY <2>1, SetInside DEF Putting
    <3>2. Promise!NoSet.key = NoKey
      BY DEF Promise!NoSet
    <3> QED
      BY <3>1, <3>2, DistinctAssumption
  <2>3. Putting' = [Putting EXCEPT ![p] = Promise!NoSet]
    <3>1. \A w \in Writer : /\ key'[w] = IF w = p THEN NoKey ELSE key[w]
                            /\ val'[w] = IF w = p THEN NoFile ELSE val[w]
      BY <2>1 DEF ControlInv, TypeOK, Caller
    <3> QED
      BY <3>1 DEF Putting, Promise!NoSet
  <2>4. Promise!SetReturn(p)
    BY <2>1, <2>2, <2>3, OtherViews, HeldKept DEF Promise!SetReturn
  <2> QED
    BY <2>4 DEF Promise!Next
<1> QED
  BY <1>2, <1>3, <1>4, <1>5, <1>6 DEF Set, SetWriteFails, SetMetaFails

\* To the callers, removing a file is forgetting its key.
LEMMA RemovalPromise ==
    ASSUME ControlInv, UNCHANGED <<seen, val>>, \A q \in Reader \cup Writer : key'[q] = key[q],
           \A q \in Reader : pc'[q] = pc[q],
           content' = content \/ \E k \in Key : content' = Remove(content, k)
    PROVE  Promise!Next \/ UNCHANGED views
<1>1. Putting' = Putting
  BY DEF Putting
<1>2. CASE content' = content
  BY <1>1, <1>2, OtherViews, HeldKept DEF views
<1>3. ASSUME NEW k \in Key, content' = Remove(content, k)
      PROVE  Promise!Next
  <2>1. Promise!Forget({k})
    BY <1>1, <1>3, OtherViews, HeldRemove DEF Promise!Forget
  <2> QED
    BY <2>1 DEF Promise!Next
<1> QED
  BY <1>2, <1>3

LEMMA AdminPromise ==
    ASSUME ControlInv, NEW p \in Admin,
           Administer(p) \/ CallClear(p) \/ \E k \in Key : CallDelete(p, k)
    PROVE  Promise!Next \/ UNCHANGED views
<1>1. /\ p \in Proc /\ p \in Caller /\ p \notin Reader /\ p \notin Writer
      /\ \A q \in Reader \cup Writer : q \in Proc /\ q \in Caller
  BY DistinctAssumption DEF Proc, Caller
<1>2. /\ UNCHANGED <<seen, val>>
      /\ \A q \in Reader \cup Writer : key'[q] = key[q] /\ pc'[q] = pc[q]
  BY <1>1
  DEF Administer, CallClear, CallDelete, DeleteLock, DeleteContent, DeleteMeta, ClearLock,
      ClearRemove, ClearReset, Goto, Return, args, ControlInv, TypeOK
<1>3. content' = content \/ \E k \in Key : content' = Remove(content, k)
  <2>1. CASE DeleteContent(p)
    BY <2>1 DEF DeleteContent, ControlInv, ArgsInv
  <2>2. CASE ~DeleteContent(p)
    BY <2>2
    DEF Administer, CallClear, CallDelete, DeleteLock, DeleteMeta, ClearLock, ClearRemove,
        ClearReset, disk
  <2> QED
    BY <2>1, <2>2
<1> QED
  BY <1>2, <1>3, RemovalPromise

LEMMA JanitorPromise ==
    ASSUME ControlInv, CleanupTick \/ Cleanup \/ CleanupStop \/ CloseStart \/ CloseReturn
    PROVE  Promise!Next \/ UNCHANGED views
<1>1. Janitor \in Proc /\ Janitor \notin Reader /\ \A q \in Reader : q \in Proc
  BY DistinctAssumption DEF Proc, Caller
<1>2. UNCHANGED <<seen, key, val>> /\ \A q \in Reader : pc'[q] = pc[q]
  BY <1>1
  DEF CleanupTick, Cleanup, CleanupLock, CleanupContent, CleanupMeta, CleanupUnlock, CleanupStop,
      CloseStart, CloseReturn, Goto, args, ControlInv, TypeOK
<1>3. content' = content \/ \E k \in Key : content' = Remove(content, k)
  BY DEF CleanupTick, Cleanup, CleanupLock, CleanupContent, CleanupMeta, CleanupUnlock, CleanupStop,
         CloseStart, CloseReturn, disk, ControlInv, TypeOK
<1> QED
  BY <1>2, <1>3, RemovalPromise

LEMMA TickPromise ==
    ASSUME ControlInv, Tick
    PROVE  UNCHANGED views
<1>1. UNCHANGED <<pc, key, val, seen>>
  BY DEF Tick, args
<1>2. \A k \in Key :
        /\ content'[k] = NoFile <=> content[k] = NoFile
        /\ content[k] # NoFile => content'[k].val = content[k].val /\ content'[k].len = content[k].len
  BY LimitTypes, TickAges
<1>3. Held' = Held
  BY <1>2 DEF Held, Whole
<1>4. Putting' = Putting
  BY <1>1 DEF Putting
<1> QED
  BY <1>1, <1>3, <1>4, OtherViews DEF views

\* As long as no write fails and the process lives, the files are the cache of
\* Cache.tla to whoever calls, however the steps of Gets, Sets, evictions, removals
\* and sweeps interleave: a hit is a whole content with its own metadata, or with
\* none when that was removed at expiry between the two reads.
THEOREM FsImplements == ~CanFail /\ ~CanCrash => (Spec => KeepsPromise)
<1> SUFFICES ASSUME ~CanFail, ~CanCrash PROVE Spec => KeepsPromise
  OBVIOUS
<1>1. Init => Promise!Init
  BY InitPromise
<1>2. ControlInv /\ PairInv /\ [Next]_vars => [Promise!Next]_Promise!vars
  <2> SUFFICES ASSUME ControlInv, PairInv, [Next]_vars PROVE Promise!Next \/ UNCHANGED views
    BY DEF views, Promise!vars
  <2>1. CASE UNCHANGED vars
    BY <2>1, OtherViews, HeldKept DEF vars, views, Putting
  <2>2. CASE Next
    BY <2>2, GetPromise, SetPromise, AdminPromise, JanitorPromise, TickPromise DEF Next, Restart
  <2> QED
    BY <2>1, <2>2
<1>3. Spec => []PairInv
  BY PairCorrect
<1> QED
  BY <1>1, <1>2, <1>3, ControlCorrect, PTL DEF Spec, KeepsPromise, Promise!Spec

-----------------------------------------------------------------------------
(* The cache that initializeCache has opened.  RP is RedisCache with its    *)
(* theorems; the lemmas say that R and RP, two instances of one module with *)
(* the same substitutions, are the same.                                    *)

RP == INSTANCE RedisCacheProofs WITH
    Key <- RedisKey, Value <- RedisValue,
    Reader <- RedisReader, Writer <- RedisWriter, Admin <- RedisAdmin

LEMMA SameInit == R!Init <=> RP!Init
BY DEF R!Init, RP!Init, R!User, RP!User, R!NoCall, RP!NoCall, R!Absent, RP!Absent, R!Command,
       RP!Command, R!Just, RP!Just

LEMMA SameVars == R!vars = RP!vars /\ R!vars' = RP!vars'
BY DEF R!vars, RP!vars

LEMMA SameAssumption == R!Assumption <=> RP!Assumption
BY DEF R!Assumption, RP!Assumption, R!User, RP!User, R!IsFiniteSet, RP!IsFiniteSet

LEMMA SameNext == R!Next <=> RP!Next
<1> USE DEF R!User, RP!User, R!NoCall, RP!NoCall, R!Absent, RP!Absent, R!Command, RP!Command,
            R!Bytes, RP!Bytes, R!Just, RP!Just, R!Goto, RP!Goto
<1>1. ASSUME NEW p PROVE R!Client(p) <=> RP!Client(p)
  <2>1. R!Sends(p) <=> RP!Sends(p)
    BY DEF R!Sends, RP!Sends, R!Cardinality, RP!Cardinality
  <2>2. R!TimesOut(p) <=> RP!TimesOut(p)
    BY DEF R!TimesOut, RP!TimesOut, R!Cardinality, RP!Cardinality
  <2>3. R!LosesReply(p) <=> RP!LosesReply(p)
    BY DEF R!LosesReply, RP!LosesReply
  <2>4. R!GivesUp(p) <=> RP!GivesUp(p)
    BY DEF R!GivesUp, RP!GivesUp
  <2>5. R!Returns(p) <=> RP!Returns(p)
    BY DEF R!Returns, RP!Returns
  <2> QED
    BY <2>1, <2>2, <2>3, <2>4, <2>5 DEF R!Client, RP!Client
<1>2. ASSUME NEW p PROVE R!Executes(p) <=> RP!Executes(p)
  BY DEF R!Executes, RP!Executes, R!After, RP!After, R!Answer, RP!Answer
<1>3. ASSUME NEW c PROVE R!ExecutesStray(c) <=> RP!ExecutesStray(c)
  BY DEF R!ExecutesStray, RP!ExecutesStray, R!After, RP!After
<1>4. ASSUME NEW k PROVE (R!Evicts(k) <=> RP!Evicts(k)) /\ (R!Intrudes(k) <=> RP!Intrudes(k))
  BY DEF R!Evicts, RP!Evicts, R!Intrudes, RP!Intrudes
<1>5. ASSUME NEW p, NEW k
      PROVE  /\ R!CallGet(p, k) <=> RP!CallGet(p, k)
             /\ R!CallDelete(p, k) <=> RP!CallDelete(p, k)
             /\ R!CallClear(p) <=> RP!CallClear(p)
  BY DEF R!CallGet, RP!CallGet, R!CallDelete, RP!CallDelete, R!CallClear, RP!CallClear,
         R!Begins, RP!Begins
<1>6. ASSUME NEW p, NEW k, NEW v, NEW t PROVE R!CallSet(p, k, v, t) <=> RP!CallSet(p, k, v, t)
  BY DEF R!CallSet, RP!CallSet, R!Begins, RP!Begins, R!Expiry, RP!Expiry
<1> QED
  BY <1>1, <1>2, <1>3, <1>4, <1>5, <1>6 DEF R!Next, RP!Next

LEMMA SamePromise ==
    /\ R!Promise!Init <=> RP!Promise!Init
    /\ R!Promise!Next <=> RP!Promise!Next
    /\ R!Promise!vars = RP!Promise!vars
    /\ R!Promise!vars' = RP!Promise!vars'
<1> USE DEF R!Held, RP!Held, R!Asked, RP!Asked, R!Decided, RP!Decided, R!Putting, RP!Putting,
            R!Late, RP!Late, R!Outcome, RP!Outcome, R!Hit, RP!Hit, R!NoAnswer, RP!NoAnswer
<1>1. R!Promise!Init <=> RP!Promise!Init
  BY DEF R!Promise!Init, RP!Promise!Init, R!Promise!Undecided, RP!Promise!Undecided,
         R!Promise!NoSet, RP!Promise!NoSet
<1>2. R!Promise!Next <=> RP!Promise!Next
  BY DEF R!Promise!Next, RP!Promise!Next, R!Promise!Undecided, RP!Promise!Undecided,
         R!Promise!Nothing, RP!Promise!Nothing, R!Promise!Hit, RP!Promise!Hit,
         R!Promise!NoSet, RP!Promise!NoSet, R!Promise!GetCall, RP!Promise!GetCall,
         R!Promise!GetHit, RP!Promise!GetHit, R!Promise!GetLoses, RP!Promise!GetLoses,
         R!Promise!GetNothing, RP!Promise!GetNothing,
         R!Promise!GetAgain, RP!Promise!GetAgain, R!Promise!GetReturn, RP!Promise!GetReturn,
         R!Promise!SetCall, RP!Promise!SetCall, R!Promise!SetStore, RP!Promise!SetStore,
         R!Promise!SetReturn, RP!Promise!SetReturn, R!Promise!LateStore,
         RP!Promise!LateStore, R!Promise!Forget, RP!Promise!Forget
<1>3. R!Promise!vars = RP!Promise!vars /\ R!Promise!vars' = RP!Promise!vars'
  BY DEF R!Promise!vars, RP!Promise!vars
<1> QED
  BY <1>1, <1>2, <1>3

\* The Redis cache of a process keeps the promise of Cache.tla, whatever the network
\* loses, repeats or delays; a process that opened the other one leaves it alone.
THEOREM BackendRedis == BackendSpec => RedisKeepsPromise
<1>1. initializeCache => RP!Init
  BY SameInit DEF initializeCache
<1>2. [BackendNext]_backendVars => [RP!Next]_(RP!vars)
  BY SameVars, SameNext DEF BackendNext, backendVars, redisVars, R!vars, vars
<1>3. RP!Spec => RP!KeepsPromise
  BY SameAssumption, BackendAssumption, RP!RedisImplements
<1>4. RP!Promise!Init => R!Promise!Init
  BY SamePromise
<1>5. [RP!Promise!Next]_(RP!Promise!vars) => [R!Promise!Next]_(R!Promise!vars)
  BY SamePromise
<1> QED
  BY <1>1, <1>2, <1>3, <1>4, <1>5, PTL
     DEF BackendSpec, RP!Spec, RP!KeepsPromise, RP!Promise!Spec,
         RedisKeepsPromise, R!KeepsPromise, R!Promise!Spec

\* Whichever cache initializeCache has opened is the atomic cache of Cache.tla, as
\* long as no write fails and the process lives.
THEOREM BackendImplements ==
    ~CanFail /\ ~CanCrash => (BackendSpec => KeepsPromise /\ RedisKeepsPromise)
<1> SUFFICES ASSUME ~CanFail, ~CanCrash PROVE BackendSpec => KeepsPromise /\ RedisKeepsPromise
  OBVIOUS
<1>1. BackendSpec => Spec
  <2>1. initializeCache => Init
    BY DEF initializeCache
  <2>2. [BackendNext]_backendVars => [Next]_vars
    BY DEF BackendNext, backendVars
  <2> QED
    BY <2>1, <2>2, PTL DEF BackendSpec, Spec
<1>2. Spec => KeepsPromise
  BY FsImplements
<1> QED
  BY <1>1, <1>2, BackendRedis
=============================================================================
