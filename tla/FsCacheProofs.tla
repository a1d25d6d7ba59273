---------------------------- MODULE FsCacheProofs ----------------------------
(***************************************************************************)
(* Theorems about FsCache for every set of keys, files, goroutines and     *)
(* limits.                                                                 *)
(***************************************************************************)
EXTENDS FsCache, FiniteSetTheorems, TLAPS

-----------------------------------------------------------------------------
(* Bytes on disk *)

Disk == [Key -> File \cup {NoFile}]

\* The bytes of c that belong to other keys than k.
Others(c, k) == {b \in ByteSet(c) : b[1] # k}

LEMMA LenAtType ==
    ASSUME NEW c \in Disk, NEW k \in Key
    PROVE  LenAt(c, k) \in 0 .. MaxLen
BY ConstantsAssumption DEF Disk, File, LenAt

LEMMA BytesFinite ==
    ASSUME NEW c \in Disk
    PROVE  IsFiniteSet(ByteSet(c))
<1>1. IsFiniteSet(1 .. MaxLen)
  BY FS_Interval, ConstantsAssumption
<1>2. IsFiniteSet(Key \X (1 .. MaxLen))
  BY <1>1, FS_Product, ConstantsAssumption
<1> QED
  BY <1>2, FS_Subset DEF ByteSet

\* The bytes of c are those of k and those of the other keys.
LEMMA SplitBytes ==
    ASSUME NEW c \in Disk, NEW k \in Key
    PROVE  /\ IsFiniteSet(Others(c, k))
           /\ Cardinality(Others(c, k)) \in Nat
           /\ Used(c) = Cardinality(Others(c, k)) + LenAt(c, k)
<1> DEFINE own == {k} \X (1 .. LenAt(c, k))
<1>1. LenAt(c, k) \in Nat /\ LenAt(c, k) <= MaxLen /\ MaxLen \in Nat
  BY LenAtType, ConstantsAssumption
<1>2. IsFiniteSet(own) /\ Cardinality(own) = LenAt(c, k)
  <2>1. IsFiniteSet(1 .. LenAt(c, k)) /\ Cardinality(1 .. LenAt(c, k)) = LenAt(c, k)
    BY <1>1, FS_Interval
  <2>2. IsFiniteSet({k}) /\ Cardinality({k}) = 1
    BY FS_Singleton
  <2> HIDE DEF LenAt
  <2>3. IsFiniteSet(own) /\ Cardinality(own) = 1 * LenAt(c, k)
    BY <2>1, <2>2, FS_Product
  <2> QED
    BY <2>3, <1>1
<1>3. IsFiniteSet(Others(c, k)) /\ Cardinality(Others(c, k)) \in Nat
  BY BytesFinite, FS_Subset, FS_CardinalityType DEF Others
<1>4. ByteSet(c) = Others(c, k) \cup own
  BY <1>1 DEF ByteSet, Others
<1>5. Others(c, k) \cap own = {}
  BY DEF Others
<1>6. Cardinality(Others(c, k) \cap own) = 0
  BY <1>5, FS_EmptySet
<1>7. Cardinality(Others(c, k) \cup own)
        = Cardinality(Others(c, k)) + Cardinality(own) - Cardinality(Others(c, k) \cap own)
  BY <1>2, <1>3, FS_Union
<1> QED
  BY <1>1, <1>2, <1>3, <1>4, <1>6, <1>7 DEF Used

\* Changing the file of one key leaves the other keys' bytes alone.
LEMMA OthersUnchanged ==
    ASSUME NEW c \in Disk, NEW d \in Disk, NEW k \in Key,
           \A j \in Key : j # k => LenAt(d, j) = LenAt(c, j)
    PROVE  Others(d, k) = Others(c, k)
BY DEF Others, ByteSet

\* ... so the number of bytes changes by the difference in that file's length.
LEMMA UsedUpdate ==
    ASSUME NEW c \in Disk, NEW d \in Disk, NEW k \in Key,
           \A j \in Key : j # k => LenAt(d, j) = LenAt(c, j)
    PROVE  Used(d) = Used(c) - LenAt(c, k) + LenAt(d, k)
<1>1. Used(c) = Cardinality(Others(c, k)) + LenAt(c, k)
  BY SplitBytes
<1>2. Used(d) = Cardinality(Others(d, k)) + LenAt(d, k)
  BY SplitBytes
<1>3. Cardinality(Others(c, k)) \in Nat /\ LenAt(c, k) \in 0 .. MaxLen /\ LenAt(d, k) \in 0 .. MaxLen
  BY SplitBytes, LenAtType
<1> QED
  BY <1>1, <1>2, <1>3, OthersUnchanged

LEMMA UsedType ==
    ASSUME NEW c \in Disk
    PROVE  Used(c) \in Nat
BY BytesFinite, FS_CardinalityType DEF Used

LEMMA PresentFinite ==
    ASSUME NEW c \in Disk
    PROVE  IsFiniteSet(Present(c)) /\ Cardinality(Present(c)) \in Nat
BY FS_Subset, FS_CardinalityType, ConstantsAssumption DEF Present

\* The bytes depend on the lengths alone.
LEMMA SameLengths ==
    ASSUME NEW c, NEW d, \A j \in Key : LenAt(d, j) = LenAt(c, j)
    PROVE  Used(d) = Used(c)
BY DEF Used, ByteSet

LEMMA NoBytes ==
    ASSUME NEW c \in Disk
    PROVE  Used(c) = 0 <=> \A k \in Key : LenAt(c, k) = 0
<1>1. Used(c) = 0 <=> ByteSet(c) = {}
  BY BytesFinite, FS_EmptySet DEF Used
<1>2. ByteSet(c) = {} <=> \A k \in Key : LenAt(c, k) = 0
  <2>1. ASSUME NEW k \in Key, LenAt(c, k) # 0
        PROVE  <<k, 1>> \in ByteSet(c)
    BY <2>1, LenAtType, ConstantsAssumption DEF ByteSet
  <2>2. ASSUME \A k \in Key : LenAt(c, k) = 0
        PROVE  ByteSet(c) = {}
    BY <2>2, ConstantsAssumption DEF ByteSet
  <2> QED
    BY <2>1, <2>2
<1> QED
  BY <1>1, <1>2

\* All bytes are those of k exactly when no other key has any.
LEMMA OnlyBytes ==
    ASSUME NEW c \in Disk, NEW k \in Key
    PROVE  Used(c) = LenAt(c, k) <=> \A j \in Key : j # k => LenAt(c, j) = 0
<1>1. Used(c) = LenAt(c, k) <=> Others(c, k) = {}
  <2>1. LenAt(c, k) \in Nat
    BY LenAtType, ConstantsAssumption
  <2>2. Cardinality(Others(c, k)) = 0 <=> Others(c, k) = {}
    BY SplitBytes, FS_EmptySet
  <2> QED
    BY <2>1, <2>2, SplitBytes
<1>2. Others(c, k) = {} <=> \A j \in Key : j # k => LenAt(c, j) = 0
  <2>1. ASSUME NEW j \in Key, j # k, LenAt(c, j) # 0
        PROVE  <<j, 1>> \in Others(c, k)
    BY <2>1, LenAtType, ConstantsAssumption DEF Others, ByteSet
  <2>2. ASSUME \A j \in Key : j # k => LenAt(c, j) = 0
        PROVE  Others(c, k) = {}
    BY <2>2, ConstantsAssumption DEF Others, ByteSet
  <2> QED
    BY <2>1, <2>2
<1> QED
  BY <1>1, <1>2

LEMMA OneOwner ==
    ASSUME NEW c \in Disk, NEW k \in Key
    PROVE  /\ Used(c) = LenAt(c, k) => AtMostOne(c)
           /\ AtMostOne(c) /\ LenAt(c, k) > 0 => Used(c) = LenAt(c, k)
<1>1. Used(c) = LenAt(c, k) => AtMostOne(c)
  BY OnlyBytes, LenAtType DEF AtMostOne
<1>2. ASSUME AtMostOne(c), LenAt(c, k) > 0
      PROVE  \A j \in Key : j # k => LenAt(c, j) = 0
  BY <1>2, LenAtType, ConstantsAssumption DEF AtMostOne
<1> QED
  BY <1>1, <1>2, OnlyBytes

\* Taking a file away takes its bytes and the file itself.
LEMMA RemoveFile ==
    ASSUME NEW c \in Disk, NEW k \in Key
    PROVE  LET d == Remove(c, k) IN
           /\ d \in Disk
           /\ LenAt(d, k) = 0
           /\ \A j \in Key : j # k => LenAt(d, j) = LenAt(c, j)
           /\ Used(d) = Used(c) - LenAt(c, k)
           /\ Cardinality(Present(d)) =
                Cardinality(Present(c)) - (IF c[k] = NoFile THEN 0 ELSE 1)
<1> DEFINE d == Remove(c, k)
<1>1. d \in Disk /\ LenAt(d, k) = 0 /\ \A j \in Key : j # k => LenAt(d, j) = LenAt(c, j)
  BY DEF Remove, Disk, LenAt
<1>2. Used(d) = Used(c) - LenAt(c, k)
  <2> HIDE DEF d
  <2>1. Used(d) = Used(c) - LenAt(c, k) + LenAt(d, k)
    BY <1>1, UsedUpdate
  <2> QED
    BY <1>1, <2>1, UsedType, LenAtType, ConstantsAssumption
<1>3. Present(d) = Present(c) \ {k}
  BY DEF Present, Remove, Disk
<1>4. Cardinality(Present(c) \ {k}) =
        IF k \in Present(c) THEN Cardinality(Present(c)) - 1 ELSE Cardinality(Present(c))
  BY PresentFinite, FS_RemoveElement
<1>5. k \in Present(c) <=> c[k] # NoFile
  BY DEF Present
<1> QED
  BY <1>1, <1>2, <1>3, <1>4, <1>5, PresentFinite

\* Writing a file replaces its bytes and may add the file.
LEMMA PutFile ==
    ASSUME NEW c \in Disk, NEW k \in Key, NEW v \in Value, NEW n \in 0 .. MaxLen
    PROVE  LET d == Put(c, k, v, n) IN
           /\ d \in Disk
           /\ LenAt(d, k) = n
           /\ \A j \in Key : j # k => LenAt(d, j) = LenAt(c, j)
           /\ Used(d) = Used(c) - LenAt(c, k) + n
           /\ Cardinality(Present(d)) =
                Cardinality(Present(c)) + (IF c[k] = NoFile THEN 1 ELSE 0)
<1> DEFINE d == Put(c, k, v, n)
<1>1. [val |-> v, len |-> n, age |-> 0] \in File
  BY ConstantsAssumption DEF File
<1>2. [val |-> v, len |-> n, age |-> 0] # NoFile
  BY <1>1, DistinctAssumption
<1>3. d \in Disk /\ LenAt(d, k) = n /\ \A j \in Key : j # k => LenAt(d, j) = LenAt(c, j)
  BY <1>1, <1>2 DEF Put, Disk, LenAt
<1>4. Used(d) = Used(c) - LenAt(c, k) + n
  <2> HIDE DEF d
  <2> QED
    BY <1>3, UsedUpdate
<1>5. Present(d) = Present(c) \cup {k}
  BY <1>2 DEF Present, Put, Disk
<1>6. Cardinality(Present(c) \cup {k}) =
        IF k \in Present(c) THEN Cardinality(Present(c)) ELSE Cardinality(Present(c)) + 1
  BY PresentFinite, FS_AddElement
<1>7. k \in Present(c) <=> c[k] # NoFile
  BY DEF Present
<1> QED
  BY <1>3, <1>4, <1>5, <1>6, <1>7, PresentFinite

-----------------------------------------------------------------------------
(* Control: types, the mutex, the arguments and progress of the calls.  The *)
(* lemmas take the actions of one goroutine at a time.                      *)

\* A Get holds the mutex shared, so no Set is storing and no sweep is under way.
LEMMA GetControl ==
    ASSUME ControlInv, NEW p \in Reader, Get(p) \/ \E k \in Key : CallGet(p, k)
    PROVE  ControlInv'
<1> USE ConstantsAssumption, DistinctAssumption
    DEF ControlInv, TypeOK, MutexInv, ArgsInv, ExpireInv, StoreInv, SweepInv,
        Storing, Expired, Present, Proc, Caller, Goto, Return, Remove,
        disk, gauges, mutex, args, sweep,
        ReaderSteps, SharedSteps, ExclusiveSteps, WriteSteps, WriterSteps,
        AdminSteps, JanitorSteps, Outcome, RLock, RUnlock
<1>1. ASSUME NEW k \in Key, CallGet(p, k)
      PROVE  ControlInv'
  BY <1>1 DEF CallGet
<1>2. CASE GetRLock(p)
  BY <1>2 DEF GetRLock
<1>3. CASE GetStat(p)
  BY <1>3 DEF GetStat
<1>4. CASE GetExpireContent(p)
  BY <1>4 DEF GetExpireContent
<1>5. CASE GetExpireMeta(p)
  BY <1>5 DEF GetExpireMeta
<1>6. CASE GetReadContent(p)
  BY <1>6 DEF GetReadContent, File
<1>7. CASE GetReadMeta(p)
  BY <1>7 DEF GetReadMeta
<1>8. CASE GetReturn(p)
  BY <1>8 DEF GetReturn
<1> QED
  BY <1>1, <1>2, <1>3, <1>4, <1>5, <1>6, <1>7, <1>8 DEF Get

\* A Set holds the mutex alone from eviction to counting.
LEMMA SetControl ==
    ASSUME ControlInv, NEW p \in Writer, Set(p) \/ \E k \in Key, v \in Value : CallSet(p, k, v)
    PROVE  ControlInv'
<1> USE ConstantsAssumption, DistinctAssumption
    DEF ControlInv, TypeOK, MutexInv, ArgsInv, ExpireInv, StoreInv, SweepInv,
        Storing, Expired, Present, Proc, Caller, Goto, Return, Remove,
        disk, gauges, mutex, args, sweep,
        ReaderSteps, SharedSteps, ExclusiveSteps, WriteSteps, WriterSteps,
        AdminSteps, JanitorSteps, Lock, Unlock, Put, File
<1>1. ASSUME NEW k \in Key, NEW v \in Value, CallSet(p, k, v)
      PROVE  ControlInv'
  BY <1>1 DEF CallSet
<1>2. CASE SetLock(p)
  BY <1>2 DEF SetLock
<1>3. CASE EvictContent(p)
  BY <1>3 DEF EvictContent, Oldest
<1>4. CASE EvictMeta(p)
  BY <1>4 DEF EvictMeta
<1>5. CASE EvictDone(p)
  BY <1>5 DEF EvictDone
<1>6. CASE SetTruncate(p)
  BY <1>6 DEF SetTruncate
<1>7. CASE SetWrite(p)
  BY <1>7 DEF SetWrite, LenAt
<1>8. CASE SetMetaTruncate(p)
  BY <1>8 DEF SetMetaTruncate
<1>9. CASE SetMetaWrite(p)
  BY <1>9 DEF SetMetaWrite
<1>10. CASE SetCount(p)
  BY <1>10 DEF SetCount
<1>11. CASE SetWriteFails(p)
  BY <1>11 DEF SetWriteFails
<1>12. CASE SetMetaFails(p)
  BY <1>12 DEF SetMetaFails
<1> QED
  BY <1>1, <1>2, <1>3, <1>4, <1>5, <1>6, <1>7, <1>8, <1>9, <1>10, <1>11, <1>12 DEF Set

\* So do Delete and Clear.
LEMMA AdminControl ==
    ASSUME ControlInv, NEW p \in Admin, Administer(p) \/ CallClear(p) \/ \E k \in Key : CallDelete(p, k)
    PROVE  ControlInv'
<1> USE ConstantsAssumption, DistinctAssumption
    DEF ControlInv, TypeOK, MutexInv, ArgsInv, ExpireInv, StoreInv, SweepInv,
        Storing, Expired, Present, Proc, Caller, Goto, Return, Remove,
        disk, gauges, mutex, args, sweep,
        ReaderSteps, SharedSteps, ExclusiveSteps, WriteSteps, WriterSteps,
        AdminSteps, JanitorSteps, Lock, Unlock
<1>1. ASSUME NEW k \in Key, CallDelete(p, k)
      PROVE  ControlInv'
  BY <1>1 DEF CallDelete
<1>2. CASE CallClear(p)
  BY <1>2 DEF CallClear
<1>3. CASE DeleteLock(p)
  BY <1>3 DEF DeleteLock
<1>4. CASE DeleteContent(p)
  BY <1>4 DEF DeleteContent, LenAt, File
<1>5. CASE DeleteMeta(p)
  BY <1>5 DEF DeleteMeta
<1>6. CASE ClearLock(p)
  BY <1>6 DEF ClearLock
<1>7. CASE ClearRemove(p)
  BY <1>7 DEF ClearRemove
<1>8. CASE ClearReset(p)
  BY <1>8 DEF ClearReset
<1> QED
  BY <1>1, <1>2, <1>3, <1>4, <1>5, <1>6, <1>7, <1>8 DEF Administer

\* And so does the cleanup goroutine while it sweeps.
LEMMA JanitorControl ==
    ASSUME ControlInv, CleanupTick \/ Cleanup \/ CleanupStop \/ CloseStart \/ CloseReturn
    PROVE  ControlInv'
<1> USE ConstantsAssumption, DistinctAssumption
    DEF ControlInv, TypeOK, MutexInv, ArgsInv, ExpireInv, StoreInv, SweepInv,
        Storing, Expired, Present, Proc, Caller, Goto, Return, Remove,
        disk, gauges, mutex, args, sweep,
        ReaderSteps, SharedSteps, ExclusiveSteps, WriteSteps, WriterSteps,
        AdminSteps, JanitorSteps, Lock, Unlock
<1>1. CASE CleanupTick
  BY <1>1 DEF CleanupTick
<1>2. CASE CleanupLock
  BY <1>2 DEF CleanupLock
<1>3. CASE CleanupContent
  BY <1>3 DEF CleanupContent, LenAt, File
<1>4. CASE CleanupMeta
  BY <1>4 DEF CleanupMeta
<1>5. CASE CleanupUnlock
  BY <1>5 DEF CleanupUnlock
<1>6. CASE CleanupStop
  BY <1>6 DEF CleanupStop
<1>7. CASE CloseStart
  BY <1>7 DEF CloseStart
<1>8. CASE CloseReturn
  BY <1>8 DEF CloseReturn
<1> QED
  BY <1>1, <1>2, <1>3, <1>4, <1>5, <1>6, <1>7, <1>8 DEF Cleanup

\* Time only ages files: they keep their place and their bytes, and an expired
\* one stays expired.
LEMMA TickAges ==
    ASSUME content \in Disk, Tick
    PROVE  /\ content' \in Disk
           /\ \A k \in Key :
                /\ content'[k] = NoFile <=> content[k] = NoFile
                /\ content[k] # NoFile => /\ content'[k].val = content[k].val
                                          /\ content'[k].len = content[k].len
                                          /\ content'[k].age >= content[k].age
<1> USE ConstantsAssumption, DistinctAssumption DEF Disk, File
<1>1. content' = [k \in Key |-> Older(content[k])]
  BY DEF Tick
<1>2. ASSUME NEW f \in File
      PROVE  /\ Older(f) \in File
             /\ Older(f).val = f.val /\ Older(f).len = f.len /\ Older(f).age >= f.age
  BY <1>2 DEF Older
<1>3. Older(NoFile) = NoFile
  BY DEF Older
<1> QED
  BY <1>1, <1>2, <1>3

LEMMA TickControl ==
    ASSUME ControlInv, Tick
    PROVE  ControlInv'
<1>1. content \in Disk
  BY DEF ControlInv, TypeOK, Disk
<1>2. UNCHANGED <<meta, size, items, writer, readers, pc, key, val, seen, freed, victim, todo, closing>>
  BY DEF Tick, gauges, mutex, args, sweep
<1>3. TypeOK'
  BY <1>1, <1>2, TickAges DEF ControlInv, TypeOK, Disk
<1>4. MutexInv' /\ ArgsInv'
  BY <1>2 DEF ControlInv, MutexInv, ArgsInv
<1>5. ExpireInv'
  <2> SUFFICES ASSUME NEW p \in Reader, pc[p] = "expireContent", content'[key[p]] # NoFile
               PROVE  Expired(content', key[p])
    BY <1>2 DEF ExpireInv
  <2>1. key[p] \in Key
    BY DEF ControlInv, ArgsInv
  <2>2. Expired(content, key[p])
    BY <1>1, <2>1, TickAges DEF ControlInv, ExpireInv
  <2> QED
    BY <1>1, <2>1, <2>2, TickAges, ConstantsAssumption DEF Expired, Disk, File
<1>6. StoreInv'
  <2> SUFFICES ASSUME Storing
               PROVE  StoreInv'
    BY <1>2 DEF StoreInv, Storing
  <2>1. key[writer] \in Key
    BY DEF ControlInv, ArgsInv, Storing, WriteSteps
  <2> QED
    BY <1>1, <1>2, <2>1, TickAges DEF ControlInv, StoreInv, Storing
<1>7. SweepInv'
  BY <1>1, <1>2, TickAges DEF ControlInv, SweepInv, Present
<1> QED
  BY <1>3, <1>4, <1>5, <1>6, <1>7 DEF ControlInv

\* A restart leaves nobody in the middle of anything.
LEMMA RestartControl ==
    ASSUME ControlInv, Restart
    PROVE  ControlInv'
<1>1. content \in Disk
  BY DEF ControlInv, TypeOK, Disk
<1>2. Used(content) \in Nat /\ Cardinality(Present(content)) \in Nat
  BY <1>1, UsedType, PresentFinite
<1> USE ConstantsAssumption, DistinctAssumption
    DEF ControlInv, Restart, disk, Proc, Caller, ReaderSteps, SharedSteps, ExclusiveSteps,
        WriteSteps, WriterSteps, AdminSteps, JanitorSteps
<1>3. TypeOK'
  BY <1>2 DEF TypeOK, Outcome
<1>4. MutexInv' /\ ArgsInv' /\ ExpireInv' /\ SweepInv'
  BY DEF MutexInv, ArgsInv, ExpireInv, SweepInv
<1>5. StoreInv'
  BY DEF StoreInv, Storing
<1> QED
  BY <1>3, <1>4, <1>5

LEMMA InitControl == Init => ControlInv
BY ConstantsAssumption, DistinctAssumption
   DEF Init, ControlInv, TypeOK, MutexInv, ArgsInv, ExpireInv, StoreInv, SweepInv, Storing,
       Outcome, Proc, Caller, ReaderSteps, SharedSteps, ExclusiveSteps, WriteSteps,
       WriterSteps, AdminSteps, JanitorSteps

LEMMA StutterControl == ControlInv /\ UNCHANGED vars => ControlInv'
BY DEF vars, ControlInv, TypeOK, MutexInv, ArgsInv, ExpireInv, Expired, StoreInv, Storing,
       SweepInv, Present

LEMMA NextControl == ControlInv /\ [Next]_vars => ControlInv'
BY GetControl, SetControl, AdminControl, JanitorControl, TickControl, RestartControl,
   StutterControl DEF Next

\* ControlInv holds in every behaviour, with crashes and failing writes.
THEOREM ControlCorrect == Spec => []ControlInv
BY InitControl, NextControl, PTL DEF Spec

\* The variables of FsCache have their types in every behaviour.
THEOREM TypeCorrect == Spec => []TypeOK
<1>1. ControlInv => TypeOK
  BY DEF ControlInv
<1> QED
  BY <1>1, ControlCorrect, PTL

\* No behaviour has a Get remove, under the shared lock, a content that has not
\* expired: the file a Get found expired cannot have been replaced when it is removed.
THEOREM ExpiryCorrect == Spec => GetRemovesOnlyExpired
<1>1. ControlInv /\ [Next]_vars =>
        [\A p \in Reader, k \in Key :
           Get(p) /\ content'[k] # content[k] => content'[k] = NoFile /\ Expired(content, k)]_vars
  <2> SUFFICES ASSUME ControlInv, NEW p \in Reader, NEW k \in Key, Get(p), content'[k] # content[k]
               PROVE  content'[k] = NoFile /\ Expired(content, k)
    OBVIOUS
  <2>1. GetExpireContent(p)
    BY DEF Get, GetRLock, GetStat, GetExpireMeta, GetReadContent, GetReadMeta, GetReturn, disk
  <2> QED
    BY <2>1 DEF ControlInv, TypeOK, ExpireInv, GetExpireContent, Remove
<1> QED
  BY <1>1, ControlCorrect, PTL DEF Spec, GetRemovesOnlyExpired

-----------------------------------------------------------------------------
(* Keys and their files, whatever fails *)

\* Callers store a file under no key but its owner's, as the file service does.
StoresUnder(owner) ==
    [][\A p \in Writer, k \in Key, v \in Value : CallSet(p, k, v) => owner[v] = k]_vars

\* A hit may be cut short and its metadata be missing or that of an earlier file,
\* but both were stored under the key that was asked for: torn files, half-done
\* evictions and restarts never hand a key what belongs to another.
HitOfKey(owner) ==
    \A p \in Reader : pc[p] = "runlock" /\ seen[p].kind = "hit" =>
        /\ owner[seen[p].val] = key[p]
        /\ seen[p].meta # NoFile => owner[seen[p].meta] = key[p]

\* Inductive together with ControlInv, whatever fails.
OwnerInv(owner) ==
    /\ \A k \in Key : /\ content[k] # NoFile => owner[content[k].val] = k
                      /\ meta[k] \in Value => owner[meta[k]] = k
    /\ \A p \in Writer : pc[p] # "idle" => owner[val[p]] = key[p]
    /\ \A p \in Reader : pc[p] \in {"readMeta", "runlock"} /\ seen[p].kind = "hit" =>
          /\ owner[seen[p].val] = key[p]
          /\ seen[p].meta # NoFile => owner[seen[p].meta] = key[p]

LEMMA GetOwner ==
    ASSUME ControlInv, NEW owner, OwnerInv(owner),
           NEW p \in Reader, Get(p) \/ \E k \in Key : CallGet(p, k)
    PROVE  OwnerInv(owner)'
<1> USE ConstantsAssumption, DistinctAssumption
    DEF ControlInv, TypeOK, OwnerInv, Proc, Caller, Goto, Return, Remove,
        disk, gauges, mutex, args, sweep, Outcome
<1>1. key[p] \in Key \cup {NoKey} /\ (pc[p] # "idle" => key[p] \in Key)
  BY DEF ArgsInv
<1>2. p \notin Writer
  OBVIOUS
<1>3. ASSUME NEW k \in Key, CallGet(p, k) PROVE OwnerInv(owner)'
  BY <1>2, <1>3 DEF CallGet
<1>4. CASE GetRLock(p)
  BY <1>2, <1>4 DEF GetRLock
<1>5. CASE GetStat(p)
  BY <1>2, <1>5 DEF GetStat
<1>6. CASE GetExpireContent(p)
  BY <1>2, <1>6 DEF GetExpireContent
<1>7. CASE GetExpireMeta(p)
  BY <1>2, <1>7 DEF GetExpireMeta
<1>8. CASE GetReadContent(p)
  BY <1>1, <1>2, <1>8 DEF GetReadContent
<1>9. CASE GetReadMeta(p)
  <2>1. /\ seen' = [seen EXCEPT ![p].meta = IF meta[key[p]] \in Value THEN meta[key[p]] ELSE NoFile]
        /\ pc[p] = "readMeta" /\ pc' = [pc EXCEPT ![p] = "runlock"]
        /\ UNCHANGED <<content, meta, key, val>>
    BY <1>9 DEF GetReadMeta
  <2>2. /\ seen'[p].kind = seen[p].kind /\ seen'[p].val = seen[p].val
        /\ seen'[p].meta = IF meta[key[p]] \in Value THEN meta[key[p]] ELSE NoFile
        /\ \A q \in Reader : q # p => seen'[q] = seen[q]
    BY <2>1
  <2>3. key[p] \in Key
    BY <1>1, <2>1
  <2> QED
    BY <1>2, <2>1, <2>2, <2>3
<1>10. CASE GetReturn(p)
  BY <1>2, <1>10 DEF GetReturn
<1> QED
  BY <1>3, <1>4, <1>5, <1>6, <1>7, <1>8, <1>9, <1>10 DEF Get

LEMMA SetOwner ==
    ASSUME ControlInv, NEW owner, OwnerInv(owner), NEW p \in Writer,
           \/ Set(p)
           \/ \E k \in Key, v \in Value : CallSet(p, k, v) /\ owner[v] = k
    PROVE  OwnerInv(owner)'
<1> USE ConstantsAssumption, DistinctAssumption
    DEF ControlInv, TypeOK, OwnerInv, Proc, Caller, Goto, Return, Remove,
        disk, gauges, mutex, args, sweep
<1>1. /\ pc[p] # "idle" => key[p] \in Key /\ val[p] \in Value
      /\ p \notin Reader
  BY DEF ArgsInv
<1>2. ASSUME NEW k \in Key, NEW v \in Value, CallSet(p, k, v), owner[v] = k PROVE OwnerInv(owner)'
  BY <1>1, <1>2 DEF CallSet
<1>3. CASE SetLock(p)
  BY <1>1, <1>3 DEF SetLock
<1>4. CASE EvictContent(p)
  BY <1>1, <1>4 DEF EvictContent
<1>5. CASE EvictMeta(p)
  BY <1>1, <1>5 DEF EvictMeta
<1>6. CASE EvictDone(p)
  BY <1>1, <1>6 DEF EvictDone
<1>7. CASE SetTruncate(p)
  BY <1>1, <1>7 DEF SetTruncate, Put
<1>8. CASE SetWrite(p)
  BY <1>1, <1>8 DEF SetWrite, Put
<1>9. CASE SetMetaTruncate(p)
  BY <1>1, <1>9 DEF SetMetaTruncate
<1>10. CASE SetMetaWrite(p)
  BY <1>1, <1>10 DEF SetMetaWrite
<1>11. CASE SetCount(p)
  BY <1>1, <1>11 DEF SetCount
<1>12. CASE SetWriteFails(p)
  BY <1>1, <1>12 DEF SetWriteFails
<1>13. CASE SetMetaFails(p)
  BY <1>1, <1>13 DEF SetMetaFails
<1> QED
  BY <1>2, <1>3, <1>4, <1>5, <1>6, <1>7, <1>8, <1>9, <1>10, <1>11, <1>12, <1>13 DEF Set

\* The others only remove, and a restart only keeps the disk.
LEMMA OtherOwner ==
    ASSUME ControlInv, NEW owner, OwnerInv(owner),
           \/ \E p \in Admin : Administer(p) \/ CallClear(p) \/ \E k \in Key : CallDelete(p, k)
           \/ CleanupTick \/ Cleanup \/ CleanupStop \/ CloseStart \/ CloseReturn
           \/ Tick \/ Restart \/ UNCHANGED vars
    PROVE  OwnerInv(owner)'
<1> USE ConstantsAssumption, DistinctAssumption
    DEF ControlInv, TypeOK, OwnerInv, Proc, Caller, Goto, Return, Remove,
        disk, gauges, mutex, args, sweep
<1>1. ASSUME NEW p \in Admin, Administer(p) \/ CallClear(p) \/ \E k \in Key : CallDelete(p, k)
      PROVE  OwnerInv(owner)'
  <2>1. p \notin Reader /\ p \notin Writer
    OBVIOUS
  <2>2. CASE DeleteLock(p) \/ DeleteContent(p) \/ DeleteMeta(p)
    BY <2>1, <2>2 DEF DeleteLock, DeleteContent, DeleteMeta
  <2>3. CASE ClearLock(p) \/ ClearRemove(p) \/ ClearReset(p)
    BY <2>1, <2>3 DEF ClearLock, ClearRemove, ClearReset
  <2>4. CASE CallClear(p) \/ \E k \in Key : CallDelete(p, k)
    BY <2>1, <2>4 DEF CallClear, CallDelete
  <2> QED
    BY <1>1, <2>2, <2>3, <2>4 DEF Administer
<1>2. CASE CleanupTick \/ Cleanup \/ CleanupStop
  BY <1>2 DEF CleanupTick, Cleanup, CleanupStop, CleanupLock, CleanupContent, CleanupMeta, CleanupUnlock
<1>3. CASE CloseStart \/ CloseReturn \/ UNCHANGED vars
  BY <1>3 DEF CloseStart, CloseReturn, vars
<1>4. CASE Tick
  <2>1. content \in Disk
    BY DEF Disk
  <2> QED
    BY <1>4, <2>1, TickAges DEF Tick
<1>5. CASE Restart
  BY <1>5 DEF Restart, Outcome
<1> QED
  BY <1>1, <1>2, <1>3, <1>4, <1>5

\* Killed, restarted and unable to write as often as may be, the cache never hands
\* out under one key what was stored under another.
THEOREM KeysApart ==
    ASSUME NEW owner
    PROVE  Spec /\ StoresUnder(owner) => []HitOfKey(owner)
<1> DEFINE Stores == \A p \in Writer, k \in Key, v \in Value : CallSet(p, k, v) => owner[v] = k
<1>1. Init => OwnerInv(owner)
  BY ConstantsAssumption, DistinctAssumption DEF Init, OwnerInv, Outcome, Proc, Caller
<1>2. ControlInv /\ OwnerInv(owner) /\ [Next]_vars /\ [Stores]_vars => OwnerInv(owner)'
  BY GetOwner, SetOwner, OtherOwner DEF Next
<1>3. OwnerInv(owner) => HitOfKey(owner)
  BY DEF OwnerInv, HitOfKey
<1> QED
  BY <1>1, <1>2, <1>3, ControlCorrect, PTL DEF Spec, StoresUnder

\* Clear and a restart make both gauges exact again, whatever they were before and
\* whatever has failed (lines 239-240 and 305-306).
ResetsExact ==
    [][(\E p \in Admin : ClearReset(p)) \/ Restart =>
          size' = Used(content') /\ items' = Cardinality(Present(content'))]_vars

\* Whatever went wrong with the gauges, Clear and a restart put it right.
THEOREM ResetCorrect == Spec => ResetsExact
<1> DEFINE Exact == (\E p \in Admin : ClearReset(p)) \/ Restart =>
                        size' = Used(content') /\ items' = Cardinality(Present(content'))
<1>1. ControlInv /\ [Next]_vars => [Exact]_vars
  <2> SUFFICES ASSUME ControlInv PROVE Exact
    OBVIOUS
  <2>1. ASSUME NEW p \in Admin, ClearReset(p)
        PROVE  size' = Used(content') /\ items' = Cardinality(Present(content'))
    <3>1. content' = content /\ size' = 0 /\ items' = 0 /\ \A k \in Key : content[k] = NoFile
      BY <2>1 DEF ClearReset, disk
    <3>2. Used(content) = 0
      BY <3>1, NoBytes DEF ControlInv, TypeOK, Disk, LenAt
    <3>3. Present(content) = {}
      BY <3>1 DEF Present
    <3> QED
      BY <3>1, <3>2, <3>3, FS_EmptySet
  <2>2. ASSUME Restart
        PROVE  size' = Used(content') /\ items' = Cardinality(Present(content'))
    BY <2>2 DEF Restart, disk
  <2> QED
    BY <2>1, <2>2
<1> QED
  BY <1>1, ControlCorrect, PTL DEF Spec, ResetsExact

-----------------------------------------------------------------------------
(* The mutex is released: what its holder has left to do dwindles *)

\* Disk files of either kind are finite in number, and one fewer without one of them.
\* The steps of the goroutine that holds the mutex exclusively.
Works(p) ==
    \/ p \in Writer /\ Set(p)
    \/ p \in Admin /\ Administer(p)
    \/ p = Janitor /\ Cleanup

\* At least as many steps as the holder of the mutex can still take: two for each
\* file it may evict or sweep, one for each byte it may write.
Rank ==
    LET n == Len[val[writer]]
        f == Cardinality(Present(content))
        t == Cardinality(todo)
    IN  CASE pc[writer] = "evict"        -> 2 * f + n + 6
          [] pc[writer] = "evictMeta"    -> 2 * f + n + 7
          [] pc[writer] = "truncate"     -> n + 5
          [] pc[writer] = "write"        -> n - LenAt(content, key[writer]) + 4
          [] pc[writer] = "metaTruncate" -> 3
          [] pc[writer] = "metaWrite"    -> 2
          [] pc[writer] = "count"        -> 1
          [] pc[writer] = "delContent"   -> 2
          [] pc[writer] = "delMeta"      -> 1
          [] pc[writer] = "clear"        -> f + Cardinality(Present(meta))
          [] pc[writer] = "sweep"        -> 2 * t
          [] pc[writer] = "sweepMeta"    -> 2 * t + 1

\* Eviction, a write in pieces, clearing and sweeping come to an end, on error
\* paths too: a step by which the holder of the mutex does not release it leaves
\* it less to do, and nothing that others do meanwhile, neither new calls nor the
\* clock, gives it more (lines 141-190, 211-224, 327-361, 380-411).
HolderProgresses ==
    [][writer # NoProc /\ writer' = writer =>
          /\ Rank \in Nat
          /\ IF Works(writer) THEN Rank' < Rank ELSE Rank' = Rank]_vars

LEMMA PresentRemove ==
    ASSUME NEW f \in [Key -> File \cup {NoFile}] \cup [Key -> Value \cup {NoFile, Torn}],
           NEW k \in Key
    PROVE  /\ Cardinality(Present(f)) \in Nat
           /\ f[k] # NoFile =>
                 /\ Cardinality(Present(f)) > 0
                 /\ Cardinality(Present(Remove(f, k))) = Cardinality(Present(f)) - 1
<1>1. IsFiniteSet(Present(f))
  BY FS_Subset, ConstantsAssumption DEF Present
<1>2. Present(Remove(f, k)) = Present(f) \ {k}
  BY DEF Present, Remove
<1>3. f[k] # NoFile => k \in Present(f)
  BY DEF Present
<1>4. Cardinality(Present(f)) \in Nat /\ Cardinality(Present(f) \ {k}) \in Nat
  BY <1>1, FS_CardinalityType, FS_RemoveElement
<1>5. ASSUME f[k] # NoFile
      PROVE  Cardinality(Present(f) \ {k}) = Cardinality(Present(f)) - 1
  BY <1>1, <1>3, <1>5, FS_RemoveElement
<1> QED
  BY <1>2, <1>4, <1>5

LEMMA TodoRemove ==
    ASSUME TypeOK
    PROVE  /\ Cardinality(todo) \in Nat
           /\ \A k \in todo : Cardinality(todo \ {k}) = Cardinality(todo) - 1
<1>1. IsFiniteSet(todo)
  BY FS_Subset, ConstantsAssumption DEF TypeOK
<1> QED
  BY <1>1, FS_CardinalityType, FS_RemoveElement

\* What the holder of the mutex is busy with.
LEMMA HolderTypes ==
    ASSUME ControlInv, writer # NoProc
    PROVE  /\ writer \in Proc /\ pc[writer] \in ExclusiveSteps
           /\ writer \in Writer =>
                 /\ key[writer] \in Key /\ val[writer] \in Value /\ Len[val[writer]] \in Nat
                 /\ pc[writer] \in WriterSteps
                 /\ pc[writer] = "write" =>
                       LenAt(content, key[writer]) \in 0 .. Len[val[writer]]
           /\ writer \in Admin => pc[writer] \in AdminSteps
           /\ writer \in Reader => FALSE
           /\ writer = Janitor => pc[writer] \in JanitorSteps
<1> USE ConstantsAssumption, DistinctAssumption DEF ControlInv, TypeOK, MutexInv
<1>1. writer \in Proc /\ pc[writer] \in ExclusiveSteps
  OBVIOUS
<1>2. ASSUME writer \in Writer
      PROVE  /\ key[writer] \in Key /\ val[writer] \in Value /\ Len[val[writer]] \in Nat
             /\ pc[writer] \in WriterSteps
             /\ pc[writer] = "write" => LenAt(content, key[writer]) \in 0 .. Len[val[writer]]
  <2>1. key[writer] \in Key /\ val[writer] \in Value /\ pc[writer] \in WriterSteps
    BY <1>1, <1>2 DEF ArgsInv, ExclusiveSteps, WriteSteps
  <2>2. Len[val[writer]] \in Nat
    BY <2>1
  <2>3. ASSUME pc[writer] = "write"
        PROVE  LenAt(content, key[writer]) \in 0 .. Len[val[writer]]
    BY <1>2, <2>1, <2>2, <2>3 DEF StoreInv, Storing, WriteSteps, LenAt, File
  <2> QED
    BY <2>1, <2>2, <2>3
<1>3. writer \in Reader => FALSE
  BY <1>1 DEF ReaderSteps, SharedSteps, ExclusiveSteps, WriteSteps
<1> QED
  BY <1>1, <1>2, <1>3

LEMMA RankType ==
    ASSUME ControlInv, writer # NoProc
    PROVE  Rank \in Nat
<1> DEFINE f == Cardinality(Present(content))
           m == Cardinality(Present(meta))
           t == Cardinality(todo)
           n == Len[val[writer]]
           l == LenAt(content, key[writer])
<1>1. f \in Nat /\ m \in Nat
  <2>1. IsFiniteSet(Present(content)) /\ IsFiniteSet(Present(meta))
    BY FS_Subset, ConstantsAssumption DEF Present
  <2> QED
    BY <2>1, FS_CardinalityType
<1>2. t \in Nat
  BY TodoRemove DEF ControlInv
<1>3. writer \in Writer => n \in Nat
  BY HolderTypes
<1>4. writer \in Writer /\ pc[writer] = "write" => l \in 0 .. n
  BY HolderTypes
<1>5. CASE writer \in Writer
  <2>1. pc[writer] \in WriteSteps \cup {"evict", "evictMeta", "truncate"}
    BY <1>5, HolderTypes DEF ExclusiveSteps, WriterSteps
  <2> HIDE DEF f, m, t, n, l
  <2> QED
    BY <1>1, <1>3, <1>4, <1>5, <2>1 DEF Rank, WriteSteps, f, n, l
<1>6. CASE writer \in Admin
  <2>1. pc[writer] \in {"delContent", "delMeta", "clear"}
    BY <1>6, HolderTypes DEF ExclusiveSteps, WriteSteps, AdminSteps
  <2> QED
    BY <1>1, <2>1 DEF Rank
<1>7. CASE writer = Janitor
  <2>1. pc[writer] \in {"sweep", "sweepMeta"}
    BY <1>7, HolderTypes DEF ExclusiveSteps, WriteSteps, JanitorSteps
  <2> QED
    BY <1>2, <2>1 DEF Rank
<1> QED
  BY <1>5, <1>6, <1>7, HolderTypes DEF Proc, Caller

\* A Set that keeps the mutex has evicted or written something, or is a stage further.
LEMMA SetFalls ==
    ASSUME ControlInv, NEW p \in Writer, writer = p, writer' = p, Set(p)
    PROVE  Rank' < Rank
<1> USE ConstantsAssumption, DistinctAssumption
<1> DEFINE f == Cardinality(Present(content))
           n == Len[val[p]]
           l == LenAt(content, key[p])
<1>1. /\ key[p] \in Key /\ val[p] \in Value /\ n \in Nat
      /\ pc[p] = "write" => l \in 0 .. n
      /\ p # NoProc
  BY HolderTypes DEF Proc, Caller
<1>2. content \in Disk /\ pc \in [Proc -> ReaderSteps \cup WriterSteps \cup AdminSteps \cup JanitorSteps]
      /\ p \in Proc /\ key \in [Caller -> Key \cup {NoKey}] /\ p \in Caller
  BY DEF ControlInv, TypeOK, Proc, Caller, Disk
<1>3. f \in Nat
  BY <1>2, PresentFinite
<1>4. CASE SetLock(p)
  BY <1>1, <1>4 DEF SetLock, Lock
<1>5. CASE EvictContent(p)
  <2>1. PICK k \in Oldest(content) : content' = Remove(content, k)
    BY <1>5 DEF EvictContent
  <2>2. k \in Key /\ content[k] # NoFile
    BY <2>1 DEF Oldest, Present
  <2>3. Cardinality(Present(content)') = f - 1 /\ f > 0
    BY <1>2, <2>1, <2>2, PresentRemove DEF Disk
  <2>4. pc[p] = "evict" /\ pc'[p] = "evictMeta" /\ val' = val
    BY <1>2, <1>5 DEF EvictContent, Goto, args
  <2> QED
    BY <1>1, <1>3, <2>3, <2>4 DEF Rank
<1>6. CASE EvictMeta(p)
  <2>1. pc[p] = "evictMeta" /\ pc'[p] = "evict" /\ val' = val /\ content' = content
    BY <1>2, <1>6 DEF EvictMeta, Goto, args
  <2> QED
    BY <1>1, <1>3, <2>1 DEF Rank
<1>7. CASE EvictDone(p)
  <2>1. pc[p] = "evict" /\ pc'[p] = "truncate" /\ val' = val
    BY <1>2, <1>7 DEF EvictDone, Goto, args
  <2> QED
    BY <1>1, <1>3, <2>1 DEF Rank
<1>8. CASE SetTruncate(p)
  <2>1. /\ pc[p] = "truncate" /\ val' = val /\ key' = key
        /\ pc'[p] = IF n = 0 THEN "metaTruncate" ELSE "write"
        /\ content' = Put(content, key[p], val[p], 0)
    BY <1>2, <1>8 DEF SetTruncate, Goto, args
  <2>2. LenAt(content, key[p])' \in Nat
    BY <1>1, <1>2, <2>1 DEF LenAt, Put, Disk
  <2> QED
    BY <1>1, <2>1, <2>2 DEF Rank
<1>9. CASE SetWrite(p)
  <2>1. PICK m \in (l + 1) .. n : /\ content' = Put(content, key[p], val[p], m)
                                  /\ Goto(p, IF m = n THEN "metaTruncate" ELSE "write")
    BY <1>9 DEF SetWrite
  <2>2. pc[p] = "write" /\ val' = val /\ key' = key
    BY <1>9 DEF SetWrite, args
  <2>3. pc'[p] = IF m = n THEN "metaTruncate" ELSE "write"
    BY <1>2, <2>1 DEF Goto
  <2>4. m \in Nat /\ l < m /\ m <= n /\ l \in Nat
    BY <1>1, <2>1, <2>2
  <2>5. LenAt(content, key[p])' = m
    <3>1. content'[key[p]] = [val |-> val[p], len |-> m, age |-> 0]
      BY <1>1, <1>2, <2>1 DEF Put, Disk
    <3>2. content'[key[p]] # NoFile
      <4>1. [val |-> val[p], len |-> m, age |-> 0] \in File
        <5>1. m \in 0 .. MaxLen
          BY <1>1, <2>4
        <5> QED
          BY <1>1, <5>1 DEF File
      <4> QED
        BY <3>1, <4>1
    <3> QED
      BY <2>2, <3>1, <3>2 DEF LenAt
  <2> QED
    BY <1>1, <2>2, <2>3, <2>4, <2>5 DEF Rank
<1>10. CASE SetMetaTruncate(p)
  BY <1>2, <1>10 DEF SetMetaTruncate, Goto, Rank
<1>11. CASE SetMetaWrite(p)
  BY <1>2, <1>11 DEF SetMetaWrite, Goto, Rank
<1>12. CASE SetCount(p)
  BY <1>1, <1>12 DEF SetCount, Unlock
<1>13. CASE SetWriteFails(p)
  BY <1>1, <1>13 DEF SetWriteFails, Unlock
<1>14. CASE SetMetaFails(p)
  BY <1>2, <1>14 DEF SetMetaFails, Goto, Rank
<1> QED
  BY <1>4, <1>5, <1>6, <1>7, <1>8, <1>9, <1>10, <1>11, <1>12, <1>13, <1>14 DEF Set

\* So has a Delete or a Clear.
LEMMA AdminFalls ==
    ASSUME ControlInv, NEW p \in Admin, writer = p, writer' = p, Administer(p)
    PROVE  Rank' < Rank
<1> USE ConstantsAssumption, DistinctAssumption
<1>1. /\ content \in [Key -> File \cup {NoFile}] /\ meta \in [Key -> Value \cup {NoFile, Torn}]
      /\ pc \in [Proc -> ReaderSteps \cup WriterSteps \cup AdminSteps \cup JanitorSteps]
      /\ p \in Proc /\ p # NoProc
  BY DEF ControlInv, TypeOK, Proc, Caller
<1>2. CASE DeleteLock(p) \/ ClearLock(p)
  BY <1>1, <1>2 DEF DeleteLock, ClearLock, Lock
<1>3. CASE DeleteContent(p)
  BY <1>1, <1>3 DEF DeleteContent, Goto, Rank
<1>4. CASE DeleteMeta(p) \/ ClearReset(p)
  BY <1>1, <1>4 DEF DeleteMeta, ClearReset, Unlock
<1>5. CASE ClearRemove(p)
  <2>1. PICK k \in Key :
          \/ content[k] # NoFile /\ content' = Remove(content, k) /\ UNCHANGED meta
          \/ meta[k] # NoFile /\ meta' = Remove(meta, k) /\ UNCHANGED content
    BY <1>5 DEF ClearRemove
  <2>2. pc[p] = "clear" /\ pc' = pc
    BY <1>5 DEF ClearRemove
  <2>3. Cardinality(Present(content)) \in Nat /\ Cardinality(Present(meta)) \in Nat
    BY <1>1, <2>1, PresentRemove
  <2>4. \/ /\ Cardinality(Present(content)') = Cardinality(Present(content)) - 1
           /\ Cardinality(Present(meta)') = Cardinality(Present(meta))
        \/ /\ Cardinality(Present(meta)') = Cardinality(Present(meta)) - 1
           /\ Cardinality(Present(content)') = Cardinality(Present(content))
    <3>1. CASE content[k] # NoFile /\ content' = Remove(content, k) /\ UNCHANGED meta
      BY <1>1, <3>1, PresentRemove
    <3>2. CASE meta[k] # NoFile /\ meta' = Remove(meta, k) /\ UNCHANGED content
      BY <1>1, <3>2, PresentRemove
    <3> QED
      BY <2>1, <3>1, <3>2
  <2> QED
    BY <2>2, <2>3, <2>4 DEF Rank
<1> QED
  BY <1>2, <1>3, <1>4, <1>5 DEF Administer

\* So has a sweep.
LEMMA CleanupFalls ==
    ASSUME ControlInv, writer = Janitor, writer' = Janitor, Cleanup
    PROVE  Rank' < Rank
<1> USE ConstantsAssumption, DistinctAssumption
<1>1. /\ pc \in [Proc -> ReaderSteps \cup WriterSteps \cup AdminSteps \cup JanitorSteps]
      /\ Janitor \in Proc /\ Janitor # NoProc
  BY DEF ControlInv, TypeOK, Proc
<1>2. CASE CleanupLock \/ CleanupUnlock
  BY <1>1, <1>2 DEF CleanupLock, CleanupUnlock, Lock, Unlock
<1>3. CASE CleanupContent
  <2>1. PICK k \in todo : todo' = todo \ {k}
    BY <1>3 DEF CleanupContent
  <2>2. pc[Janitor] = "sweep" /\ pc'[Janitor] = "sweepMeta"
    BY <1>1, <1>3 DEF CleanupContent, Goto
  <2>3. Cardinality(todo)' = Cardinality(todo) - 1 /\ Cardinality(todo) \in Nat
    BY <2>1, TodoRemove DEF ControlInv
  <2> QED
    BY <2>2, <2>3 DEF Rank
<1>4. CASE CleanupMeta
  <2>1. pc[Janitor] = "sweepMeta" /\ pc'[Janitor] = "sweep" /\ todo' = todo
    BY <1>1, <1>4 DEF CleanupMeta, Goto
  <2>2. Cardinality(todo) \in Nat
    BY TodoRemove DEF ControlInv
  <2> QED
    BY <2>1, <2>2 DEF Rank
<1> QED
  BY <1>2, <1>3, <1>4 DEF Cleanup

LEMMA SameRank ==
    ASSUME ControlInv, writer # NoProc, writer' = writer, pc'[writer] = pc[writer],
           Present(content)' = Present(content), Present(meta)' = Present(meta), todo' = todo,
           writer \in Writer => /\ val'[writer] = val[writer]
                                /\ LenAt(content, key[writer])' = LenAt(content, key[writer])
    PROVE  Rank' = Rank
<1>1. CASE writer \in Writer
  BY <1>1 DEF Rank
<1>2. CASE writer \in Admin
  <2>1. pc[writer] \in {"delContent", "delMeta", "clear"}
    BY <1>2, HolderTypes DEF ExclusiveSteps, WriteSteps, AdminSteps
  <2> QED
    BY <2>1 DEF Rank
<1>3. CASE writer = Janitor
  <2>1. pc[writer] \in {"sweep", "sweepMeta"}
    BY <1>3, HolderTypes DEF ExclusiveSteps, WriteSteps, JanitorSteps
  <2> QED
    BY <2>1 DEF Rank
<1> QED
  BY <1>1, <1>2, <1>3, HolderTypes DEF Proc, Caller

\* While somebody holds the mutex alone, nobody else gets past the call of an
\* operation, and the clock only makes files older.
LEMMA RankKept ==
    ASSUME ControlInv, [Next]_vars, writer # NoProc, writer' = writer, ~Works(writer)
    PROVE  Rank' = Rank
<1> USE ConstantsAssumption, DistinctAssumption
<1>1. /\ \A p \in Reader : pc[p] \in {"idle", "rlock"} /\ p # writer
      /\ \A p \in Writer : p # writer => pc[p] \in {"idle", "lock"}
      /\ \A p \in Admin : p # writer => pc[p] \in {"idle", "delLock", "clearLock"}
      /\ Janitor # writer => pc[Janitor] \in {"wait", "cleanupLock", "done"}
      /\ pc[writer] \in ExclusiveSteps
  BY HolderTypes
     DEF ControlInv, TypeOK, MutexInv, ReaderSteps, SharedSteps, WriterSteps, WriteSteps, AdminSteps,
         JanitorSteps, ExclusiveSteps, Proc, Caller
<1>2. /\ pc \in [Proc -> ReaderSteps \cup WriterSteps \cup AdminSteps \cup JanitorSteps]
      /\ key \in [Caller -> Key \cup {NoKey}] /\ val \in [Writer -> Value \cup {NoFile}]
      /\ writer \in Proc
      /\ content \in Disk
  BY HolderTypes DEF ControlInv, TypeOK, Disk
<1>3. CASE UNCHANGED vars
  BY <1>3, SameRank DEF vars
<1>4. ASSUME NEW p \in Reader, Get(p) \/ \E k \in Key : CallGet(p, k) PROVE Rank' = Rank
  <2>1. PICK k \in Key : CallGet(p, k)
    BY <1>1, <1>4 DEF Get, GetRLock, GetStat, GetExpireContent, GetExpireMeta, GetReadContent,
       GetReadMeta, GetReturn, RLock
  <2> QED
    BY <1>1, <1>2, <2>1, SameRank DEF CallGet, Goto, disk, sweep, mutex, Caller, Proc
<1>5. ASSUME NEW p \in Writer, Set(p) \/ \E k \in Key, v \in Value : CallSet(p, k, v)
      PROVE  Rank' = Rank
  <2>1. ~Set(p)
    <3>1. CASE p = writer
      BY <1>5, <3>1 DEF Works
    <3>2. CASE p # writer
      BY <1>1, <3>2 DEF Set, SetLock, EvictContent, EvictMeta, EvictDone, SetTruncate, SetWrite,
         SetMetaTruncate, SetMetaWrite, SetCount, SetWriteFails, SetMetaFails, Lock
    <3> QED
      BY <3>1, <3>2
  <2>2. PICK k \in Key, v \in Value : CallSet(p, k, v)
    BY <1>5, <2>1
  <2>3. p # writer
    BY <1>1, <2>2 DEF CallSet, ExclusiveSteps, WriteSteps
  <2> QED
    BY <1>1, <1>2, <2>2, <2>3, SameRank DEF CallSet, Goto, disk, sweep, mutex, Caller, Proc
<1>6. ASSUME NEW p \in Admin, Administer(p) \/ CallClear(p) \/ \E k \in Key : CallDelete(p, k)
      PROVE  Rank' = Rank
  <2>1. ~Administer(p)
    <3>1. CASE p = writer
      BY <1>6, <3>1 DEF Works
    <3>2. CASE p # writer
      BY <1>1, <3>2 DEF Administer, DeleteLock, DeleteContent, DeleteMeta, ClearLock, ClearRemove,
         ClearReset, Lock
    <3> QED
      BY <3>1, <3>2
  <2>2. CASE CallClear(p)
    <3>1. p # writer
      BY <1>1, <2>2 DEF CallClear, ExclusiveSteps, WriteSteps
    <3> QED
      BY <1>2, <2>2, <3>1, SameRank DEF CallClear, Goto, disk, sweep, mutex, args, Proc, Caller
  <2>3. ASSUME NEW k \in Key, CallDelete(p, k) PROVE Rank' = Rank
    <3>1. p # writer
      BY <1>1, <2>3 DEF CallDelete, ExclusiveSteps, WriteSteps
    <3> QED
      BY <1>2, <2>3, <3>1, SameRank DEF CallDelete, Goto, disk, sweep, mutex, Proc, Caller
  <2> QED
    BY <1>6, <2>1, <2>2, <2>3
<1>7. CASE CleanupTick \/ CleanupStop
  <2>1. Janitor # writer
    BY <1>1, <1>7 DEF CleanupTick, CleanupStop, ExclusiveSteps, WriteSteps
  <2> QED
    BY <1>2, <1>7, <2>1, SameRank DEF CleanupTick, CleanupStop, Goto, disk, sweep, mutex, args, Proc
<1>8. ~Cleanup
  <2>1. CASE Janitor = writer
    BY <2>1 DEF Works
  <2>2. CASE Janitor # writer
    BY <1>1, <2>2 DEF Cleanup, CleanupLock, CleanupContent, CleanupMeta, CleanupUnlock, Lock
  <2> QED
    BY <2>1, <2>2
<1>9. CASE CloseStart \/ CloseReturn
  BY <1>9, SameRank DEF CloseStart, CloseReturn, disk, sweep, mutex, args
<1>10. CASE Tick
  <2>1. /\ content' = [k \in Key |-> Older(content[k])]
        /\ UNCHANGED <<meta, pc, key, val, todo>>
    BY <1>10 DEF Tick, args, sweep
  <2>2. \A k \in Key : /\ content'[k] = NoFile <=> content[k] = NoFile
                       /\ content[k] # NoFile => content'[k].len = content[k].len
    BY <1>2, <1>10, TickAges
  <2>3. Present(content)' = Present(content)
    BY <2>2 DEF Present
  <2>4. writer \in Writer => LenAt(content, key[writer])' = LenAt(content, key[writer])
    BY <2>1, <2>2, HolderTypes DEF LenAt
  <2> QED
    BY <2>1, <2>3, <2>4, SameRank
<1>11. ~Restart
  BY DEF Restart
<1> QED
  BY <1>3, <1>4, <1>5, <1>6, <1>7, <1>8, <1>9, <1>10, <1>11 DEF Next

\* Whoever holds the mutex alone takes finitely many steps, on every path, and
\* nobody can give it more to do; so every exclusive hold ends.
THEOREM HoldsEnd == Spec => HolderProgresses
<1> DEFINE Progress ==
        writer # NoProc /\ writer' = writer =>
            /\ Rank \in Nat
            /\ IF Works(writer) THEN Rank' < Rank ELSE Rank' = Rank
<1>1. ControlInv /\ [Next]_vars => [Progress]_vars
  <2> SUFFICES ASSUME ControlInv, [Next]_vars, writer # NoProc, writer' = writer
               PROVE  /\ Rank \in Nat
                      /\ IF Works(writer) THEN Rank' < Rank ELSE Rank' = Rank
    OBVIOUS
  <2>1. Rank \in Nat
    BY RankType
  <2>2. ASSUME Works(writer) PROVE Rank' < Rank
    BY <2>2, SetFalls, AdminFalls, CleanupFalls DEF Works
  <2>3. ASSUME ~Works(writer) PROVE Rank' = Rank
    BY <2>3, RankKept
  <2> QED
    BY <2>1, <2>2, <2>3
<1> QED
  BY <1>1, ControlCorrect, PTL DEF Spec, HolderProgresses

-----------------------------------------------------------------------------
(* The gauges and the limit, as long as no write to the disk fails *)

LEMMA LimitTypes ==
    ASSUME ControlInv
    PROVE  /\ content \in Disk
           /\ Used(content) \in Nat /\ Cardinality(Present(content)) \in Nat
           /\ size \in Int /\ items \in Int /\ freed \in Nat /\ MaxSize \in Nat /\ MaxLen \in Nat
           /\ Storing => key[writer] \in Key /\ val[writer] \in Value
           /\ InFlight \in 0 .. MaxLen
<1>1. content \in Disk
  BY DEF ControlInv, TypeOK, Disk
<1>2. Storing => key[writer] \in Key /\ val[writer] \in Value
  BY DEF Storing, WriteSteps, ControlInv, ArgsInv
<1>3. InFlight \in 0 .. MaxLen
  BY <1>1, <1>2, LenAtType, ConstantsAssumption DEF InFlight
<1> QED
  BY <1>1, <1>2, <1>3, UsedType, PresentFinite, ConstantsAssumption DEF ControlInv, TypeOK

\* Removing bytes keeps the contents within the limit.
LEMMA LimitShrinks ==
    ASSUME NEW c \in Disk, NEW k \in Key, DiskWithinLimit, content = c
    PROVE  LET d == Remove(c, k) IN
           /\ Used(d) <= Used(c)
           /\ AtMostOne(c) => AtMostOne(d)
           /\ Used(d) <= MaxSize \/ AtMostOne(d)
<1> DEFINE d == Remove(c, k)
<1>1. /\ LenAt(d, k) = 0
      /\ \A j \in Key : j # k => LenAt(d, j) = LenAt(c, j)
      /\ Used(d) = Used(c) - LenAt(c, k)
  BY RemoveFile
<1>2. LenAt(c, k) \in Nat /\ Used(c) \in Nat /\ MaxSize \in Nat
  BY LenAtType, UsedType, ConstantsAssumption
<1> HIDE DEF d
<1>3. AtMostOne(c) => AtMostOne(d)
  BY <1>1 DEF AtMostOne
<1>4. Used(d) <= Used(c)
  BY <1>1, <1>2
<1>5. Used(d) <= MaxSize \/ AtMostOne(d)
  BY <1>2, <1>3, <1>1 DEF DiskWithinLimit
<1> QED
  BY <1>3, <1>4, <1>5 DEF d

\* A step that leaves the disk, the gauges and the Set in the mutex alone.
LEMMA LimitKept ==
    ASSUME ControlInv, LimitInv, UNCHANGED <<content, size, items, freed, writer>>,
           writer \in Writer => UNCHANGED <<pc[writer], key[writer], val[writer]>>
    PROVE  LimitInv'
BY DEF LimitInv, GaugesCoverDisk, DiskWithinLimit, RoomInv, InFlight, Storing

\* A step after which no Set is in the mutex, and which takes no more from the
\* gauges than it takes from the disk.
LEMMA LimitOutside ==
    ASSUME ControlInv, LimitInv, writer' \notin Writer, size' \in Int, items' \in Int,
           Used(content)' <= size', Cardinality(Present(content))' <= items',
           DiskWithinLimit'
    PROVE  LimitInv'
<1>1. ~Storing' /\ InFlight' = 0
  BY DEF Storing, InFlight
<1> QED
  BY <1>1 DEF LimitInv, GaugesCoverDisk, RoomInv

LEMMA GetLimit ==
    ASSUME ControlInv, LimitInv, NEW p \in Reader,
           Get(p) \/ \E k \in Key : CallGet(p, k)
    PROVE  LimitInv'
<1>1. CASE GetExpireContent(p)
  <2>1. key[p] \in Key /\ writer = NoProc
    BY <1>1, DistinctAssumption DEF GetExpireContent, ControlInv, ArgsInv, MutexInv, SharedSteps
  <2>2. ~Storing /\ InFlight = 0 /\ writer' \notin Writer
    BY <1>1, <2>1, DistinctAssumption
    DEF Storing, InFlight, GetExpireContent, mutex, Proc, Caller
  <2>3. content \in Disk /\ content' = Remove(content, key[p]) /\ UNCHANGED <<size, items>>
    BY <1>1, LimitTypes DEF GetExpireContent, gauges
  <2>4. Used(content') <= Used(content)
        /\ Cardinality(Present(content')) <= Cardinality(Present(content))
    BY <2>1, <2>3, LimitTypes, LenAtType, RemoveFile, ConstantsAssumption
  <2>5. DiskWithinLimit'
    BY <2>1, <2>3, LimitShrinks DEF LimitInv, DiskWithinLimit
  <2>6. Used(content') <= size /\ Cardinality(Present(content')) <= items
    <3>1. Used(content') \in Nat /\ Cardinality(Present(content')) \in Nat
      BY <2>1, <2>3, RemoveFile, UsedType, PresentFinite
    <3> QED
      BY <2>2, <2>4, <3>1, LimitTypes DEF LimitInv, GaugesCoverDisk
  <2> QED
    BY <2>2, <2>3, <2>5, <2>6, LimitTypes, LimitOutside
<1>2. CASE ~GetExpireContent(p)
  <2>1. p \notin Writer /\ p \in Proc /\ \A w \in Writer : w \in Proc /\ w \in Caller
    BY DistinctAssumption DEF Proc, Caller
  <2>2. UNCHANGED <<content, size, items, freed, writer>>
    BY <1>2 DEF Get, CallGet, GetRLock, GetStat, GetExpireMeta, GetReadContent, GetReadMeta,
                GetReturn, RLock, RUnlock, disk, gauges, mutex, sweep
  <2>3. \A w \in Writer : UNCHANGED <<pc[w], key[w], val[w]>>
    BY <1>2, <2>1
    DEF Get, CallGet, GetRLock, GetStat, GetExpireMeta, GetReadContent, GetReadMeta, GetReturn,
        RLock, RUnlock, Return, Goto, args, ControlInv, TypeOK
  <2> QED
    BY <2>2, <2>3, LimitKept
<1> QED
  BY <1>1, <1>2

\* What a Set knows between its Lock and its Unlock.
LEMMA SetInside ==
    ASSUME ControlInv, NEW p \in Writer, pc[p] \in ExclusiveSteps
    PROVE  /\ writer = p
           /\ p \in Proc /\ p \in Caller /\ p # NoProc
           /\ key[p] \in Key /\ val[p] \in Value
           /\ Len[val[p]] \in 0 .. MaxLen
           /\ Storing <=> pc[p] \in WriteSteps
           /\ InFlight = IF pc[p] \in WriteSteps THEN LenAt(content, key[p]) ELSE 0
<1>1. p \in Proc /\ p \in Caller /\ p # NoProc
  BY DistinctAssumption DEF Proc, Caller
<1>2. writer = p /\ key[p] \in Key /\ val[p] \in Value
  BY <1>1 DEF ControlInv, MutexInv, ArgsInv, ExclusiveSteps, WriteSteps
<1> QED
  BY <1>1, <1>2, ConstantsAssumption DEF Storing, InFlight

\* A Set takes the mutex: what is on disk is covered by the gauge it looks at.
LEMMA SetLockLimit ==
    ASSUME ControlInv, LimitInv, NEW p \in Writer, SetLock(p)
    PROVE  LimitInv'
<1>1. writer = NoProc /\ writer' = p /\ UNCHANGED <<content, size, items, key, val>> /\ freed' = 0
  BY DEF SetLock, Lock, disk, gauges, args
<1>2. pc'[p] = IF NeedsEviction(Len[val[p]]) THEN "evict" ELSE "truncate"
  BY DistinctAssumption DEF SetLock, Goto, ControlInv, TypeOK, Proc, Caller
<1>3. InFlight = 0 /\ ~Storing
  BY <1>1, DistinctAssumption DEF InFlight, Storing, Proc, Caller
<1>4. InFlight' = 0 /\ ~Storing'
  BY <1>1, <1>2 DEF InFlight, Storing, WriteSteps
<1>5. GaugesCoverDisk' /\ DiskWithinLimit'
  BY <1>1, <1>3, <1>4 DEF LimitInv, GaugesCoverDisk, DiskWithinLimit
<1>6. Len[val[p]] \in Nat
  BY ConstantsAssumption DEF SetLock, ControlInv, ArgsInv
<1>7. RoomInv'
  <2>1. CASE NeedsEviction(Len[val[p]])
    BY <1>1, <1>2, <2>1, LimitTypes DEF RoomInv, LimitInv, DiskWithinLimit, WriteSteps
  <2>2. CASE ~NeedsEviction(Len[val[p]])
    <3>1. Used(content) <= size
      BY <1>3, LimitTypes DEF LimitInv, GaugesCoverDisk
    <3>2. Used(content) + Len[val[p]] <= MaxSize
      BY <1>6, <2>2, <3>1, LimitTypes DEF NeedsEviction
    <3> QED
      BY <1>1, <1>2, <2>2, <3>2 DEF RoomInv, WriteSteps
  <2> QED
    BY <2>1, <2>2
<1> QED
  BY <1>5, <1>7 DEF LimitInv

\* Evicting a file takes the same number of bytes from the disk, from the gauge
\* and from what is still to be freed; the last file with any takes them all.
LEMMA EvictContentLimit ==
    ASSUME ControlInv, LimitInv, NEW p \in Writer, EvictContent(p)
    PROVE  LimitInv'
<1>1. /\ writer = p /\ writer' = p /\ UNCHANGED <<key, val>>
      /\ pc[p] = "evict" /\ pc'[p] = "evictMeta"
  BY SetInside DEF EvictContent, mutex, args, Goto, ExclusiveSteps, ControlInv, TypeOK
<1>2. InFlight = 0 /\ ~Storing /\ InFlight' = 0 /\ ~Storing'
  BY <1>1 DEF InFlight, Storing, WriteSteps
<1>3. PICK k \in Key :
        /\ content[k] # NoFile
        /\ content' = Remove(content, k)
        /\ freed' = freed + LenAt(content, k)
        /\ size' = size - LenAt(content, k)
        /\ items' = items - 1
  BY DEF EvictContent, Oldest, Present, LenAt
<1>4. /\ Used(content') = Used(content) - LenAt(content, k)
      /\ Cardinality(Present(content')) = Cardinality(Present(content)) - 1
      /\ AtMostOne(content) => AtMostOne(content')
      /\ DiskWithinLimit'
  BY <1>3, LimitTypes, RemoveFile, LimitShrinks DEF LimitInv, DiskWithinLimit
<1>5. LenAt(content, k) \in Nat /\ Used(content') \in Nat
  BY <1>3, LimitTypes, LenAtType, RemoveFile, UsedType, ConstantsAssumption
<1>6. GaugesCoverDisk'
  BY <1>2, <1>3, <1>4, <1>5, LimitTypes DEF LimitInv, GaugesCoverDisk
<1>7. \/ Used(content') + freed' <= MaxSize
      \/ Used(content') = 0
      \/ freed' = 0 /\ AtMostOne(content')
  <2>1. CASE Used(content) + freed <= MaxSize
    BY <1>3, <1>4, <1>5, <2>1, LimitTypes
  <2>2. CASE Used(content) = 0
    BY <1>4, <1>5, <2>2
  <2>3. CASE freed = 0 /\ AtMostOne(content) /\ LenAt(content, k) = 0
    BY <1>3, <1>4, <2>3
  <2>4. CASE AtMostOne(content) /\ LenAt(content, k) > 0
    BY <1>4, <1>5, <2>4, LimitTypes, OneOwner
  <2> QED
    BY <1>1, <1>5, <2>1, <2>2, <2>3, <2>4 DEF LimitInv, RoomInv
<1>8. RoomInv'
  BY <1>1, <1>7 DEF RoomInv, WriteSteps
<1> QED
  BY <1>4, <1>6, <1>8 DEF LimitInv

\* Eviction ends with room for the file, or with nothing left to evict.
LEMMA EvictDoneLimit ==
    ASSUME ControlInv, LimitInv, NEW p \in Writer, EvictDone(p)
    PROVE  LimitInv'
<1>1. /\ writer = p /\ writer' = p /\ UNCHANGED <<content, size, items, key, val>>
      /\ pc[p] = "evict" /\ pc'[p] = "truncate"
      /\ Len[val[p]] \in Nat
  BY SetInside, ConstantsAssumption
  DEF EvictDone, disk, gauges, mutex, args, Goto, ExclusiveSteps, ControlInv, TypeOK
<1>2. InFlight = 0 /\ ~Storing /\ InFlight' = 0 /\ ~Storing'
  BY <1>1 DEF InFlight, Storing, WriteSteps
<1>3. GaugesCoverDisk' /\ DiskWithinLimit'
  BY <1>1, <1>2 DEF LimitInv, GaugesCoverDisk, DiskWithinLimit
<1>4. \/ Used(content) + Len[val[p]] <= MaxSize
      \/ Used(content) = 0
      \/ Len[val[p]] = 0 /\ AtMostOne(content)
  <2>1. CASE Present(content) = {}
    BY <2>1, LimitTypes, NoBytes DEF Present, LenAt
  <2>2. CASE freed >= Len[val[p]]
    BY <1>1, <2>2, LimitTypes DEF LimitInv, RoomInv
  <2> QED
    BY <1>1, <2>1, <2>2, LimitTypes DEF EvictDone, KeepsEvicting
<1>5. RoomInv'
  BY <1>1, <1>4 DEF RoomInv, WriteSteps
<1> QED
  BY <1>3, <1>5 DEF LimitInv

\* From here on the file is the Set's own: its bytes are in flight.
LEMMA SetTruncateLimit ==
    ASSUME ControlInv, LimitInv, NEW p \in Writer, SetTruncate(p)
    PROVE  LimitInv'
<1> DEFINE k == key[p]
           n == Len[val[p]]
<1>1. /\ writer = p /\ writer' = p /\ UNCHANGED <<size, items, key, val>>
      /\ pc[p] = "truncate" /\ pc'[p] \in WriteSteps
      /\ k \in Key /\ val[p] \in Value /\ n \in Nat
  BY SetInside, ConstantsAssumption
  DEF SetTruncate, gauges, mutex, args, Goto, ExclusiveSteps, WriteSteps, ControlInv, TypeOK
<1>2. InFlight = 0 /\ ~Storing
  BY <1>1 DEF InFlight, Storing, WriteSteps
<1>3. content' = Put(content, k, val[p], 0) /\ 0 \in 0 .. MaxLen
  BY ConstantsAssumption DEF SetTruncate
<1>4. /\ LenAt(content', k) = 0
      /\ \A j \in Key : j # k => LenAt(content', j) = LenAt(content, j)
      /\ Used(content') = Used(content) - LenAt(content, k)
      /\ Cardinality(Present(content')) <= Cardinality(Present(content)) + 1
  BY <1>1, <1>3, LimitTypes, LenAtType, UsedType, PutFile, ConstantsAssumption
<1>5. /\ LenAt(content, k) \in Nat
      /\ Used(content') \in Nat
      /\ Cardinality(Present(content')) \in Nat
  BY <1>1, <1>3, LimitTypes, LenAtType, PutFile, UsedType, PresentFinite, ConstantsAssumption
<1>6. Storing' /\ InFlight' = 0
  BY <1>1, <1>4 DEF InFlight, Storing
<1> HIDE DEF k, n
<1>7. AtMostOne(content) => AtMostOne(content')
  BY <1>4 DEF AtMostOne
<1>8. GaugesCoverDisk'
  BY <1>1, <1>2, <1>4, <1>5, <1>6, LimitTypes DEF LimitInv, GaugesCoverDisk
<1>9. DiskWithinLimit'
  BY <1>4, <1>5, <1>7, LimitTypes DEF LimitInv, DiskWithinLimit
<1>10. \/ Used(content') - 0 + n <= MaxSize
       \/ Used(content') = 0
       \/ n = 0 /\ AtMostOne(content')
  <2>1. \/ Used(content) + n <= MaxSize
        \/ Used(content) = 0
        \/ n = 0 /\ AtMostOne(content)
    BY <1>1 DEF n, LimitInv, RoomInv
  <2> QED
    BY <1>1, <1>4, <1>5, <1>7, <2>1, LimitTypes
<1>11. RoomInv'
  BY <1>1, <1>6, <1>10 DEF RoomInv, n, WriteSteps
<1> QED
  BY <1>8, <1>9, <1>11 DEF LimitInv

\* Each write adds to the bytes in flight and to nothing else.
LEMMA SetWriteLimit ==
    ASSUME ControlInv, LimitInv, NEW p \in Writer, SetWrite(p)
    PROVE  LimitInv'
<1> DEFINE k == key[p]
           n == Len[val[p]]
<1>1. /\ writer = p /\ writer' = p /\ UNCHANGED <<size, items, key, val>>
      /\ pc[p] \in WriteSteps /\ pc'[p] \in WriteSteps
      /\ k \in Key /\ val[p] \in Value /\ n \in 0 .. MaxLen
      /\ InFlight = LenAt(content, k)
  BY SetInside
  DEF SetWrite, gauges, mutex, args, Goto, ExclusiveSteps, WriteSteps, ControlInv, TypeOK
<1>2. Storing /\ content[k] # NoFile
  BY <1>1 DEF Storing, ControlInv, StoreInv
<1>3. PICK m \in (content[k].len + 1) .. n : content' = Put(content, k, val[p], m)
  BY <1>2 DEF SetWrite, LenAt
<1>4. m \in 1 .. n /\ m \in 0 .. MaxLen /\ MaxLen \in Nat
  BY <1>1, <1>2, <1>3, LimitTypes, ConstantsAssumption DEF Disk, File
<1>5. /\ LenAt(content', k) = m
      /\ \A j \in Key : j # k => LenAt(content', j) = LenAt(content, j)
      /\ Used(content') = Used(content) - LenAt(content, k) + m
      /\ Cardinality(Present(content')) = Cardinality(Present(content))
      /\ content' \in Disk
  BY <1>1, <1>2, <1>3, <1>4, LimitTypes, PutFile
<1>6. LenAt(content, k) \in Nat /\ Used(content') \in Nat
  BY <1>1, <1>5, LimitTypes, LenAtType, UsedType
<1>7. Storing' /\ InFlight' = m
  BY <1>1, <1>5 DEF InFlight, Storing
<1> HIDE DEF k, n
<1>8. GaugesCoverDisk'
  BY <1>1, <1>2, <1>4, <1>5, <1>6, <1>7, LimitTypes DEF LimitInv, GaugesCoverDisk
<1>9. \/ Used(content) - LenAt(content, k) + n <= MaxSize
      \/ Used(content) = LenAt(content, k)
  BY <1>1, <1>4 DEF n, LimitInv, RoomInv
<1>10. \/ Used(content') - m + n <= MaxSize
       \/ Used(content') = m
  BY <1>1, <1>4, <1>5, <1>6, <1>9, LimitTypes
<1>11. DiskWithinLimit'
  BY <1>1, <1>4, <1>5, <1>6, <1>10, LimitTypes, OneOwner DEF DiskWithinLimit
<1>12. RoomInv'
  BY <1>1, <1>7, <1>10 DEF RoomInv, n, WriteSteps
<1> QED
  BY <1>8, <1>11, <1>12 DEF LimitInv

\* Counting the file moves its bytes from in flight to the gauge.
LEMMA SetCountLimit ==
    ASSUME ControlInv, LimitInv, NEW p \in Writer, SetCount(p)
    PROVE  LimitInv'
<1>1. /\ writer = p /\ writer' = NoProc /\ content' = content
      /\ size' = size + Len[val[p]] /\ items' = items + 1
      /\ pc[p] = "count" /\ Storing /\ key[p] \in Key
      /\ InFlight = LenAt(content, key[p]) /\ Len[val[p]] \in Nat
  BY SetInside, ConstantsAssumption DEF SetCount, Unlock, disk, ExclusiveSteps, WriteSteps
<1>2. LenAt(content, key[p]) = Len[val[p]]
  BY <1>1 DEF LenAt, ControlInv, StoreInv
<1>3. writer' \notin Writer
  BY <1>1, DistinctAssumption DEF Proc, Caller
<1>4. Used(content') <= size' /\ Cardinality(Present(content')) <= items'
  BY <1>1, <1>2, LimitTypes DEF LimitInv, GaugesCoverDisk
<1>5. DiskWithinLimit'
  BY <1>1 DEF LimitInv, DiskWithinLimit
<1> QED
  BY <1>1, <1>3, <1>4, <1>5, LimitTypes, LimitOutside

LEMMA SetLimit ==
    ASSUME ControlInv, LimitInv, ~CanFail, NEW p \in Writer,
           Set(p) \/ \E k \in Key, v \in Value : CallSet(p, k, v)
    PROVE  LimitInv'
<1>1. ASSUME NEW k \in Key, NEW v \in Value, CallSet(p, k, v)
      PROVE  LimitInv'
  <2>1. UNCHANGED <<content, size, items, freed, writer>>
    BY <1>1 DEF CallSet, disk, gauges, mutex, sweep
  <2>2. \A w \in Writer : w # p => UNCHANGED <<pc[w], key[w], val[w]>>
    BY <1>1 DEF CallSet, Goto, ControlInv, TypeOK, Proc, Caller
  <2>3. writer # p
    BY <1>1 DEF CallSet, ControlInv, MutexInv, ExclusiveSteps, WriteSteps, Proc, Caller
  <2> QED
    BY <2>1, <2>2, <2>3, LimitKept
<1>2. CASE EvictMeta(p)
  BY <1>2, SetInside
  DEF EvictMeta, gauges, mutex, args, Goto, ExclusiveSteps, WriteSteps, ControlInv, TypeOK,
      LimitInv, GaugesCoverDisk, DiskWithinLimit, RoomInv, InFlight, Storing
<1>3. CASE SetMetaTruncate(p) \/ SetMetaWrite(p)
  <2>1. /\ writer = p /\ UNCHANGED <<content, size, items, freed, writer, key, val>>
        /\ pc[p] \in WriteSteps /\ pc'[p] \in WriteSteps
    BY <1>3, SetInside
    DEF SetMetaTruncate, SetMetaWrite, gauges, mutex, args, sweep, Goto, ExclusiveSteps,
        WriteSteps, ControlInv, TypeOK
  <2> QED
    BY <2>1
    DEF LimitInv, GaugesCoverDisk, DiskWithinLimit, RoomInv, InFlight, Storing, WriteSteps
<1> QED
  BY <1>1, <1>2, <1>3, SetLockLimit, EvictContentLimit, EvictDoneLimit, SetTruncateLimit,
     SetWriteLimit, SetCountLimit DEF Set, SetWriteFails, SetMetaFails

\* A step of a goroutine that is no Set and removes at most one file, while no
\* Set is in the mutex, taking no more from the gauges than that file.
LEMMA LimitRemoves ==
    ASSUME ControlInv, LimitInv, writer \notin Writer, writer' \notin Writer,
           NEW k \in Key, content' = Remove(content, k),
           \/ size' = size
           \/ size' = size - LenAt(content, k),
           \/ items' = items
           \/ items' = items - 1 /\ content[k] # NoFile
    PROVE  LimitInv'
<1>1. InFlight = 0 /\ ~Storing
  BY DEF InFlight, Storing
<1>2. /\ Used(content') = Used(content) - LenAt(content, k)
      /\ Cardinality(Present(content')) =
           Cardinality(Present(content)) - (IF content[k] = NoFile THEN 0 ELSE 1)
      /\ content' \in Disk
  BY LimitTypes, RemoveFile
<1>3. LenAt(content, k) \in Nat
  BY LimitTypes, LenAtType, ConstantsAssumption
<1>4. DiskWithinLimit'
  BY LimitTypes, LimitShrinks DEF LimitInv, DiskWithinLimit
<1>5. Used(content') <= size' /\ Cardinality(Present(content')) <= items'
  BY <1>1, <1>2, <1>3, LimitTypes DEF LimitInv, GaugesCoverDisk
<1> QED
  BY <1>3, <1>4, <1>5, LimitTypes, LimitOutside

\* A step that moves the mutex between nobody and somebody who is no Set.
LEMMA LimitMoves ==
    ASSUME ControlInv, LimitInv, writer \notin Writer, writer' \notin Writer,
           UNCHANGED <<content, size, items>>
    PROVE  LimitInv'
<1>1. InFlight = 0 /\ ~Storing
  BY DEF InFlight, Storing
<1>2. DiskWithinLimit'
  BY DEF LimitInv, DiskWithinLimit
<1>3. Used(content') <= size' /\ Cardinality(Present(content')) <= items'
  BY <1>1, LimitTypes DEF LimitInv, GaugesCoverDisk
<1> QED
  BY <1>2, <1>3, LimitTypes, LimitOutside

LEMMA AdminLimit ==
    ASSUME ControlInv, LimitInv, NEW p \in Admin,
           Administer(p) \/ CallClear(p) \/ \E k \in Key : CallDelete(p, k)
    PROVE  LimitInv'
<1>1. p \in Proc /\ p \notin Writer /\ NoProc \notin Writer /\ \A w \in Writer : w \in Caller /\ w \in Proc
  BY DistinctAssumption DEF Proc, Caller
<1>2. CASE CallClear(p) \/ \E k \in Key : CallDelete(p, k)
  BY <1>1, <1>2, LimitKept
  DEF CallClear, CallDelete, disk, gauges, mutex, args, sweep, Goto, ControlInv, TypeOK
<1>3. CASE DeleteLock(p) \/ ClearLock(p)
  BY <1>1, <1>3, LimitMoves DEF DeleteLock, ClearLock, Lock, disk, gauges
<1>4. pc[p] \in {"delContent", "delMeta", "clear"} => writer = p
  BY <1>1 DEF ControlInv, MutexInv, ExclusiveSteps
<1>5. CASE DeleteContent(p)
  <2>1. key[p] \in Key /\ writer = p /\ writer' = p
    BY <1>4, <1>5 DEF DeleteContent, mutex, ControlInv, ArgsInv
  <2> QED
    BY <1>1, <1>5, <2>1, LimitRemoves DEF DeleteContent
<1>6. CASE DeleteMeta(p)
  BY <1>1, <1>4, <1>6, LimitMoves DEF DeleteMeta, Unlock, gauges
<1>7. CASE ClearRemove(p)
  <2>1. writer = p /\ writer' = p /\ UNCHANGED <<size, items>>
    BY <1>4, <1>7 DEF ClearRemove, mutex, gauges
  <2>2. content' = content \/ \E k \in Key : content' = Remove(content, k)
    BY <1>7 DEF ClearRemove
  <2> QED
    BY <1>1, <2>1, <2>2, LimitMoves, LimitRemoves
<1>8. CASE ClearReset(p)
  <2>1. Used(content) = 0
    BY <1>8, LimitTypes, NoBytes DEF ClearReset, LenAt
  <2>2. Cardinality(Present(content)) = 0
    BY <1>8, FS_EmptySet DEF ClearReset, Present
  <2>3. content' = content /\ size' = 0 /\ items' = 0 /\ writer' \notin Writer
    BY <1>1, <1>8 DEF ClearReset, Unlock, disk
  <2> QED
    BY <2>1, <2>2, <2>3, LimitTypes, LimitOutside DEF DiskWithinLimit
<1> QED
  BY <1>2, <1>3, <1>5, <1>6, <1>7, <1>8 DEF Administer

LEMMA JanitorLimit ==
    ASSUME ControlInv, LimitInv, CleanupTick \/ Cleanup \/ CleanupStop \/ CloseStart \/ CloseReturn
    PROVE  LimitInv'
<1>1. /\ Janitor \in Proc /\ Janitor \notin Writer /\ NoProc \notin Writer
      /\ \A w \in Writer : w \in Proc
  BY DistinctAssumption DEF Proc, Caller
<1>2. CASE CleanupTick \/ CleanupStop \/ CloseStart \/ CloseReturn
  BY <1>1, <1>2, LimitKept
  DEF CleanupTick, CleanupStop, CloseStart, CloseReturn, disk, gauges, mutex, args, sweep,
      Goto, ControlInv, TypeOK
<1>3. CASE CleanupLock
  BY <1>1, <1>3, LimitMoves DEF CleanupLock, Lock, disk, gauges
<1>4. pc[Janitor] \in {"sweep", "sweepMeta"} => writer = Janitor
  BY <1>1 DEF ControlInv, MutexInv, ExclusiveSteps
<1>5. CASE CleanupContent
  <2>1. writer = Janitor /\ writer' = Janitor
    BY <1>4, <1>5 DEF CleanupContent, mutex
  <2>2. PICK k \in todo : /\ content' = Remove(content, k)
                          /\ size' = size - LenAt(content, k)
                          /\ items' = items - 1
    BY <1>5 DEF CleanupContent
  <2>3. k \in Key /\ content[k] # NoFile
    BY <1>5 DEF CleanupContent, ControlInv, SweepInv, Present
  <2> QED
    BY <1>1, <2>1, <2>2, <2>3, LimitRemoves
<1>6. CASE CleanupMeta \/ CleanupUnlock
  BY <1>1, <1>4, <1>6, LimitMoves
  DEF CleanupMeta, CleanupUnlock, Unlock, disk, gauges, mutex
<1> QED
  BY <1>2, <1>3, <1>5, <1>6 DEF Cleanup

LEMMA TickLimit ==
    ASSUME ControlInv, LimitInv, Tick
    PROVE  LimitInv'
<1>1. UNCHANGED <<size, items, writer, pc, key, val, freed>>
  BY DEF Tick, gauges, mutex, args, sweep
<1>2. \A k \in Key : LenAt(content', k) = LenAt(content, k)
  BY LimitTypes, TickAges DEF LenAt
<1>3. Used(content') = Used(content)
  BY <1>2, SameLengths
<1>4. Present(content') = Present(content)
  BY LimitTypes, TickAges DEF Present
<1>5. AtMostOne(content') <=> AtMostOne(content)
  BY <1>2 DEF AtMostOne
<1>6. InFlight' = InFlight /\ (Storing' <=> Storing)
  BY <1>1, <1>2, LimitTypes DEF InFlight, Storing
<1> QED
  BY <1>1, <1>3, <1>4, <1>5, <1>6 DEF LimitInv, GaugesCoverDisk, DiskWithinLimit, RoomInv

LEMMA RestartLimit ==
    ASSUME ControlInv, LimitInv, Restart
    PROVE  LimitInv'
<1>1. /\ content' = content /\ size' = Used(content) /\ items' = Cardinality(Present(content))
      /\ writer' \notin Writer
  BY DistinctAssumption DEF Restart, disk, Proc, Caller
<1>2. DiskWithinLimit'
  BY <1>1 DEF LimitInv, DiskWithinLimit
<1> QED
  BY <1>1, <1>2, LimitTypes, LimitOutside

LEMMA InitLimit == Init => LimitInv
<1> SUFFICES ASSUME Init PROVE LimitInv
  OBVIOUS
<1>1. content \in Disk /\ \A k \in Key : LenAt(content, k) = 0
  BY DEF Init, Disk, LenAt
<1>2. Used(content) = 0
  BY <1>1, NoBytes
<1>3. Cardinality(Present(content)) = 0
  BY FS_EmptySet DEF Init, Present
<1>4. writer \notin Writer
  BY DistinctAssumption DEF Init, Proc, Caller
<1> QED
  BY <1>2, <1>3, <1>4, ConstantsAssumption
  DEF Init, LimitInv, GaugesCoverDisk, RoomInv, DiskWithinLimit, InFlight, Storing

LEMMA NextLimit == ControlInv /\ LimitInv /\ ~CanFail /\ [Next]_vars => LimitInv'
<1> SUFFICES ASSUME ControlInv, LimitInv, ~CanFail, [Next]_vars PROVE LimitInv'
  OBVIOUS
<1>1. CASE UNCHANGED vars
  BY <1>1, LimitKept DEF vars
<1>2. CASE Next
  BY <1>2, GetLimit, SetLimit, AdminLimit, JanitorLimit, TickLimit, RestartLimit DEF Next
<1> QED
  BY <1>1, <1>2

LEMMA LimitCorrect == ~CanFail => (Spec => []LimitInv)
<1> SUFFICES ASSUME ~CanFail PROVE Spec => []LimitInv
  OBVIOUS
<1>1. Init => LimitInv
  BY InitLimit
<1>2. ControlInv /\ LimitInv /\ [Next]_vars => LimitInv'
  BY NextLimit
<1> QED
  BY <1>1, <1>2, ControlCorrect, PTL DEF Spec

\* As long as no write fails, and through any crash, the gauges never stand below
\* what is on disk and not in flight.
THEOREM GaugesCorrect == ~CanFail => (Spec => []GaugesCoverDisk)
<1>1. LimitInv => GaugesCoverDisk
  BY DEF LimitInv
<1> QED
  BY <1>1, LimitCorrect, PTL

\* As long as no write fails, and through any crash, the contents on disk never
\* exceed maxSize, but for one content that is larger by itself.
THEOREM LimitHolds == ~CanFail => (Spec => []DiskWithinLimit)
<1>1. LimitInv => DiskWithinLimit
  BY DEF LimitInv
<1> QED
  BY <1>1, LimitCorrect, PTL
=============================================================================
