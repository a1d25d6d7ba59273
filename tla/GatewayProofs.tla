---------------------------- MODULE GatewayProofs ----------------------------
(***************************************************************************)
(* Theorems about Gateway for every set of chains, transactions, keys,     *)
(* handlers and background Sets.                                           *)
(***************************************************************************)
EXTENDS Gateway, FiniteSetTheorems, TLAPS

LEMMA KeyTypes ==
    /\ \A f \in File : KeyOf(f) \in CacheKeys /\ Source(f) \in Chain \X Txid \X Evk
    /\ \A r \in Request : Validate(r) =>
          /\ r.chain \in Chain /\ r.txid \in Txid /\ r.evk \in Evk \cup {None}
          /\ r.name \in Name \cup {None}
          /\ CacheKey(r) \in CacheKeys
BY ConstantsAssumption
   DEF File, KeyOf, Source, CacheKeys, Validate, AnyRequest, CacheKey

LEMMA OpenedTypes ==
    ASSUME NEW f, NEW k, Opened(f), KeyOf(f) = k
    PROVE  f \in File /\ f # NoValue /\ k \in CacheKeys /\ k # NoKey
BY KeyTypes, ConstantsAssumption DEF Opened

LEMMA GenuineTypes ==
    ASSUME NEW f, NEW k, GenuineFor(f, k)
    PROVE  f \in File /\ f # NoValue /\ k \in CacheKeys /\ k # NoKey
BY OpenedTypes DEF GenuineFor, Genuine

-----------------------------------------------------------------------------
(* The decompressor: Copy and Total are recursive functions over the pieces *)

\* Induction over the natural numbers, for a set T of them: were a k left out,
\* n |-> n + 1 would map the finite set of the n \in T below k into itself
\* without 0, two of them to the same number.
LEMMA SetInduction ==
    ASSUME NEW T \in SUBSET Nat, 0 \in T, \A n \in T : n + 1 \in T
    PROVE  T = Nat
<1> SUFFICES ASSUME NEW k \in Nat, k \notin T PROVE FALSE
  OBVIOUS
<1> DEFINE A == {n \in T : n < k}
           B == A \ {0}
           succ == [n \in A |-> n + 1]
<1>1. /\ \A n \in A : n \in Nat /\ n \in T /\ n < k
      /\ 0 \in A
  BY k # 0
<1>2. \A n \in A : n + 1 \in B
  BY <1>1
<1>3. succ \in [A -> B] /\ \A n \in A : succ[n] = n + 1
  BY <1>2
<1>4. A \subseteq 0 .. k
  <2>1. \A n \in A : n \in 0 .. k
    BY <1>1
  <2> QED
    BY <2>1
<1> HIDE DEF A, succ
<1>5. IsFiniteSet(A)
  <2>1. IsFiniteSet(0 .. k)
    BY FS_Interval
  <2> QED
    BY <1>4, <2>1, FS_Subset
<1>6. IsFiniteSet(B) /\ Cardinality(B) = Cardinality(A) - 1 /\ Cardinality(A) \in Nat
  BY <1>1, <1>5, FS_RemoveElement, FS_CardinalityType
<1> HIDE DEF B
<1>7. Cardinality(B) < Cardinality(A)
  BY <1>6, FS_CardinalityType
<1>8. PICK x \in A, y \in A : x # y /\ succ[x] = succ[y]
  BY <1>3, <1>5, <1>6, <1>7, FS_PigeonHole
<1> QED
  BY <1>1, <1>3, <1>8

\* s is the sums of the prefixes of pieces, c what a limitedWriter has become
\* after each of them.
Sums(s, pieces) ==
    s = [i \in 0 .. Len(pieces) |-> IF i = 0 THEN 0 ELSE s[i - 1] + pieces[i]]

Copies(c, pieces) ==
    c = [i \in 0 .. Len(pieces) |->
            IF i = 0 THEN Limited
            ELSE IF c[i - 1].err # "none" THEN c[i - 1]
            ELSE Write(c[i - 1], pieces[i])]

\* A limitedWriter that was given n bytes in all.
WriterAfter(n) ==
    IF n < MaxUnpacked THEN [out |-> n, left |-> MaxUnpacked - n, err |-> "none"]
    ELSE [out |-> MaxUnpacked, left |-> 0, err |-> "limit"]

LEMMA TotalIsSum ==
    ASSUME NEW pieces, NEW s, Sums(s, pieces)
    PROVE  Sums(CHOOSE t : Sums(t, pieces), pieces) /\ Total(pieces) = (CHOOSE t : Sums(t, pieces))[Len(pieces)]
BY DEF Sums, Total

LEMMA CopyIsCopies ==
    ASSUME NEW pieces, NEW s, Copies(s, pieces)
    PROVE  Copies(CHOOSE t : Copies(t, pieces), pieces) /\ Copy(pieces) = (CHOOSE t : Copies(t, pieces))[Len(pieces)]
BY DEF Copies, Copy

\* The sums of the prefixes exist.
LEMMA SumsExist ==
    ASSUME NEW pieces \in Seq(Nat)
    PROVE  \E s \in [0 .. Len(pieces) -> Nat] : Sums(s, pieces)
<1> DEFINE Upto(n, s) == s[0] = 0 /\ \A i \in 1 .. n : s[i] = s[i - 1] + pieces[i]
           Reached(n) == \E s \in [0 .. n -> Nat] : Upto(n, s)
           T == {n \in Nat : n <= Len(pieces) => Reached(n)}
<1>1. Len(pieces) \in Nat /\ \A i \in 1 .. Len(pieces) : pieces[i] \in Nat
  OBVIOUS
<1>2. 0 \in T
  <2>1. [i \in 0 .. 0 |-> 0] \in [0 .. 0 -> Nat] /\ Upto(0, [i \in 0 .. 0 |-> 0])
    OBVIOUS
  <2> QED
    BY <2>1
<1>3. ASSUME NEW n \in Nat, n + 1 <= Len(pieces), Reached(n)
      PROVE  Reached(n + 1)
  <2>1. PICK s \in [0 .. n -> Nat] : Upto(n, s)
    BY <1>3
  <2> DEFINE t == [i \in 0 .. n + 1 |-> IF i = n + 1 THEN s[n] + pieces[n + 1] ELSE s[i]]
  <2>2. t \in [0 .. n + 1 -> Nat]
    BY <1>1, <1>3
  <2>3. t[0] = 0
    BY <2>1
  <2>4. ASSUME NEW i \in 1 .. n + 1 PROVE t[i] = t[i - 1] + pieces[i]
    <3>1. CASE i = n + 1
      BY <3>1
    <3>2. CASE i # n + 1
      BY <2>1, <3>2
    <3> QED
      BY <3>1, <3>2
  <2>5. Upto(n + 1, t)
    BY <2>3, <2>4
  <2> QED
    BY <2>2, <2>5
<1> HIDE DEF Reached
<1>4. \A n \in T : n + 1 \in T
  BY <1>1, <1>3
<1>5. T \in SUBSET Nat
  OBVIOUS
<1> HIDE DEF T
<1>6. T = Nat
  BY <1>2, <1>4, <1>5, SetInduction
<1>7. Reached(Len(pieces))
  BY <1>1, <1>6 DEF T
<1>8. PICK s \in [0 .. Len(pieces) -> Nat] : Upto(Len(pieces), s)
  BY <1>7 DEF Reached
<1> QED
  BY <1>1, <1>8 DEF Sums

\* They are unique, and so is what becomes of the writer.
LEMMA SumsUnique ==
    ASSUME NEW pieces \in Seq(Nat), NEW s, Sums(s, pieces), NEW t, Sums(t, pieces)
    PROVE  s[Len(pieces)] = t[Len(pieces)]
<1> DEFINE T == {n \in Nat : n <= Len(pieces) => s[n] = t[n]}
<1>1. Len(pieces) \in Nat
  OBVIOUS
<1>2. s[0] = 0 /\ t[0] = 0
  BY <1>1 DEF Sums
<1>3. ASSUME NEW i \in 1 .. Len(pieces)
      PROVE  s[i] = s[i - 1] + pieces[i] /\ t[i] = t[i - 1] + pieces[i]
  <2>1. i \in 0 .. Len(pieces) /\ i # 0
    BY <1>1
  <2> QED
    BY <2>1 DEF Sums
<1>4. \A n \in T : n + 1 \in T
  BY <1>1, <1>3
<1>5. T \in SUBSET Nat /\ 0 \in T
  BY <1>2
<1> HIDE DEF T
<1>6. T = Nat
  BY <1>4, <1>5, SetInduction
<1> QED
  BY <1>1, <1>6 DEF T

LEMMA CopiesUnique ==
    ASSUME NEW pieces \in Seq(Nat), NEW b, Copies(b, pieces), NEW c, Copies(c, pieces)
    PROVE  b[Len(pieces)] = c[Len(pieces)]
<1> DEFINE T == {n \in Nat : n <= Len(pieces) => b[n] = c[n]}
           Given(w, n) == IF w.err # "none" THEN w ELSE Write(w, n)
<1>1. Len(pieces) \in Nat
  OBVIOUS
<1>2. b[0] = Limited /\ c[0] = Limited
  BY <1>1 DEF Copies
<1>3. ASSUME NEW i \in 1 .. Len(pieces)
      PROVE  b[i] = Given(b[i - 1], pieces[i]) /\ c[i] = Given(c[i - 1], pieces[i])
  <2>1. i \in 0 .. Len(pieces) /\ i # 0
    BY <1>1
  <2> QED
    BY <2>1 DEF Copies
<1> HIDE DEF Given
<1>4. \A n \in T : n + 1 \in T
  BY <1>1, <1>3
<1>5. T \in SUBSET Nat /\ 0 \in T
  BY <1>2
<1> HIDE DEF T
<1>6. T = Nat
  BY <1>4, <1>5, SetInduction
<1> QED
  BY <1>1, <1>6 DEF T

\* However the reader cuts its output into pieces, the writer ends as if it had
\* been given one.
LEMMA CopyIsTotal ==
    ASSUME NEW pieces \in Seq(Nat)
    PROVE  Total(pieces) \in Nat /\ Copy(pieces) = WriterAfter(Total(pieces))
<1>1. PICK s \in [0 .. Len(pieces) -> Nat] : Sums(s, pieces)
  BY SumsExist
<1>2. Len(pieces) \in Nat /\ \A i \in 1 .. Len(pieces) : pieces[i] \in Nat
  OBVIOUS
<1>3. s[0] = 0 /\ \A i \in 1 .. Len(pieces) : s[i] = s[i - 1] + pieces[i]
  BY <1>1, <1>2 DEF Sums
<1>4. Total(pieces) = s[Len(pieces)]
  BY <1>1, TotalIsSum, SumsUnique
<1> DEFINE c == [i \in 0 .. Len(pieces) |-> WriterAfter(s[i])]
<1>5. Copies(c, pieces)
  <2> SUFFICES ASSUME NEW i \in 0 .. Len(pieces)
               PROVE  c[i] = IF i = 0 THEN Limited
                             ELSE IF c[i - 1].err # "none" THEN c[i - 1]
                             ELSE Write(c[i - 1], pieces[i])
    BY DEF Copies
  <2>1. CASE i = 0
    BY <1>2, <1>3, <2>1, LimitAssumption DEF WriterAfter, Limited
  <2>2. CASE i # 0
    <3>1. i \in 1 .. Len(pieces) /\ i - 1 \in 0 .. Len(pieces)
      BY <1>2, <2>2
    <3>2. s[i] = s[i - 1] + pieces[i] /\ s[i] \in Nat /\ s[i - 1] \in Nat /\ pieces[i] \in Nat
      BY <1>1, <1>2, <1>3, <3>1
    <3>3. c[i] = WriterAfter(s[i]) /\ c[i - 1] = WriterAfter(s[i - 1])
      BY <3>1
    <3> HIDE DEF c
    <3>4. CASE s[i - 1] < MaxUnpacked
      BY <2>2, <3>2, <3>3, <3>4, LimitAssumption DEF WriterAfter, Write
    <3>5. CASE ~(s[i - 1] < MaxUnpacked)
      BY <2>2, <3>2, <3>3, <3>5, LimitAssumption DEF WriterAfter
    <3> QED
      BY <3>4, <3>5
  <2> QED
    BY <2>1, <2>2
<1>6. c[Len(pieces)] = WriterAfter(s[Len(pieces)])
  BY <1>2
<1> HIDE DEF c
<1>7. Copy(pieces) = c[Len(pieces)]
  BY <1>5, CopyIsCopies, CopiesUnique
<1> QED
  BY <1>1, <1>2, <1>4, <1>6, <1>7

-----------------------------------------------------------------------------
(* Files on their way *)

\* The size of a content is a number, and it is gzip data or not.
LEMMA ContentTypes ==
    \A c \in Contents : c.size \in Nat /\ c.gzip \in BOOLEAN
<1> SUFFICES ASSUME NEW ct \in Chain \X Txid
             PROVE  /\ Decompress(Packing[ct]).size \in Nat
                    /\ Decompress(Packing[ct]).gzip \in BOOLEAN
  BY DEF Contents
<1> DEFINE d == Packing[ct]
<1>1. d \in Data(Nat, Seq(Nat \ {0}))
  BY DataAssumption
<1> HIDE DEF d
<1>2. d.size \in Nat /\ d.gzip \in BOOLEAN /\ d.inner \in BOOLEAN /\ d.pieces \in Seq(Nat)
  BY <1>1 DEF Data
<1>3. Copy(d.pieces).out \in Nat
  BY <1>2, CopyIsTotal, LimitAssumption DEF WriterAfter
<1>4. Decompress(d).size \in Nat /\ Decompress(d).gzip \in BOOLEAN
  BY <1>2, <1>3 DEF Decompress, Packed, Unpacked
<1> QED
  BY <1>4 DEF d

\* What the cache keeps of a genuine file is genuine, under the same key.
LEMMA StoredGenuine ==
    ASSUME NEW f, NEW k, GenuineFor(f, k)
    PROVE  StoredFor(Stored(f), k)
BY DEF StoredFor, GenuineFor, Genuine, Opened, Stored, File, Source, KeyOf

\* What a Get finds is what was stored, with its metadata or bare.
LEMMA FoundAnswers ==
    ASSUME NEW a, NEW k, StoredFor(a.val, k), a.meta \in {a.val, NoValue}
    PROVE  AnswerFor(Found(a), k, None)
<1> DEFINE v == a.val
           f == Found(a)
<1>1. v \in File /\ v # NoValue /\ v.tag = None
  BY GenuineTypes DEF StoredFor
<1>2. CASE a.meta = v
  <2>1. f = v
    BY <1>1, <1>2 DEF Found, File
  <2> QED
    BY <2>1 DEF StoredFor, GenuineFor, Genuine, AnswerFor
<1>3. CASE a.meta = NoValue
  <2>1. f = [v EXCEPT !.meta = NoMetadata] /\ NoMetadata \in Metadata
    BY <1>3 DEF Found, NoMetadata, OnlyName, Metadata
  <2>4. Opened(v) /\ KeyOf(v) = k
    BY DEF StoredFor, GenuineFor, Genuine
  <2> HIDE DEF v, f
  <2>5. f \in File /\ f.meta = NoMetadata
        /\ f.chain = v.chain /\ f.txid = v.txid /\ f.evk = v.evk /\ f.content = v.content /\ f.tag = v.tag
    BY <1>1, <2>1 DEF File
  <2>2. Opened(f) /\ KeyOf(f) = k /\ f.tag = None /\ f.meta = NoMetadata
    BY <1>1, <2>4, <2>5 DEF Opened, Source, KeyOf
  <2>3. BareHit(f, None)
    BY <2>2 DEF BareHit, NoMetadata
  <2> QED
    BY <2>2, <2>3 DEF AnswerFor, f
<1> QED
  BY <1>2, <1>3

\* Naming a file changes neither what it is nor what else is said of it.
LEMMA NamedAnswers ==
    ASSUME NEW f, NEW k, AnswerFor(f, k, None), NEW r \in Request, Validate(r)
    PROVE  AnswerFor(Named(f, r), k, r.name)
<1>1. r.name \in Name \cup {None} /\ f \in File /\ f.meta \in Metadata
  BY KeyTypes DEF AnswerFor, Opened, File
<1>2. CASE f.meta.name # None
  <2>1. Named(f, r) = f /\ Describes(f.meta, f.content)
    BY <1>2 DEF Named, AnswerFor, BareHit, OnlyName
  <2> QED
    BY <2>1 DEF AnswerFor
<1>3. CASE f.meta.name = None
  <2> DEFINE m == [f.meta EXCEPT !.name = r.name]
             g == [f EXCEPT !.meta = m]
  <2>1. Named(f, r) = g
    BY <1>1, <1>3 DEF Named, File
  <2>2. m \in Metadata /\ m.size = f.meta.size /\ m.compressed = f.meta.compressed
    BY <1>1 DEF Metadata
  <2>3. Opened(g) /\ KeyOf(g) = k /\ g.meta = m /\ g.content = f.content /\ g.tag = f.tag
    BY <1>1, <2>2 DEF AnswerFor, Opened, File, Source, KeyOf
  <2>4. Describes(f.meta, f.content) => Describes(g.meta, g.content)
    BY <2>2, <2>3 DEF Describes
  <2>5. ASSUME BareHit(f, None) PROVE BareHit(g, r.name)
    <3>1. f.meta = OnlyName(None)
      BY <2>5 DEF BareHit
    <3>2. m = OnlyName(r.name)
      <4>1. f.meta = [name |-> None, size |-> 0, compressed |-> FALSE]
        BY <3>1 DEF OnlyName
      <4>2. \A b : f.meta = [name |-> None, size |-> 0, compressed |-> b] =>
                   m = [name |-> r.name, size |-> 0, compressed |-> b]
        OBVIOUS
      <4>3. m = [name |-> r.name, size |-> 0, compressed |-> FALSE]
        BY <4>1, <4>2, Zenon
      <4> QED
        BY <4>3 DEF OnlyName
    <3> QED
      BY <2>3, <2>5, <3>2 DEF BareHit
  <2> QED
    BY <2>1, <2>3, <2>4, <2>5 DEF AnswerFor
<1> QED
  BY <1>2, <1>3

\* A file that has the name of the request keeps it.
LEMMA NamedSame ==
    ASSUME NEW f \in File, NEW r, f.meta.name = r.name
    PROVE  Named(f, r) = f
BY DEF Named, File, Metadata

\* What a daemon decrypted for a valid request is genuine, under its key.
LEMMA NewFileGenuine ==
    ASSUME NEW r \in Request, Validate(r), r.evk \in LowerEvk, Source(r) \in Readable
    PROVE  /\ GenuineFor(NewFile(r), CacheKey(r))
           /\ NewFile(r).meta.name = r.name
<1> DEFINE content == Decompress(Packing[<<r.chain, r.txid>>])
           meta == DetectType(content, r.name)
<1>1. content \in Contents
  BY KeyTypes DEF Contents
<1>2. r.evk \in Evk /\ r.evk # None
  BY ConstantsAssumption
<1>3. NewFile(r) = MakeFile(r, content, meta)
  BY DEF NewFile
<1>4. meta \in Metadata /\ meta.name = r.name /\ Describes(meta, content)
  BY <1>1, ContentTypes, KeyTypes DEF DetectType, Metadata, Describes
<1> HIDE DEF meta
<1>5. MakeFile(r, content, meta) \in File
  <2> HIDE DEF content
  <2>1. r.chain \in Chain /\ r.txid \in Txid
    BY KeyTypes
  <2> QED
    BY <1>1, <1>2, <1>4, <2>1 DEF MakeFile, File
<1> DEFINE f == MakeFile(r, content, meta)
<1> HIDE DEF content
<1>6. /\ f.chain = r.chain /\ f.txid = r.txid /\ f.evk = r.evk
      /\ f.content = content /\ f.meta = meta
  BY DEF MakeFile
<1> HIDE DEF f
<1>7. Source(f) \in Readable
  BY <1>6 DEF Source
<1>8. f.content = Decompress(Packing[<<f.chain, f.txid>>])
  BY <1>6 DEF content
<1>9. KeyOf(f) = CacheKey(r)
  BY <1>2, <1>6 DEF KeyOf, CacheKey
<1> QED
  BY <1>3, <1>4, <1>5, <1>6, <1>7, <1>8, <1>9 DEF f, GenuineFor, Genuine, Opened

-----------------------------------------------------------------------------
LEMMA InitPath == Init => PathInv
<1> SUFFICES ASSUME Init PROVE PathInv
  OBVIOUS
<1> USE ConstantsAssumption
<1>1. (CHOOSE r \in Request : TRUE) \in Request
  OBVIOUS
<1>2. \A f \in Kept : Genuine(f) /\ f \in File
  BY DataAssumption DEF Genuine, Opened
<1>3. TypeOK
  BY <1>1, <1>2 DEF Init, TypeOK, NoJob, NoReply, C!NoSet, C!Undecided, C!Nothing
<1>4. CacheInv
  BY <1>2, DataAssumption DEF Init, CacheInv, StoredFor, GenuineFor, NoJob, C!NoSet, C!Undecided
<1>5. HandlerInv
  BY DEF Init, HandlerInv, NoReply
<1>6. SharedInv
  BY DEF Init, SharedInv, NoJob
<1> QED
  BY <1>3, <1>4, <1>5, <1>6 DEF PathInv

-----------------------------------------------------------------------------
(* One lemma per action *)

LEMMA AcceptStep ==
    ASSUME PathInv, NEW h \in Handler, NEW r \in Request, Accept(h, r), UNCHANGED cacheOn
    PROVE  PathInv'
<1> USE ConstantsAssumption DEF PathInv
<1>1. CASE Rejects(h, r)
  BY <1>1, KeyTypes DEF Rejects, Arrives, TypeOK, CacheInv, HandlerInv, SharedInv, cacheVars, NoReply
<1>2. CASE AsksCache(h, r)
  <2>1. TypeOK'
    <3>1. /\ pc[h] = "idle" /\ CacheKey(r) \in CacheKeys
          /\ pc' = [pc EXCEPT ![h] = "lookup"]
          /\ req' = [req EXCEPT ![h] = r]
          /\ ctx' = [ctx EXCEPT ![h] = "live"]
          /\ reply' = [reply EXCEPT ![h] = NoReply]
          /\ asked' = [asked EXCEPT ![h] = CacheKey(r)]
          /\ UNCHANGED <<store, answer, putting, late, file, job>>
      BY <1>2, KeyTypes DEF AsksCache, Takes, Arrives, C!GetCall, Goto
    <3> QED
      BY <3>1 DEF TypeOK, NoReply
  <2>2. CacheInv'
    <3>1. /\ asked[h] = NoKey
          /\ asked' = [asked EXCEPT ![h] = CacheKey(r)]
          /\ UNCHANGED <<store, answer, putting, late, job>>
      BY <1>2 DEF AsksCache, Takes, Arrives, C!GetCall
    <3>2. \A g \in Handler : answer[g].kind = "hit" => asked'[g] = asked[g]
      <4>1. answer[h].kind # "hit"
        BY <3>1, GenuineTypes DEF CacheInv, StoredFor
      <4> QED
        BY <3>1, <4>1 DEF TypeOK
    <3> QED
      BY <3>1, <3>2 DEF CacheInv
  <2>3. HandlerInv'
    BY <1>2, KeyTypes DEF AsksCache, Takes, Arrives, C!GetCall, Goto, NoReply, TypeOK, CacheInv, HandlerInv
  <2>4. SharedInv'
    <3>1. /\ pc[h] = "idle"
          /\ pc' = [pc EXCEPT ![h] = "lookup"]
          /\ req' = [req EXCEPT ![h] = r]
          /\ UNCHANGED <<file, job>>
      BY <1>2 DEF AsksCache, Takes, Arrives, Goto
    <3> QED
      BY <3>1 DEF SharedInv, TypeOK
  <2> QED
    BY <2>1, <2>2, <2>3, <2>4
<1>3. CASE SkipsCache(h, r)
  <2>1. /\ pc[h] = "idle" /\ Validate(r)
        /\ pc' = [pc EXCEPT ![h] = "client"]
        /\ req' = [req EXCEPT ![h] = r]
        /\ ctx' = [ctx EXCEPT ![h] = "live"]
        /\ reply' = [reply EXCEPT ![h] = NoReply]
        /\ UNCHANGED <<store, asked, answer, putting, late, file, job>>
    BY <1>3 DEF SkipsCache, Takes, Arrives, Goto, cacheVars
  <2>2. TypeOK'
    BY <2>1 DEF TypeOK, NoReply
  <2>3. CacheInv'
    BY <2>1 DEF CacheInv
  <2>4. HandlerInv' /\ SharedInv'
    BY <2>1 DEF HandlerInv, SharedInv, TypeOK, NoReply
  <2> QED
    BY <2>2, <2>3, <2>4
<1> QED
  BY <1>1, <1>2, <1>3 DEF Accept

LEMMA LookupStep ==
    ASSUME PathInv, NEW h \in Handler,
           \/ CacheDecides(h) \/ CacheLosesMetadata(h) \/ CacheLooksAgain(h)
           \/ TakesHit(h) \/ TakesMiss(h),
           UNCHANGED cacheOn
    PROVE  PathInv'
<1> USE ConstantsAssumption DEF PathInv
<1>1. CASE CacheDecides(h)
  <2>1. CASE C!GetHit(h)
    <3>1. /\ asked[h] \in CacheKeys
          /\ StoredFor(store[asked[h]], asked[h])
          /\ answer' = [answer EXCEPT ![h] = C!Hit(store[asked[h]])]
      BY <2>1 DEF C!GetHit, TypeOK, CacheInv
    <3>2. TypeOK'
      BY <1>1, <2>1, <3>1, GenuineTypes DEF StoredFor, CacheDecides, C!GetHit, C!Hit, TypeOK
    <3>3. CacheInv'
      BY <1>1, <2>1, <3>1 DEF CacheDecides, C!GetHit, C!Hit, TypeOK, CacheInv
    <3> QED
      BY <1>1, <2>1, <3>2, <3>3 DEF CacheDecides, C!GetHit, HandlerInv, SharedInv
  <2>2. CASE C!GetNothing(h)
    <3>1. answer' = [answer EXCEPT ![h] = C!Nothing]
      BY <2>2 DEF C!GetNothing
    <3>2. TypeOK'
      BY <1>1, <2>2, <3>1 DEF CacheDecides, C!GetNothing, C!Nothing, TypeOK
    <3>3. CacheInv'
      BY <1>1, <2>2, <3>1 DEF CacheDecides, C!GetNothing, C!Nothing, TypeOK, CacheInv
    <3> QED
      BY <1>1, <2>2, <3>2, <3>3 DEF CacheDecides, C!GetNothing, HandlerInv, SharedInv
  <2> QED
    BY <1>1, <2>1, <2>2 DEF CacheDecides
<1>2. CASE TakesHit(h)
  <2> DEFINE f == Found(answer[h])
             k == CacheKey(req[h])
  <2>1. /\ pc[h] = "lookup" /\ asked[h] = k
        /\ StoredFor(answer[h].val, k) /\ answer[h].meta \in {answer[h].val, NoValue}
    BY <1>2 DEF TakesHit, HandlerInv, CacheInv
  <2>2. AnswerFor(f, k, None)
    BY <2>1, FoundAnswers
  <2>3. f \in File /\ f # NoValue
    BY <2>2, OpenedTypes DEF AnswerFor
  <2>4. /\ pc' = [pc EXCEPT ![h] = "respond"]
        /\ file' = [file EXCEPT ![h] = f]
        /\ asked' = [asked EXCEPT ![h] = NoKey]
        /\ answer' = [answer EXCEPT ![h] = C!Undecided]
        /\ UNCHANGED <<store, putting, late, req, ctx, reply, job>>
    BY <1>2 DEF TakesHit, Goto, C!GetReturn
  <2> HIDE DEF f
  <2>5. TypeOK'
    BY <2>3, <2>4 DEF TypeOK, C!Undecided
  <2>6. CacheInv'
    BY <2>4 DEF TypeOK, CacheInv, C!Undecided
  <2>7. HandlerInv'
    BY <2>1, <2>2, <2>4 DEF TypeOK, HandlerInv
  <2>8. SharedInv'
    BY <2>1, <2>4 DEF TypeOK, SharedInv
  <2> QED
    BY <2>5, <2>6, <2>7, <2>8
<1>3. CASE TakesMiss(h)
  BY <1>3, KeyTypes DEF TakesMiss, C!GetReturn, C!Hit, C!Nothing, C!Undecided, Goto,
     TypeOK, CacheInv, HandlerInv, SharedInv
<1>4. CASE CacheLooksAgain(h)
  <2>1. answer' = [answer EXCEPT ![h] = C!Undecided]
        /\ UNCHANGED <<store, asked, putting, late, pc, req, ctx, file, reply, job>>
    BY <1>4 DEF CacheLooksAgain, C!GetAgain
  <2>2. TypeOK'
    BY <2>1 DEF TypeOK, C!Undecided
  <2>3. CacheInv'
    BY <2>1 DEF C!Undecided, TypeOK, CacheInv
  <2> QED
    BY <2>1, <2>2, <2>3 DEF HandlerInv, SharedInv
<1>5. CASE CacheLosesMetadata(h)
  <2>1. /\ answer[h].kind = "hit"
        /\ answer' = [answer EXCEPT ![h].meta = NoValue]
        /\ UNCHANGED <<store, asked, putting, late, pc, req, ctx, file, reply, job>>
    BY <1>5 DEF CacheLosesMetadata, C!GetLoses
  <2>2. /\ \A g \in Handler : /\ answer'[g].kind = answer[g].kind
                              /\ answer'[g].val = answer[g].val
                              /\ answer'[g].meta \in {answer[g].meta, NoValue}
        /\ answer' \in [Handler -> [kind : {"none", "nothing", "hit"}, val : File \cup {NoValue},
                                   meta : File \cup {NoValue}]]
    <3> DEFINE A == [kind : {"none", "nothing", "hit"}, val : File \cup {NoValue},
                     meta : File \cup {NoValue}]
               a == [answer[h] EXCEPT !.meta = NoValue]
    <3>1. answer \in [Handler -> A]
      BY DEF TypeOK
    <3>2. answer[h] \in A
      BY <3>1
    <3>3. a \in A /\ a.kind = answer[h].kind /\ a.val = answer[h].val /\ a.meta = NoValue
      BY <3>2
    <3>4. answer' = [answer EXCEPT ![h] = a]
      BY <2>1
    <3> HIDE DEF A, a
    <3>5. answer' \in [Handler -> A] /\ \A g \in Handler : answer'[g] = IF g = h THEN a ELSE answer[g]
      BY <3>1, <3>3, <3>4
    <3> QED
      BY <3>3, <3>5 DEF A
  <2>3. TypeOK'
    BY <2>1, <2>2 DEF TypeOK
  <2>4. CacheInv'
    BY <2>1, <2>2 DEF CacheInv
  <2> QED
    BY <2>1, <2>3, <2>4 DEF HandlerInv, SharedInv
<1> QED
  BY <1>1, <1>2, <1>3, <1>4, <1>5

LEMMA DaemonStep ==
    ASSUME PathInv, NEW h \in Handler,
           Refuses(h) \/ CallsDaemon(h) \/ DaemonFails(h) \/ DaemonAnswers(h),
           UNCHANGED cacheOn
    PROVE  PathInv'
<1> USE ConstantsAssumption DEF PathInv
<1>1. CASE Refuses(h)
  BY <1>1, KeyTypes DEF Refuses, Answer, cacheVars, TypeOK, CacheInv, HandlerInv, SharedInv
<1>2. CASE CallsDaemon(h)
  <2>1. CASE ctx[h] = "live"
    <3>1. /\ pc[h] = "client" /\ pc' = [pc EXCEPT ![h] = "rpc"] /\ req[h].evk \in LowerEvk
          /\ UNCHANGED <<store, asked, answer, putting, late, req, ctx, file, reply, job>>
      BY <1>2, <2>1 DEF CallsDaemon, Goto, cacheVars
    <3>2. TypeOK'
      BY <3>1 DEF TypeOK
    <3>3. CacheInv'
      BY <3>1 DEF CacheInv
    <3>4. HandlerInv' /\ SharedInv'
      BY <3>1 DEF HandlerInv, SharedInv, TypeOK
    <3> QED
      BY <3>2, <3>3, <3>4
  <2>2. CASE ctx[h] # "live"
    <3>1. /\ pc[h] = "client" /\ Answer(h, "failed", NoValue)
          /\ UNCHANGED <<store, asked, answer, putting, late, req, job>>
      BY <1>2, <2>2 DEF CallsDaemon, cacheVars
    <3>2. TypeOK'
      BY <3>1 DEF Answer, TypeOK
    <3>3. CacheInv'
      BY <3>1 DEF CacheInv
    <3>4. HandlerInv' /\ SharedInv'
      BY <3>1 DEF Answer, HandlerInv, SharedInv, TypeOK
    <3> QED
      BY <3>2, <3>3, <3>4
  <2> QED
    BY <2>1, <2>2
<1>3. CASE DaemonFails(h)
  BY <1>3, KeyTypes DEF DaemonFails, Answer, cacheVars, TypeOK, CacheInv, HandlerInv, SharedInv
<1>4. CASE DaemonAnswers(h)
  <2> DEFINE f == NewFile(req[h])
             k == CacheKey(req[h])
  <2>1. req[h] \in Request /\ Validate(req[h]) /\ req[h].evk \in LowerEvk /\ Source(req[h]) \in Readable
    BY <1>4 DEF DaemonAnswers, TypeOK, HandlerInv
  <2>2. GenuineFor(f, k) /\ f.meta.name = req[h].name
    BY <2>1, NewFileGenuine
  <2>3. f \in File /\ f # NoValue /\ k \in CacheKeys
    BY <2>2, GenuineTypes
  <2>4. /\ pc[h] = "rpc"
        /\ pc' = [pc EXCEPT ![h] = "respond"]
        /\ file' = [file EXCEPT ![h] = f]
        /\ UNCHANGED <<store, asked, answer, putting, late, req, ctx, reply>>
        /\ \/ UNCHANGED job
           \/ \E s \in Saver : job' = [job EXCEPT ![s] = Job(k, f, h)]
    BY <1>4 DEF DaemonAnswers, Spawns, Goto, cacheVars
  <2> HIDE DEF f, k
  <2>5. TypeOK'
    <3>1. job' \in [Saver -> [key : CacheKeys \cup {NoKey}, file : File \cup {NoValue},
                             owner : Handler \cup {None}]]
      <4> DEFINE Task == [key : CacheKeys \cup {NoKey}, file : File \cup {NoValue},
                          owner : Handler \cup {None}]
      <4>1. job \in [Saver -> Task]
        BY DEF TypeOK
      <4>2. Job(k, f, h) \in Task
        BY <2>3 DEF Job
      <4> HIDE DEF Task
      <4>3. job' \in [Saver -> Task]
        BY <2>4, <4>1, <4>2
      <4> QED
        BY <4>3 DEF Task
    <3> QED
      BY <2>3, <2>4, <3>1 DEF TypeOK
  <2>6. CacheInv'
    <3>1. \A s \in Saver : job'[s] # NoJob => GenuineFor(job'[s].file, job'[s].key)
      <4>1. GenuineFor(Job(k, f, h).file, Job(k, f, h).key)
        BY <2>2 DEF Job
      <4>2. \A s \in Saver : job'[s] = job[s] \/ job'[s] = Job(k, f, h)
        BY <2>4 DEF TypeOK
      <4> QED
        BY <4>1, <4>2 DEF CacheInv
    <3> QED
      BY <2>4, <3>1 DEF CacheInv
  <2>7. HandlerInv'
    BY <2>2, <2>4 DEF GenuineFor, Genuine, AnswerFor, HandlerInv, TypeOK, k
  <2>8. SharedInv'
    <3>1. ASSUME UNCHANGED job PROVE SharedInv'
      <4>1. \A s \in Saver : job[s].owner # h
        BY <2>4 DEF SharedInv
      <4>2. \A g \in Handler : g # h => pc'[g] = pc[g] /\ file'[g] = file[g]
        BY <2>4 DEF TypeOK
      <4> QED
        BY <2>4, <3>1, <4>1, <4>2 DEF SharedInv
    <3>2. ASSUME NEW s \in Saver, job' = [job EXCEPT ![s] = Job(k, f, h)]
          PROVE  SharedInv'
      <4>1. \A t \in Saver : job'[t] = IF t = s THEN Job(k, f, h) ELSE job[t]
        BY <3>2 DEF TypeOK
      <4>2. \A g \in Handler : g # h => pc'[g] = pc[g] /\ file'[g] = file[g]
        BY <2>4 DEF TypeOK
      <4>3. pc'[h] = "respond" /\ file'[h] = f
        BY <2>4 DEF TypeOK
      <4> QED
        BY <2>2, <2>4, <4>1, <4>2, <4>3 DEF SharedInv, Job
    <3> QED
      BY <2>4, <3>1, <3>2
  <2> QED
    BY <2>5, <2>6, <2>7, <2>8
<1> QED
  BY <1>1, <1>2, <1>3, <1>4

LEMMA RespondStep ==
    ASSUME PathInv, NEW h \in Handler, Responds(h) \/ Cancel(h), UNCHANGED cacheOn
    PROVE  PathInv'
<1> USE ConstantsAssumption DEF PathInv
<1>1. CASE Responds(h)
  <2> DEFINE f == Named(file[h], req[h])
             k == CacheKey(req[h])
  <2>1. pc[h] = "respond" /\ req[h] \in Request /\ Validate(req[h])
        /\ AnswerFor(file[h], k, None) /\ file[h] \in File
    BY <1>1 DEF Responds, TypeOK, HandlerInv, AnswerFor, Opened
  <2>2. AnswerFor(f, k, req[h].name)
    BY <2>1, NamedAnswers
  <2>3. f \in File /\ f # NoValue /\ k \in CacheKeys
    BY <2>2, OpenedTypes DEF AnswerFor
  <2>4. /\ pc' = [pc EXCEPT ![h] = "idle"]
        /\ reply' = [reply EXCEPT ![h] = [status |-> "ok", file |-> f]]
        /\ ctx' = [ctx EXCEPT ![h] = "done"]
        /\ file' = [file EXCEPT ![h] = NoValue]
        /\ job' = [s \in Saver |-> IF job[s].owner = h THEN Job(job[s].key, f, None) ELSE job[s]]
        /\ UNCHANGED <<store, asked, answer, putting, late, req>>
    BY <1>1 DEF Responds, Answer, cacheVars
  <2>5. \A s \in Saver : job[s].owner = h => job[s] # NoJob /\ GenuineFor(job[s].file, job[s].key)
    BY DEF NoJob, CacheInv
  <2>6. \A s \in Saver : job[s].owner = h => job[s].file = f
    BY <2>1, NamedSame DEF SharedInv, TypeOK
  <2> HIDE DEF f, k
  <2>7. TypeOK'
    BY <2>3, <2>4 DEF TypeOK, Job
  <2>8. CacheInv'
    BY <2>4, <2>5, <2>6 DEF CacheInv, TypeOK, Job
  <2>9. HandlerInv'
    <3>1. \A g \in Handler : g # h => pc'[g] = pc[g] /\ reply'[g] = reply[g] /\ file'[g] = file[g]
      BY <2>4 DEF TypeOK
    <3>2. pc'[h] = "idle" /\ reply'[h].status = "ok" /\ reply'[h].file = f
      BY <2>4 DEF TypeOK
    <3>3. asked[h] = NoKey
      BY <2>1 DEF HandlerInv
    <3> QED
      BY <2>2, <2>4, <3>1, <3>2, <3>3 DEF HandlerInv, k
  <2>10. SharedInv'
    <3>1. \A s \in Saver : job'[s].owner # h
      BY <2>4 DEF Job
    <3>2. \A s \in Saver, g \in Handler :
            job'[s].owner = g => job'[s] = job[s] /\ pc'[g] = pc[g] /\ file'[g] = file[g]
      BY <2>4, <3>1 DEF Job, TypeOK
    <3> QED
      BY <2>4, <3>2 DEF SharedInv
  <2> QED
    BY <2>7, <2>8, <2>9, <2>10
<1>2. CASE Cancel(h)
  BY <1>2, KeyTypes DEF Cancel, cacheVars, TypeOK, CacheInv, HandlerInv, SharedInv
<1> QED
  BY <1>1, <1>2

LEMMA SaveStep ==
    ASSUME PathInv, NEW s \in Saver, Save(s), UNCHANGED cacheOn
    PROVE  PathInv'
<1> USE ConstantsAssumption DEF PathInv
<1>1. CASE SetBegins(s)
  <2> DEFINE f == Stored(job[s].file)
             k == job[s].key
  <2>1. GenuineFor(job[s].file, k)
    BY <1>1 DEF SetBegins, CacheInv
  <2>2. StoredFor(f, k) /\ f \in File /\ k \in CacheKeys
    BY <2>1, StoredGenuine, GenuineTypes DEF StoredFor
  <2>3. putting' = [putting EXCEPT ![s] = [key |-> k, val |-> f]]
        /\ UNCHANGED <<store, asked, answer, late, pc, req, ctx, file, reply, job>>
    BY <1>1 DEF SetBegins, C!SetCall
  <2> HIDE DEF f, k
  <2>4. TypeOK'
    BY <2>2, <2>3 DEF TypeOK
  <2>5. CacheInv'
    BY <2>2, <2>3 DEF CacheInv, TypeOK
  <2> QED
    BY <2>3, <2>4, <2>5 DEF HandlerInv, SharedInv
<1>2. CASE SetStores(s)
  <2>1. /\ putting[s] # C!NoSet
        /\ store' = [store EXCEPT ![putting[s].key] = putting[s].val]
        /\ UNCHANGED <<asked, answer, putting, late, pc, req, ctx, file, reply, job>>
    BY <1>2 DEF SetStores, C!SetStore
  <2>2. /\ StoredFor(putting[s].val, putting[s].key)
        /\ putting[s].val \in File /\ putting[s].key \in CacheKeys
    BY <2>1, GenuineTypes DEF CacheInv, StoredFor
  <2>3. TypeOK'
    BY <2>1, <2>2 DEF TypeOK
  <2>4. CacheInv'
    BY <2>1, <2>2 DEF TypeOK, CacheInv
  <2> QED
    BY <2>1, <2>3, <2>4 DEF HandlerInv, SharedInv
<1>3. CASE SetEnds(s)
  <2>1. /\ putting[s] # C!NoSet
        /\ putting' = [putting EXCEPT ![s] = C!NoSet]
        /\ late' \in {late, late \cup {putting[s]}}
        /\ job' = [job EXCEPT ![s] = NoJob]
        /\ UNCHANGED <<store, asked, answer, pc, req, ctx, file, reply>>
    BY <1>3 DEF SetEnds, C!SetReturn
  <2>2. StoredFor(putting[s].val, putting[s].key)
    BY <2>1 DEF CacheInv
  <2>3. putting[s] \in [key : CacheKeys, val : File]
    BY <2>2, GenuineTypes DEF TypeOK, StoredFor
  <2>4. TypeOK'
    BY <2>1, <2>3 DEF TypeOK, C!NoSet, NoJob
  <2>5. CacheInv'
    BY <2>1, <2>2 DEF TypeOK, CacheInv
  <2> QED
    BY <2>1, <2>4, <2>5 DEF HandlerInv, SharedInv, TypeOK, NoJob
<1> QED
  BY <1>1, <1>2, <1>3 DEF Save

\* A Set that gave up stores what is genuine, too.
LEMMA LateStep ==
    ASSUME PathInv, NEW p \in late, StoresLate(p), UNCHANGED cacheOn
    PROVE  PathInv'
<1> USE ConstantsAssumption DEF PathInv
<1>1. /\ store' \in {store, [store EXCEPT ![p.key] = p.val]}
      /\ late' \subseteq late
      /\ UNCHANGED <<asked, answer, putting, pc, req, ctx, file, reply, job>>
  BY DEF StoresLate, C!LateStore
<1>2. StoredFor(p.val, p.key) /\ p.val \in File /\ p.key \in CacheKeys
  BY GenuineTypes DEF CacheInv, StoredFor
<1>3. TypeOK'
  BY <1>1, <1>2 DEF TypeOK
<1>4. CacheInv'
  BY <1>1, <1>2 DEF TypeOK, CacheInv
<1> QED
  BY <1>1, <1>3, <1>4 DEF HandlerInv, SharedInv

LEMMA ForgetStep ==
    ASSUME PathInv, NEW k \in CacheKeys, Forget(k), UNCHANGED cacheOn
    PROVE  PathInv'
BY ConstantsAssumption DEF PathInv, Forget, C!Forget, TypeOK, CacheInv, HandlerInv, SharedInv

LEMMA NextPath == PathInv /\ [Next]_vars => PathInv'
<1> SUFFICES ASSUME PathInv, [Next]_vars PROVE PathInv'
  OBVIOUS
<1>1. CASE UNCHANGED vars
  BY <1>1 DEF vars, PathInv, TypeOK, CacheInv, HandlerInv, SharedInv
<1>2. CASE Next
  <2>1. UNCHANGED cacheOn
    BY <1>2 DEF Next
  <2>2. CASE \E h \in Handler :
                \/ Serve(h) \/ CacheLosesMetadata(h) \/ CacheLooksAgain(h) \/ Cancel(h)
                \/ \E r \in Request : Accept(h, r)
    BY <2>1, <2>2, AcceptStep, LookupStep, DaemonStep, RespondStep DEF Serve
  <2>3. CASE \E s \in Saver : Save(s)
    BY <2>1, <2>3, SaveStep
  <2>4. CASE \E k \in CacheKeys : Forget(k)
    BY <2>1, <2>4, ForgetStep
  <2>5. CASE \E p \in late : StoresLate(p)
    BY <2>1, <2>5, LateStep
  <2> QED
    BY <1>2, <2>2, <2>3, <2>4, <2>5 DEF Next
<1> QED
  BY <1>1, <1>2

-----------------------------------------------------------------------------
(* Theorems *)

\* On its way through handlers, background Sets and cache a file stays one
\* that a daemon decrypted and under its own key.
THEOREM PathCorrect == Spec => []PathInv
<1> QED
  BY InitPath, NextPath, PTL DEF Spec

\* Every variable keeps its type.
THEOREM TypeCorrect == Spec => []TypeOK
<1>1. PathInv => TypeOK
  BY DEF PathInv
<1> QED
  BY <1>1, PathCorrect, PTL

\* Nobody is answered with the file of another transaction or chain.
THEOREM Isolation == Spec => []NoCrossing
<1>1. PathInv => NoCrossing
  BY DEF PathInv, HandlerInv, NoCrossing, Answered, AnswerFor, KeyOf, CacheKey
<1> QED
  BY <1>1, PathCorrect, PTL

\* A request without a viewing key never gets a file.
THEOREM KeyRequired == Spec => []KeylessRefused
<1>1. PathInv => KeylessRefused
  BY DEF PathInv, HandlerInv, KeylessRefused, Answered, AnswerFor, KeyOf, CacheKey
<1> QED
  BY <1>1, PathCorrect, PTL

\* Only what a daemon decrypted is cached.
THEOREM CacheGenuine == Spec => []CachedIsReadable
<1>1. PathInv => CachedIsReadable
  BY DEF PathInv, CacheInv, CachedIsReadable, StoredFor, GenuineFor, Genuine, Opened
<1> QED
  BY <1>1, PathCorrect, PTL

\* The metadata of an answer describes its bytes, or the cache has lost all of it
\* but for the name that the request gives.
THEOREM MetadataCorrect == Spec => []MetaDescribesContent
<1>1. PathInv => MetaDescribesContent
  BY DEF PathInv, HandlerInv, MetaDescribesContent, Answered, AnswerFor, BareHit
<1> QED
  BY <1>1, PathCorrect, PTL

\* Data of any size, cut into any pieces, is unpacked as a whole or left as it is.
THEOREM Unpacking == \A d \in Data(Nat, Seq(Nat \ {0})) : Decompress(d) = AllOrNothing(d)
<1> SUFFICES ASSUME NEW d \in Data(Nat, Seq(Nat \ {0})) PROVE Decompress(d) = AllOrNothing(d)
  OBVIOUS
<1>1. /\ d.pieces \in Seq(Nat) /\ d.end \in {"eof", "corrupt"}
      /\ d.gzip \in BOOLEAN /\ d.header \in BOOLEAN
  BY DEF Data
<1>2. Total(d.pieces) \in Nat /\ Copy(d.pieces) = WriterAfter(Total(d.pieces))
  BY <1>1, CopyIsTotal
<1>3. CASE Total(d.pieces) < MaxUnpacked
  <2>1. Copy(d.pieces).err = "none" /\ Copy(d.pieces).out = Total(d.pieces)
    BY <1>2, <1>3 DEF WriterAfter
  <2> QED
    BY <1>1, <1>3, <2>1 DEF Decompress, AllOrNothing
<1>4. CASE ~(Total(d.pieces) < MaxUnpacked)
  <2>1. Copy(d.pieces).err # "none"
    BY <1>2, <1>4 DEF WriterAfter
  <2> QED
    BY <1>1, <1>4, <2>1 DEF Decompress, AllOrNothing
<1> QED
  BY <1>3, <1>4

\* Whoever gets a file gets it whole, unpacked or as it came.
THEOREM WholeServed == Spec => []UnpacksAllOrNothing
<1>1. DataUnpacked
  BY Unpacking, DataAssumption DEF DataUnpacked
<1>2. PathInv => ServedWhole
  <2> SUFFICES ASSUME PathInv, NEW h \in Handler, Answered(h)
               PROVE  reply[h].file.content
                        = AllOrNothing(Packing[<<reply[h].file.chain, reply[h].file.txid>>])
    BY DEF ServedWhole
  <2>1. Opened(reply[h].file)
    BY DEF PathInv, HandlerInv, Answered, AnswerFor
  <2>2. Packing[<<reply[h].file.chain, reply[h].file.txid>>] \in Decrypted
    BY <2>1, DataAssumption DEF Opened, File
  <2> QED
    BY <1>1, <2>1, <2>2 DEF DataUnpacked, Opened
<1>3. PathInv => UnpacksAllOrNothing
  BY <1>1, <1>2 DEF UnpacksAllOrNothing
<1> QED
  BY <1>3, PathCorrect, PTL

\* A File shared with a background Set is not written to.
THEOREM NoSharedWrite == Spec => SharedFileFrozen
<1> DEFINE Frozen == \A s \in Saver : job[s] # NoJob /\ job'[s] # NoJob => job'[s].file = job[s].file
<1>1. PathInv /\ [Next]_vars => [Frozen]_vars
  <2> SUFFICES ASSUME PathInv, Next PROVE Frozen
    BY DEF vars
  <2>1. ASSUME NEW h \in Handler, Responds(h) PROVE Frozen
    <3>1. pc[h] = "respond" /\ file[h] \in File
      BY <2>1 DEF Responds, PathInv, HandlerInv, AnswerFor, Opened
    <3>2. \A s \in Saver : job[s].owner = h => job[s].file = Named(file[h], req[h])
      BY <3>1, NamedSame DEF PathInv, SharedInv
    <3> QED
      BY <2>1, <3>2 DEF Responds, Job
  <2>2. ASSUME NEW h \in Handler, DaemonAnswers(h) PROVE Frozen
    BY <2>2 DEF DaemonAnswers, Spawns, Busy, Job, NoJob, PathInv, TypeOK
  <2>3. ASSUME NEW s \in Saver, SetEnds(s) PROVE Frozen
    BY <2>3 DEF SetEnds, NoJob, PathInv, TypeOK
  <2>4. ASSUME UNCHANGED job PROVE Frozen
    BY <2>4
  <2> QED
    BY <2>1, <2>2, <2>3, <2>4 DEF Next, Serve, Cancel, Accept, Rejects, AsksCache, SkipsCache,
       Arrives, Takes, CacheDecides, CacheLosesMetadata, CacheLooksAgain, StoresLate, TakesHit,
       TakesMiss, Refuses, CallsDaemon, DaemonFails, Save, SetBegins, SetStores, Forget
<1> QED
  BY <1>1, PathCorrect, PTL DEF Spec, SharedFileFrozen

-----------------------------------------------------------------------------
(* The Set that a miss leaves behind *)

\* What a background Set has under way is what the File it shares with the
\* handler says, before and after the handler has answered.
SaveInv ==
    \A s \in Saver : putting[s] # C!NoSet =>
        job[s] # NoJob /\ putting[s] = [key |-> job[s].key, val |-> Stored(job[s].file)]

\* The cache has an answer for nobody but who looks there.
LookupInv ==
    \A h \in Handler : answer[h].kind = "none" \/ pc[h] # "lookup" => answer[h] = C!Undecided

\* A miss's Set is never called off: until it has returned it stays the Set of the
\* same file under the same key, whatever becomes of the request.
SaveKept ==
    [][\A s \in Saver : job[s] # NoJob =>
          \/ job'[s].key = job[s].key /\ job'[s].file = job[s].file
          \/ putting[s] = [key |-> job[s].key, val |-> Stored(job[s].file)] /\ SetEnds(s)]_vars

LEMMA InitSave == Init => SaveInv /\ LookupInv
BY DEF Init, SaveInv, LookupInv

\* What a step does to a Set: it may begin it, end it, give its goroutine a new one, or
\* leave it alone.
LEMMA SaveSteps ==
    ASSUME PathInv, Next, NEW s \in Saver
    PROVE  \/ SetBegins(s)
           \/ SetEnds(s)
           \/ job[s] = NoJob /\ putting[s] = C!NoSet /\ putting'[s] = putting[s]
           \/ /\ putting'[s] = putting[s]
              /\ job'[s] # NoJob <=> job[s] # NoJob
              /\ job'[s].key = job[s].key /\ job'[s].file = job[s].file
<1> DEFINE Alone == /\ putting'[s] = putting[s]
                    /\ job'[s] # NoJob <=> job[s] # NoJob
                    /\ job'[s].key = job[s].key /\ job'[s].file = job[s].file
           Fresh == job[s] = NoJob /\ putting[s] = C!NoSet /\ putting'[s] = putting[s]
<1>1. ASSUME NEW h \in Handler, Responds(h) PROVE Alone
  <2>1. pc[h] = "respond" /\ file[h] \in File
    BY <1>1 DEF Responds, PathInv, HandlerInv, AnswerFor, Opened
  <2>2. job[s].owner = h => job[s].file = Named(file[h], req[h]) /\ job[s] # NoJob
    BY <2>1, NamedSame, ConstantsAssumption DEF PathInv, SharedInv, NoJob
  <2>3. putting'[s] = putting[s]
        /\ job'[s] = IF job[s].owner = h THEN Job(job[s].key, Named(file[h], req[h]), None) ELSE job[s]
    BY <1>1 DEF Responds, cacheVars
  <2>4. CASE job[s].owner = h
    <3>1. GenuineFor(job[s].file, job[s].key)
      BY <2>2, <2>4 DEF PathInv, CacheInv
    <3>2. job[s].key # NoKey
      BY <3>1, GenuineTypes, ConstantsAssumption
    <3> QED
      BY <2>2, <2>3, <2>4, <3>2 DEF Job, NoJob
  <2>5. CASE job[s].owner # h
    BY <2>3, <2>5
  <2> QED
    BY <2>4, <2>5
<1>2. ASSUME NEW h \in Handler, DaemonAnswers(h) PROVE Alone \/ Fresh
  BY <1>2 DEF DaemonAnswers, Spawns, Busy, cacheVars, PathInv, TypeOK
<1>3. ASSUME NEW t \in Saver, Save(t) PROVE Alone \/ SetBegins(s) \/ SetEnds(s)
  <2>1. CASE t = s
    BY <1>3, <2>1 DEF Save, SetStores, C!SetStore
  <2>2. CASE t # s
    BY <1>3, <2>2 DEF Save, SetBegins, SetStores, SetEnds, C!SetCall, C!SetStore, C!SetReturn,
       PathInv, TypeOK
  <2> QED
    BY <2>1, <2>2
<1>4. ASSUME UNCHANGED <<putting, job>> PROVE Alone
  BY <1>4
<1> HIDE DEF Alone, Fresh
<1>5. ASSUME NEW h \in Handler,
             \/ CacheDecides(h) \/ CacheLosesMetadata(h) \/ CacheLooksAgain(h)
             \/ TakesHit(h) \/ TakesMiss(h)
      PROVE  Alone
  BY <1>4, <1>5 DEF CacheDecides, CacheLosesMetadata, CacheLooksAgain, TakesHit, TakesMiss, C!GetHit,
     C!GetLoses, C!GetNothing, C!GetReturn, C!GetAgain
<1>6. ASSUME NEW h \in Handler,
             Refuses(h) \/ CallsDaemon(h) \/ DaemonFails(h) \/ Cancel(h)
      PROVE  Alone
  BY <1>4, <1>6 DEF Refuses, CallsDaemon, DaemonFails, Cancel, cacheVars
<1>7. ASSUME NEW h \in Handler, NEW r \in Request, Accept(h, r) PROVE Alone
  BY <1>4, <1>7 DEF Accept, Rejects, AsksCache, SkipsCache, Takes, Arrives, C!GetCall, cacheVars
<1>8. ASSUME (\E p \in late : StoresLate(p)) \/ \E k \in CacheKeys : Forget(k) PROVE Alone
  BY <1>4, <1>8 DEF StoresLate, Forget, C!LateStore, C!Forget
<1>9. Alone \/ Fresh \/ SetBegins(s) \/ SetEnds(s)
  BY <1>1, <1>2, <1>3, <1>5, <1>6, <1>7, <1>8 DEF Next, Serve
<1> QED
  BY <1>9 DEF Alone, Fresh

LEMMA NextSave == PathInv /\ SaveInv /\ [Next]_vars => SaveInv'
<1> SUFFICES ASSUME PathInv, SaveInv, [Next]_vars, NEW s \in Saver, putting'[s] # C!NoSet
             PROVE  job'[s] # NoJob
                    /\ putting'[s] = [key |-> job'[s].key, val |-> Stored(job'[s].file)]
  BY DEF SaveInv
<1>1. CASE UNCHANGED vars
  BY <1>1 DEF vars, SaveInv
<1>2. CASE SetBegins(s)
  BY <1>2 DEF SetBegins, C!SetCall, PathInv, TypeOK
<1>3. CASE SetEnds(s)
  BY <1>3 DEF SetEnds, C!SetReturn, PathInv, TypeOK
<1>4. ASSUME putting'[s] = putting[s],
             job'[s] # NoJob <=> job[s] # NoJob,
             job'[s].key = job[s].key, job'[s].file = job[s].file
      PROVE  job'[s] # NoJob
             /\ putting'[s] = [key |-> job'[s].key, val |-> Stored(job'[s].file)]
  BY <1>4 DEF SaveInv
<1> QED
  BY <1>1, <1>2, <1>3, <1>4, SaveSteps

\* What is on its way to the cache is, until the Set returns, the file of its miss.
THEOREM SavesFaithful == Spec => []SaveInv
<1> QED
  BY InitSave, NextSave, PathCorrect, PTL DEF Spec

\* The Set of a miss is not called off, and not ended before it has begun.
THEOREM SavesKept == Spec => SaveKept
<1> DEFINE Keeps == \A s \in Saver : job[s] # NoJob =>
                      \/ job'[s].key = job[s].key /\ job'[s].file = job[s].file
                      \/ putting[s] = [key |-> job[s].key, val |-> Stored(job[s].file)] /\ SetEnds(s)
<1>1. PathInv /\ SaveInv /\ [Next]_vars => [Keeps]_vars
  <2> SUFFICES ASSUME PathInv, SaveInv, Next, NEW s \in Saver, job[s] # NoJob
               PROVE  \/ job'[s].key = job[s].key /\ job'[s].file = job[s].file
                      \/ putting[s] = [key |-> job[s].key, val |-> Stored(job[s].file)] /\ SetEnds(s)
    BY DEF vars
  <2>1. CASE SetBegins(s)
    BY <2>1 DEF SetBegins
  <2>2. CASE SetEnds(s)
    BY <2>2 DEF SetEnds, C!SetReturn, SaveInv
  <2> QED
    BY <2>1, <2>2, SaveSteps
<1> QED
  BY <1>1, PathCorrect, SavesFaithful, PTL DEF Spec, SaveKept

-----------------------------------------------------------------------------
(* The cache, as the gateway uses it, and the way of a request to its answer *)

\* The gateway uses its cache as Cache.tla allows, whatever requests come: one Get
\* at a time and one Set, and each file goes under the key of its own transaction.
UsesCache ==
    [][/\ C!Next
       /\ \A s \in Saver : putting[s] = C!NoSet /\ putting'[s] # C!NoSet =>
             putting'[s].key = KeyOf(putting'[s].val)]_cacheVars

\* The steps that a request can still take before its answer at most, if its
\* Get does not look again.
StepsLeft(h) ==
    CASE pc[h] = "idle"    -> 0
      [] pc[h] = "respond" -> 1
      [] pc[h] = "rpc"     -> 2
      [] pc[h] = "client"  -> 3
      [] pc[h] = "lookup"  -> IF answer[h] = C!Undecided THEN 5 ELSE 4

\* A handler comes nearer to its answer with every step; only a cache that lost
\* what it had found sets it back, by one look, and no other request, Set, deletion
\* or end of a context does.
RequestProgresses ==
    [][\A h \in Handler : pc[h] # "idle" =>
          /\ StepsLeft(h) \in 1 .. 5
          /\ IF Serve(h) THEN StepsLeft(h)' < StepsLeft(h)
             ELSE IF CacheLooksAgain(h) THEN StepsLeft(h)' = StepsLeft(h) + 1
             ELSE StepsLeft(h)' = StepsLeft(h)]_vars

LEMMA NextLookup == PathInv /\ LookupInv /\ [Next]_vars => LookupInv'
<1> SUFFICES ASSUME PathInv, LookupInv, [Next]_vars PROVE LookupInv'
  OBVIOUS
<1> DEFINE Moved(h, l) == pc' = [pc EXCEPT ![h] = l] /\ pc[h] # "lookup" /\ UNCHANGED answer
<1>1. ASSUME NEW h \in Handler, NEW l, Moved(h, l) PROVE LookupInv'
  BY <1>1 DEF LookupInv, PathInv, TypeOK
<1>2. ASSUME UNCHANGED <<pc, answer>> PROVE LookupInv'
  BY <1>2 DEF LookupInv
<1>3. ASSUME NEW h \in Handler, CacheDecides(h) PROVE LookupInv'
  <2>1. pc[h] = "lookup"
    BY <1>3, ConstantsAssumption DEF CacheDecides, C!GetHit, C!GetNothing, PathInv, HandlerInv
  <2>2. answer'[h].kind # "none" /\ \A g \in Handler \ {h} : answer'[g] = answer[g]
    BY <1>3 DEF CacheDecides, C!GetHit, C!GetNothing, C!Hit, C!Nothing, PathInv, TypeOK
  <2>3. pc' = pc
    BY <1>3 DEF CacheDecides
  <2> QED
    BY <2>1, <2>2, <2>3 DEF LookupInv, C!Undecided
<1>4. ASSUME NEW h \in Handler, CacheLooksAgain(h) PROVE LookupInv'
  BY <1>4 DEF CacheLooksAgain, C!GetAgain, LookupInv, PathInv, TypeOK
<1>10. ASSUME NEW h \in Handler, CacheLosesMetadata(h) PROVE LookupInv'
  BY <1>10 DEF CacheLosesMetadata, C!GetLoses, C!Undecided, LookupInv, PathInv, TypeOK
<1>5. ASSUME NEW h \in Handler, TakesHit(h) \/ TakesMiss(h) PROVE LookupInv'
  BY <1>5 DEF TakesHit, TakesMiss, Goto, C!GetReturn, LookupInv, PathInv, TypeOK
<1>6. ASSUME NEW h \in Handler,
             Refuses(h) \/ CallsDaemon(h) \/ DaemonFails(h) \/ DaemonAnswers(h) \/ Responds(h)
      PROVE  LookupInv'
  BY <1>1, <1>2, <1>6 DEF Refuses, CallsDaemon, DaemonFails, DaemonAnswers, Responds, Answer, Goto,
     cacheVars
<1>7. ASSUME NEW h \in Handler, NEW r \in Request, Accept(h, r) PROVE LookupInv'
  BY <1>1, <1>2, <1>7 DEF Accept, Rejects, AsksCache, SkipsCache, Takes, Arrives, Goto, C!GetCall,
     cacheVars
<1>8. ASSUME \/ \E h \in Handler : Cancel(h)
             \/ \E s \in Saver : Save(s)
             \/ \E p \in late : StoresLate(p)
             \/ \E k \in CacheKeys : Forget(k)
      PROVE  LookupInv'
  BY <1>2, <1>8 DEF Cancel, Save, SetBegins, SetStores, SetEnds, StoresLate, Forget, C!SetCall,
     C!SetStore, C!SetReturn, C!LateStore, C!Forget, cacheVars
<1>9. CASE UNCHANGED vars
  BY <1>2, <1>9 DEF vars
<1> HIDE DEF Moved
<1> QED
  BY <1>3, <1>4, <1>5, <1>6, <1>7, <1>8, <1>9, <1>10 DEF Next, Serve

\* The gateway is a user of the cache as Cache.tla has it, and stores each file
\* under its own key: what KeysApart of FsCacheProofs asks of the callers of Set.
THEOREM CacheUse == Spec => UsesCache
<1> DEFINE Own == \A s \in Saver : putting[s] = C!NoSet /\ putting'[s] # C!NoSet =>
                    putting'[s].key = KeyOf(putting'[s].val)
           Uses == C!Next /\ Own
<1>1. ASSUME PathInv, PathInv', Next PROVE [Uses]_cacheVars
  <2>1. Own
    BY <1>1 DEF PathInv, CacheInv, StoredFor, GenuineFor
  <2>2. ASSUME NEW h \in Handler,
               \/ CacheDecides(h) \/ CacheLosesMetadata(h) \/ CacheLooksAgain(h)
               \/ TakesHit(h) \/ TakesMiss(h)
        PROVE  C!Next
    BY <2>2 DEF CacheDecides, CacheLosesMetadata, TakesHit, TakesMiss, CacheLooksAgain, C!Next
  <2>3. ASSUME NEW h \in Handler, NEW r \in Request, AsksCache(h, r) PROVE C!Next
    BY <2>3, KeyTypes DEF AsksCache, Takes, Arrives, C!Next
  <2>4. ASSUME NEW s \in Saver, Save(s) PROVE C!Next
    <3>1. ASSUME SetBegins(s) PROVE C!Next
      <4>1. Stored(job[s].file) \in File /\ job[s].key \in CacheKeys
        BY <1>1, <3>1, StoredGenuine, GenuineTypes DEF StoredFor, SetBegins, PathInv, CacheInv
      <4> QED
        BY <3>1, <4>1 DEF SetBegins, C!Next
    <3>2. ASSUME SetStores(s) \/ SetEnds(s) PROVE C!Next
      BY <3>2 DEF SetStores, SetEnds, C!Next
    <3> QED
      BY <2>4, <3>1, <3>2 DEF Save
  <2>5. ASSUME NEW p \in late, StoresLate(p) PROVE C!Next
    BY <2>5 DEF StoresLate, C!Next
  <2>6. ASSUME NEW k \in CacheKeys, Forget(k) PROVE C!Next
    BY <2>6 DEF Forget, C!Next
  <2>7. ASSUME NEW h \in Handler,
               \/ Refuses(h) \/ CallsDaemon(h) \/ DaemonFails(h) \/ DaemonAnswers(h)
               \/ Responds(h) \/ Cancel(h)
               \/ \E r \in Request : Rejects(h, r) \/ SkipsCache(h, r)
        PROVE  UNCHANGED cacheVars
    BY <2>7 DEF Refuses, CallsDaemon, DaemonFails, DaemonAnswers, Responds, Cancel, Rejects, SkipsCache
  <2> HIDE DEF Own
  <2> QED
    BY <1>1, <2>1, <2>2, <2>3, <2>4, <2>5, <2>6, <2>7 DEF Next, Serve, Accept
<1>2. PathInv /\ PathInv' /\ [Next]_vars => [Uses]_cacheVars
  BY <1>1 DEF vars, cacheVars
<1> QED
  BY <1>2, PathCorrect, PTL DEF Spec, UsesCache

LEMMA LeftType ==
    ASSUME PathInv, NEW h \in Handler, pc[h] # "idle"
    PROVE  StepsLeft(h) \in 1 .. 5
BY DEF PathInv, TypeOK, StepsLeft

LEMMA ServeFalls ==
    ASSUME PathInv, NEW h \in Handler, Serve(h)
    PROVE  StepsLeft(h)' < StepsLeft(h)
<1>1. CASE CacheDecides(h)
  <2>1. pc[h] = "lookup" /\ pc'[h] = "lookup"
    BY <1>1, ConstantsAssumption DEF CacheDecides, C!GetHit, C!GetNothing, PathInv, HandlerInv
  <2>2. answer[h] = C!Undecided /\ answer'[h] # C!Undecided
    BY <1>1 DEF CacheDecides, C!GetHit, C!GetNothing, C!Hit, C!Nothing, C!Undecided, PathInv, TypeOK
  <2> QED
    BY <2>1, <2>2 DEF StepsLeft
<1>2. CASE TakesHit(h) \/ TakesMiss(h)
  <2>1. pc[h] = "lookup" /\ pc'[h] \in {"respond", "client"} /\ answer[h] # C!Undecided
    BY <1>2 DEF TakesHit, TakesMiss, Goto, C!GetReturn, PathInv, TypeOK
  <2> QED
    BY <2>1 DEF StepsLeft
<1>3. CASE Refuses(h) \/ CallsDaemon(h) \/ DaemonFails(h) \/ DaemonAnswers(h) \/ Responds(h)
  <2>1. \/ pc[h] = "client" /\ pc'[h] \in {"idle", "rpc"}
        \/ pc[h] = "rpc" /\ pc'[h] \in {"idle", "respond"}
        \/ pc[h] = "respond" /\ pc'[h] = "idle"
    BY <1>3 DEF Refuses, CallsDaemon, DaemonFails, DaemonAnswers, Responds, Answer, Goto, PathInv, TypeOK
  <2> QED
    BY <2>1 DEF StepsLeft
<1> QED
  BY <1>1, <1>2, <1>3 DEF Serve

\* A lookup begun anew is one step more.
LEMMA AgainRises ==
    ASSUME PathInv, LookupInv, NEW h \in Handler, CacheLooksAgain(h)
    PROVE  StepsLeft(h)' = StepsLeft(h) + 1
<1>1. pc[h] = "lookup" /\ pc'[h] = "lookup" /\ answer[h] # C!Undecided /\ answer'[h] = C!Undecided
  BY DEF CacheLooksAgain, C!GetAgain, LookupInv, PathInv, TypeOK
<1> QED
  BY <1>1 DEF StepsLeft

LEMMA OthersKeep ==
    ASSUME PathInv, Next, NEW h \in Handler, pc[h] # "idle", ~Serve(h), ~CacheLooksAgain(h)
    PROVE  pc'[h] = pc[h] /\ (answer'[h] = C!Undecided <=> answer[h] = C!Undecided)
<1> DEFINE Same == pc'[h] = pc[h] /\ (answer'[h] = C!Undecided <=> answer[h] = C!Undecided)
<1>1. ASSUME NEW g \in Handler, g # h, Serve(g) \/ CacheLooksAgain(g) PROVE Same
  BY <1>1 DEF Serve, CacheDecides, CacheLooksAgain, TakesHit, TakesMiss, Refuses, CallsDaemon, DaemonFails,
     DaemonAnswers, Responds, Answer, Goto, cacheVars, C!GetHit, C!GetNothing, C!GetReturn, C!GetAgain,
     PathInv, TypeOK
<1>2. ASSUME NEW g \in Handler, NEW r \in Request, Accept(g, r) PROVE Same
  BY <1>2 DEF Accept, Rejects, AsksCache, SkipsCache, Takes, Arrives, Goto, C!GetCall, cacheVars,
     PathInv, TypeOK
<1>3. ASSUME \/ \E g \in Handler : Cancel(g)
             \/ \E s \in Saver : Save(s)
             \/ \E p \in late : StoresLate(p)
             \/ \E k \in CacheKeys : Forget(k)
      PROVE  Same
  BY <1>3 DEF Cancel, Save, SetBegins, SetStores, SetEnds, StoresLate, Forget, C!SetCall,
     C!SetStore, C!SetReturn, C!LateStore, C!Forget, cacheVars
<1>5. ASSUME NEW g \in Handler, CacheLosesMetadata(g) PROVE Same
  <2>1. /\ pc' = pc
        /\ answer[g].kind = "hit"
        /\ answer' = [answer EXCEPT ![g].meta = NoValue]
    BY <1>5 DEF CacheLosesMetadata, C!GetLoses
  <2>2. CASE g = h
    BY <2>1, <2>2 DEF C!Undecided, PathInv, TypeOK
  <2>3. CASE g # h
    BY <2>1, <2>3 DEF PathInv, TypeOK
  <2> QED
    BY <2>2, <2>3
<1> HIDE DEF Same
<1>4. Same
  BY <1>1, <1>2, <1>3, <1>5 DEF Next
<1> QED
  BY <1>4 DEF Same

\* Who asks the cache at all gets an answer from it or none; no answer is left over
\* from an earlier Get.
THEOREM Lookups == Spec => []LookupInv
<1> QED
  BY InitSave, NextLookup, PathCorrect, PTL DEF Spec

\* Nothing holds a request up for ever but a cache that looks again for ever.
THEOREM RequestsEnd == Spec => RequestProgresses
<1> DEFINE Progress ==
        \A h \in Handler : pc[h] # "idle" =>
          /\ StepsLeft(h) \in 1 .. 5
          /\ IF Serve(h) THEN StepsLeft(h)' < StepsLeft(h)
             ELSE IF CacheLooksAgain(h) THEN StepsLeft(h)' = StepsLeft(h) + 1
             ELSE StepsLeft(h)' = StepsLeft(h)
<1>1. PathInv /\ LookupInv /\ [Next]_vars => [Progress]_vars
  <2> SUFFICES ASSUME PathInv, LookupInv, Next, NEW h \in Handler, pc[h] # "idle"
               PROVE  /\ StepsLeft(h) \in 1 .. 5
                      /\ Serve(h) => StepsLeft(h)' < StepsLeft(h)
                      /\ ~Serve(h) /\ CacheLooksAgain(h) => StepsLeft(h)' = StepsLeft(h) + 1
                      /\ ~Serve(h) /\ ~CacheLooksAgain(h) => StepsLeft(h)' = StepsLeft(h)
    BY DEF vars
  <2>1. ASSUME ~Serve(h), ~CacheLooksAgain(h) PROVE StepsLeft(h)' = StepsLeft(h)
    <3>1. pc'[h] = pc[h] /\ (answer'[h] = C!Undecided <=> answer[h] = C!Undecided)
      BY <2>1, OthersKeep
    <3> QED
      BY <3>1 DEF StepsLeft, C!Undecided
  <2> QED
    BY <2>1, LeftType, ServeFalls, AgainRises
<1> QED
  BY <1>1, PathCorrect, Lookups, PTL DEF Spec, RequestProgresses
=============================================================================
